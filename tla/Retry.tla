------------------------------- MODULE Retry --------------------------------
(***************************************************************************)
(* retry.DoWithResult and its variants, called by several goroutines with  *)
(* one set of options (retry/retry.go), the errors they decide by          *)
(* (errors/errors.go) and what the user is told of them                    *)
(* (retry/messages.go).                                                    *)
(***************************************************************************)
EXTENDS Integers

CONSTANTS
  Caller,          \* the goroutines
  Failure,         \* the errors operations may return, a subset of Error
  DurationLimit    \* the largest time.Duration

VARIABLES
  opts,        \* the shared options
  pc,          \* where a caller is
  attempt,     \* its loop variable
  delay,       \* the delay it waits, or waited last
  calls,       \* how often it called its operation
  last,        \* lastErr
  retried,     \* the errors it called again after
  outcome,     \* what it returned
  cancelled,   \* the callers whose context is cancelled
  late         \* how many calls it began after that

retryVars == <<pc, attempt, delay, calls, last, retried, outcome, cancelled, late>>

-----------------------------------------------------------------------------
\* Errors are a Go type and a code; the types have one code each, VisionError any.
CodeOf ==
  [ConfigurationError |-> "CONFIG", ProviderError |-> "PROVIDER",
   FileUploadError |-> "UPLOAD", FileNotFoundError |-> "NOT_FOUND",
   UnsupportedFileTypeError |-> "UNSUPPORTED", FileSizeExceededError |-> "SIZE",
   RateLimitExceededError |-> "RATE", AuthenticationError |-> "AUTHENTICATION",
   AuthorizationError |-> "AUTHORIZATION", NetworkError |-> "NETWORK",
   ValidationError |-> "VALIDATION", AnalysisError |-> "ANALYSIS"]

Error ==
  {[type |-> t, code |-> CodeOf[t]] : t \in DOMAIN CodeOf}
    \cup {[type |-> "VisionError", code |-> CodeOf[t]] : t \in DOMAIN CodeOf}
    \cup {[type |-> "foreign", code |-> "none"]}

ASSUME RetryAssumption == DurationLimit \in Nat /\ Failure \subseteq Error

NoError == [type |-> "nil", code |-> "none"]

\* The Retryable flag of DefaultErrorMessages and additionalErrorMessages, by
\* MessageResolver.Resolve; the default message has it not.
ToldRetryable(err) ==
  err.code \in {"PROVIDER", "UPLOAD", "RATE", "NETWORK", "ANALYSIS"}

\* errors.IsRetryable
IsRetryable(err) ==
  \/ err.type = "VisionError" /\ err.code \in {"RATE", "NETWORK"}
  \/ err.type \in {"RateLimitExceededError", "NetworkError"}

\* shouldRetry with the default codes; a wrapped error is foreign to it.
ShouldRetry(err) ==
  \/ err.type = "VisionError" /\ err.code \in {"RATE", "NETWORK"}
  \/ IsRetryable(err)

\* Quarters of the delay that jitter makes of it: from 3/4 to 5/4.
Jitter(o) == IF o.jitter THEN {3, 4, 5} ELSE {4}

\* calculateDelay: the conversion of a float beyond the range gives the least
\* Duration on amd64, so that the comparison finds nothing to cap.
CalculateDelay(n, o, quarters) ==
  LET exact    == (o.base * o.multiplier ^ n * quarters) \div 4
      duration == IF exact \in -DurationLimit..DurationLimit THEN exact ELSE -DurationLimit - 1
  IN  IF duration > o.max THEN o.max ELSE duration

-----------------------------------------------------------------------------
RetryInit ==
  /\ pc        = [k \in Caller |-> "new"]
  /\ attempt   = [k \in Caller |-> 0]
  /\ delay     = [k \in Caller |-> 0]
  /\ calls     = [k \in Caller |-> 0]
  /\ last      = [k \in Caller |-> NoError]
  /\ retried   = [k \in Caller |-> {}]
  /\ outcome   = [k \in Caller |-> "none"]
  /\ cancelled = {}
  /\ late      = [k \in Caller |-> 0]

Return(k, what) ==
  /\ pc' = [pc EXCEPT ![k] = "done"]
  /\ outcome' = [outcome EXCEPT ![k] = what]

\* Do, DoWithResult; WithExponentialBackoff and WithLinearBackoff write to the
\* options of the caller, who may share them.
Begin(k) ==
  /\ pc[k] = "new"
  /\ opts' \in {opts, [opts EXCEPT !.multiplier = 2, !.jitter = TRUE],
                      [opts EXCEPT !.multiplier = 1, !.jitter = FALSE]}
  /\ pc' = [pc EXCEPT ![k] = "check"]
  /\ UNCHANGED <<attempt, delay, calls, last, retried, outcome, cancelled, late>>

\* The head of the loop; with a negative MaxRetries it is not entered, and the
\* zero value is returned without an error.
Check(k) ==
  /\ pc[k] = "check"
  /\ CASE attempt[k] > opts.maxRetries -> Return(k, "zero")
       [] attempt[k] <= opts.maxRetries /\ k \in cancelled -> Return(k, "cancelled")
       [] OTHER -> pc' = [pc EXCEPT ![k] = "call"] /\ UNCHANGED outcome
  /\ UNCHANGED <<opts, attempt, delay, calls, last, retried, cancelled, late>>

Called(k) ==
  /\ pc[k] = "call"
  /\ calls' = [calls EXCEPT ![k] = @ + 1]
  /\ late' = [late EXCEPT ![k] = IF k \in cancelled THEN @ + 1 ELSE @]
  /\ UNCHANGED <<opts, attempt, retried, cancelled>>

Succeed(k) ==
  /\ Called(k)
  /\ Return(k, "value")
  /\ UNCHANGED <<delay, last>>

\* The operation fails, for good or to be called again after a delay.
Fail(k, err) ==
  /\ Called(k)
  /\ last' = [last EXCEPT ![k] = err]
  /\ IF attempt[k] = opts.maxRetries \/ ~ShouldRetry(err)
       THEN Return(k, "error") /\ UNCHANGED delay
       ELSE /\ pc' = [pc EXCEPT ![k] = "wait"]
            /\ \E quarters \in Jitter(opts) :
                 delay' = [delay EXCEPT ![k] = CalculateDelay(attempt[k], opts, quarters)]
            /\ UNCHANGED outcome

Elapse(k) ==
  /\ pc[k] = "wait"
  /\ pc' = [pc EXCEPT ![k] = "check"]
  /\ attempt' = [attempt EXCEPT ![k] = @ + 1]
  /\ retried' = [retried EXCEPT ![k] = @ \cup {last[k]}]
  /\ UNCHANGED <<opts, delay, calls, last, outcome, cancelled, late>>

GiveUp(k) ==
  /\ pc[k] = "wait" /\ k \in cancelled
  /\ Return(k, "cancelled")
  /\ UNCHANGED <<opts, attempt, delay, calls, last, retried, cancelled, late>>

Cancel(k) ==
  /\ k \notin cancelled /\ pc[k] # "done"
  /\ cancelled' = cancelled \cup {k}
  /\ UNCHANGED <<opts, pc, attempt, delay, calls, last, retried, outcome, late>>

RetryNext ==
  \E k \in Caller :
    \/ Begin(k) \/ Check(k) \/ Succeed(k) \/ (\E err \in Failure : Fail(k, err))
    \/ Elapse(k) \/ GiveUp(k) \/ Cancel(k)

-----------------------------------------------------------------------------
\* PROPERTIES

\* Whoever else sets the options meanwhile: a caller is given what its operation
\* returned; nothing but an error that may pass, of which the user is told so too,
\* is a reason to call again, and nothing but the budget, the context or another
\* error to stop; no wait is longer than the maximum, and no second call begins
\* after the context was cancelled (retry.go:68-120).  A negative budget makes the
\* exception: nothing is called, and no error returned.
RetryPolicy ==
  \A k \in Caller :
    /\ calls[k] <= (IF opts.maxRetries < 0 THEN 0 ELSE opts.maxRetries + 1)
    /\ outcome[k] = "zero" => opts.maxRetries < 0
    /\ outcome[k] = "error" =>
         calls[k] = opts.maxRetries + 1 \/ last[k].code \notin {"RATE", "NETWORK"}
    /\ \A err \in retried[k] : err.code \in {"RATE", "NETWORK"} /\ ToldRetryable(err)
    /\ calls[k] > 1 \/ pc[k] = "wait" => delay[k] <= opts.max
    /\ late[k] <= 1
=============================================================================
