------------------------------ MODULE Settings ------------------------------
(***************************************************************************)
(* Configuration: config.Load, which reads the environment and is strict,  *)
(* and the layered configuration, which also reads a file and options of   *)
(* the caller and is forgiving (config/config.go, config/layered.go,       *)
(* config/source.go).                                                      *)
(*                                                                         *)
(* A text is represented by what the parsers make of it, and one field     *)
(* stands for all that are read in the same way.                           *)
(***************************************************************************)
EXTENDS Integers, Sequences

\* What a source holds: "bad" cannot be parsed, "huge" is beyond every cap.
Text == {"empty", "bad", "negative", "zero", "good", "huge", "default"}

\* The names a field is looked up by, the new one before the old one.
Names ==
  [base           |-> << "OPENPIC_API_BASE_URL", "VISION_API_BASE_URL" >>,
   timeout        |-> << "OPENPIC_TIMEOUT", "VISION_TIMEOUT" >>,
   logLevel       |-> << "OPENPIC_LOG_LEVEL", "VISION_LOG_LEVEL" >>,
   inlineBytes    |-> << "OPENPIC_MAX_INLINE_PAYLOAD_BYTES" >>,
   overwrite      |-> << "OPENPIC_OVERWRITE" >>,
   workers        |-> << "OPENPIC_MAX_CONCURRENT_REQUESTS" >>,
   requestTimeout |-> << "OPENPIC_REQUEST_TIMEOUT" >>,
   shutdown       |-> << "OPENPIC_SHUTDOWN_TIMEOUT" >>,
   logFormat      |-> << "OPENPIC_LOG_FORMAT" >>,
   maxRetries     |-> << "VISION_MAX_RETRIES" >>,
   baseDelay      |-> << "VISION_RETRY_BASE_DELAY" >>,
   maxDelay       |-> << "VISION_RETRY_MAX_DELAY" >>]

RetryField == {"maxRetries", "baseDelay", "maxDelay"}
Field      == DOMAIN Names \ RetryField
Name       == UNION {{Names[f][i] : i \in DOMAIN Names[f]} : f \in DOMAIN Names}

\* What a source may hold under a name: there is no default for the base URL.
TextOf(name) ==
  IF \E i \in DOMAIN Names.base : name = Names.base[i] THEN Text \ {"default"} ELSE Text

\* Of the fields with two names the defaults have the old one, and no base URL.
DefaultSource ==
  [name \in Name \ {"OPENPIC_API_BASE_URL", "VISION_API_BASE_URL", "OPENPIC_TIMEOUT",
                    "OPENPIC_LOG_LEVEL"} |-> "default"]

\* FileSource.flatten: nested keys and letter case may make one name of several
\* entries, and the order of a Go map decides which one stays.
FileSources(entries) ==
  LET names == {e[1] : e \in entries}
  IN  {s \in [names -> Text] : \A name \in names : <<name, s[name]>> \in entries}

-----------------------------------------------------------------------------
\* What a field's text means.

Invalid == "invalid"

ClampPositiveInt(text) ==
  CASE text \in {"zero", "negative"} -> "default"
    [] text = "huge"                 -> "cap"
    [] OTHER                         -> text

\* Load: what cannot be read, and some of what makes no sense, is an error.
Strict(field, text) ==
  IF text \in {"empty", "default"} THEN "default" ELSE
  CASE field \in {"base", "logLevel"} -> text
    [] field = "logFormat"      -> IF text = "good" THEN text ELSE Invalid
    [] field = "requestTimeout" -> IF text \in {"bad", "negative"} THEN Invalid ELSE text
    [] field = "shutdown"       -> IF text \in {"bad", "negative", "zero"} THEN Invalid
                                   ELSE text
    [] field = "inlineBytes"    -> IF text = "bad" THEN Invalid
                                   ELSE IF text \in {"negative", "zero"} THEN "default" ELSE text
    [] field = "workers"        -> IF text = "bad" THEN Invalid ELSE ClampPositiveInt(text)
    [] OTHER                    -> IF text = "bad" THEN Invalid ELSE text

\* Mutant: a negative timeout is kept.
KeepsNegative(field, text) ==
  IF text \in {"empty", "bad", "default"} /\ field \notin {"base", "logLevel"} THEN "default"
  ELSE
  CASE field \in {"base", "logLevel"} -> IF text = "empty" THEN "default" ELSE text
    [] field = "logFormat"     -> IF text = "good" THEN text ELSE "default"
    [] field = "workers"       -> ClampPositiveInt(text)
    [] OTHER                   -> text

\* BuildConfig: the default takes the place of what Load refuses.
Forgiving(field, text) ==
  IF text \in {"empty", "bad", "default"} /\ field \notin {"base", "logLevel"} THEN "default"
  ELSE
  CASE field \in {"base", "logLevel"} -> IF text = "empty" THEN "default" ELSE text
    [] field = "logFormat"      -> IF text = "good" THEN text ELSE "default"
    [] field = "requestTimeout" -> IF text = "negative" THEN "default" ELSE text
    [] field \in {"shutdown", "inlineBytes"} ->
         IF text \in {"negative", "zero"} THEN "default" ELSE text
    [] field = "workers"        -> ClampPositiveInt(text)
    [] OTHER                    -> text

-----------------------------------------------------------------------------
\* Looking values up.

\* LayeredConfig.Get: the source with the highest priority that has the name,
\* be it with an empty value; os.Getenv for Load, which has one source.
Get(sources, name) ==
  LET having == {i \in DOMAIN sources : name \in DOMAIN sources[i]}
  IN  IF having = {} THEN "empty"
      ELSE sources[CHOOSE i \in having : \A j \in having : i <= j][name]

\* getFirst, firstNonEmptyEnv: the first name with a value, whatever its source.
GetFirst(sources, names) ==
  LET set == {i \in DOMAIN names : Get(sources, names[i]) # "empty"}
  IN  IF set = {} THEN "empty"
      ELSE Get(sources, names[CHOOSE i \in set : \A j \in set : i <= j])

\* Validate
Valid(config) == config.base # "default" /\ \A f \in DOMAIN config : config[f] # Invalid

Load(env) ==
  LET config == [f \in Field |-> Strict(f, GetFirst(<< env >>, Names[f]))]
  IN  IF Valid(config) THEN config ELSE [base |-> Invalid]

\* BuildConfig of the sources in the order of their priority, the highest first.
BuildConfig(sources) ==
  LET config == [f \in Field |-> Forgiving(f, GetFirst(sources, Names[f]))]
  IN  IF Valid(config) THEN config ELSE [base |-> Invalid]

\* What BuildExtendedConfig adds: no value that can be parsed is out of range.
RetrySettings(sources) ==
  [f \in RetryField |->
     LET text == Get(sources, Names[f][1])
     IN  IF text \in {"empty", "bad"} THEN "default" ELSE text]
=============================================================================
