---------------------------- MODULE MCConfigured ----------------------------
\* Configured with environments in which one field varies, or two names of one.
EXTENDS Configured, TLC

CONSTANTS k1, k2

\* The texts that a field's parser tells apart.
TextsOf(f) ==
  CASE f \in {"base", "logLevel"}        -> {"empty", "good"}
    [] f \in {"overwrite", "logFormat"}  -> {"empty", "bad", "good"}
    [] OTHER -> {"empty", "bad", "negative", "zero", "good", "huge"}

Varying(f) ==
  UNION {[names -> TextsOf(f)] : names \in SUBSET {Names[f][i] : i \in DOMAIN Names[f]}}

\* Without a second call when another field varies than those of the retries.
Plain == ("OPENPIC_API_BASE_URL" :> "good") @@ ("VISION_MAX_RETRIES" :> "zero")
Twice == ("OPENPIC_API_BASE_URL" :> "good") @@ ("VISION_MAX_RETRIES" :> "good")

Entries == {<<"OPENPIC_TIMEOUT", "zero">>, <<"OPENPIC_TIMEOUT", "huge">>,
            <<"VISION_API_BASE_URL", "good">>}
Options == ("OPENPIC_TIMEOUT" :> "good") @@ ("OPENPIC_LOG_LEVEL" :> "good")

\* An option without a value hides the base URL of the environment.
Hiding == "OPENPIC_API_BASE_URL" :> "empty"

MCSurroundings ==
  [env     : UNION {{s @@ Plain : s \in Varying(f)} : f \in Field}
               \cup {"VISION_MAX_RETRIES" :> "zero"},
   entries : {{}, Entries},
   runtime : {<< >>, Options, Hiding}]
  \cup
  [env     : UNION {{s @@ Twice : s \in Varying(f)} : f \in RetryField},
   entries : {{}},
   runtime : {<< >>}]

MCAmount ==
  [maxRetries |-> [default |-> 3, zero |-> 0, negative |-> -1, good |-> 2, huge |-> 4],
   baseDelay  |-> [default |-> 4, zero |-> 0, negative |-> -4, good |-> 4, huge |-> 24],
   maxDelay   |-> [default |-> 20, zero |-> 0, negative |-> -4, good |-> 8, huge |-> 40]]

MCFailure == {[type |-> "NetworkError", code |-> "NETWORK"],
              [type |-> "VisionError", code |-> "RATE"],
              [type |-> "AnalysisError", code |-> "ANALYSIS"]}

Same == Permutations({k1, k2})
=============================================================================
