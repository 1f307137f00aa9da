----------------------------- MODULE Configured -----------------------------
(***************************************************************************)
(* A process that loads its configuration, as main does, and builds the    *)
(* extended one, whose retry options its goroutines then share.  The       *)
(* packages are made for this use (layered.go:205-212, 279-286); main      *)
(* calls Load only.                                                        *)
(***************************************************************************)
EXTENDS Settings, Retry

CONSTANTS
  Surroundings,  \* what a process may find: an environment and options given to
                 \* LoadExtended, functions from names to texts, and the entries of
                 \* the configuration file, as <<name, text>>
  Amount         \* Amount[field][text]: the number a retry setting stands for

ASSUME ConfiguredAssumption ==
  /\ \A found \in Surroundings :
       /\ \A name \in DOMAIN found.env : found.env[name] \in TextOf(name)
       /\ \A name \in DOMAIN found.runtime : found.runtime[name] \in TextOf(name)
       /\ \A e \in found.entries : e \in Name \X Text /\ e[2] \in TextOf(e[1])
  /\ \A f \in RetryField : \A text \in Text \ {"empty", "bad"} : Amount[f][text] \in Int

VARIABLES
  env, file, runtime,   \* the sources
  config,               \* what Load returned
  layered               \* what LoadExtended returned, without the retry settings

vars == <<opts, retryVars, env, file, runtime, config, layered>>

NotLoaded == [base |-> "unread"]

\* LoadLayered: runtime options, environment, file, defaults; options that are
\* not given are no source, which makes no difference.
Sources == << runtime, env, file, DefaultSource >>

Init ==
  /\ \E found \in Surroundings :
       env = found.env /\ runtime = found.runtime /\ file \in FileSources(found.entries)
  /\ config = NotLoaded /\ layered = NotLoaded
  /\ opts = [maxRetries |-> 0, base |-> 0, max |-> 0, multiplier |-> 1, jitter |-> FALSE]
  /\ RetryInit

\* config.Load and config.LoadExtended, and the options made of the latter on top
\* of retry.DefaultOptions.
Start ==
  /\ config = NotLoaded
  /\ config' = Load(env)
  /\ layered' = BuildConfig(Sources)
  /\ LET set == RetrySettings(Sources) IN
     opts' = [maxRetries |-> Amount["maxRetries"][set["maxRetries"]],
              base       |-> Amount["baseDelay"][set["baseDelay"]],
              max        |-> Amount["maxDelay"][set["maxDelay"]],
              multiplier |-> 2, jitter |-> TRUE]
  /\ UNCHANGED <<retryVars, env, file, runtime>>

\* A process without a configuration stops.
Running == layered # NotLoaded /\ layered.base # Invalid

Next ==
  \/ Start
  \/ Running /\ RetryNext /\ UNCHANGED <<env, file, runtime, config, layered>>

Spec == Init /\ [][Next]_vars

-----------------------------------------------------------------------------
\* PROPERTIES

\* The two readings agree: an environment that Load takes means the same to the
\* layered configuration when nothing else is said, though one is strict where the
\* other forgives, and they look values up in different ways; what the layered one
\* refuses, for want of a base URL, Load refuses as well, unless an option given at
\* run time hides the URL of the environment; and such an option has its way over
\* every source if it is given under the new name (layered.go:238-243).
LayersAgree ==
  config # NotLoaded =>
    /\ config.base # Invalid /\ DOMAIN file = {} /\ DOMAIN runtime = {} => layered = config
    /\ layered.base = Invalid /\ (\A i \in 1..2 : Names.base[i] \notin DOMAIN runtime) =>
         config.base = Invalid
    /\ layered.base # Invalid =>
         \A f \in Field :
           Names[f][1] \in DOMAIN runtime /\ runtime[Names[f][1]] = "good" => layered[f] = "good"
=============================================================================
