-------------------------- MODULE ConfiguredProofs --------------------------
(***************************************************************************)
(* The two readings of the configuration agree whatever a process finds,   *)
(* and the retry policy holds whatever the options, whatever the           *)
(* operations return, and however many goroutines share the options.       *)
(***************************************************************************)
EXTENDS Configured, TLAPS

Places   == {"new", "check", "call", "wait", "done"}
Outcomes == {"none", "zero", "cancelled", "value", "error"}

Shape ==
  /\ opts \in [maxRetries : Int, base : Int, max : Int, multiplier : {1, 2},
               jitter : BOOLEAN]
  /\ pc \in [Caller -> Places]
  /\ attempt \in [Caller -> Nat]
  /\ delay \in [Caller -> Int]
  /\ calls \in [Caller -> Nat]
  /\ last \in [Caller -> Error \cup {NoError}]
  /\ retried \in [Caller -> SUBSET Error]
  /\ outcome \in [Caller -> Outcomes]
  /\ late \in [Caller -> {0, 1}]

\* How often a caller has called, by where it stands.
Budget(k) ==
  /\ pc[k] = "new" => attempt[k] = 0
  /\ pc[k] \in {"new", "check", "call"} => calls[k] = attempt[k]
  /\ pc[k] = "check" => attempt[k] = 0 \/ attempt[k] <= opts.maxRetries
  /\ pc[k] = "call" => attempt[k] <= opts.maxRetries
  /\ pc[k] = "wait" => calls[k] = attempt[k] + 1 /\ attempt[k] < opts.maxRetries
  /\ pc[k] = "done" => calls[k] = 0 \/ calls[k] <= opts.maxRetries + 1
  /\ calls[k] <= attempt[k] + 1
  /\ attempt[k] > 0 \/ pc[k] = "wait" => delay[k] <= opts.max

\* What it made of its errors.
Reasons(k) ==
  /\ pc[k] = "wait" => last[k] \in Error /\ ShouldRetry(last[k])
  /\ \A err \in retried[k] : ShouldRetry(err)
  /\ outcome[k] = "error" => \/ calls[k] = opts.maxRetries + 1
                             \/ last[k] \in Error /\ ~ShouldRetry(last[k])
  /\ outcome[k] = "zero" => opts.maxRetries < 0
  /\ pc[k] # "done" => outcome[k] = "none"

\* Only the call it was about to make can follow the end of its context.
Lateness(k) == k \notin cancelled \/ pc[k] = "call" => late[k] = 0

\* Nobody begins before there is a configuration.
Before == config = NotLoaded => layered = NotLoaded
Idle   == layered = NotLoaded =>
            \A k \in Caller : pc[k] = "new" /\ calls[k] = 0 /\ retried[k] = {}

IInv == /\ Shape /\ Before /\ Idle
        /\ \A k \in Caller : Budget(k) /\ Reasons(k) /\ Lateness(k)

-----------------------------------------------------------------------------
\* Operators

\* Whatever the factors of the product, a wait is a Duration below the maximum.
LEMMA DelayBounded ==
  ASSUME NEW n \in Nat, NEW o, o.max \in Int, NEW quarters
  PROVE  /\ CalculateDelay(n, o, quarters) \in Int
         /\ CalculateDelay(n, o, quarters) <= o.max
<1> DEFINE exact    == (o.base * o.multiplier ^ n * quarters) \div 4
           duration == IF exact \in -DurationLimit..DurationLimit
                       THEN exact ELSE -DurationLimit - 1
<1>1. DurationLimit \in Int
  BY RetryAssumption DEF RetryAssumption
<1>2. \A x : x \in -DurationLimit..DurationLimit => x \in Int
  BY <1>1
<1>3. duration \in Int
  <2>1. CASE exact \in -DurationLimit..DurationLimit
    <3> HIDE DEF exact
    <3> QED BY <2>1, <1>2
  <2>2. CASE exact \notin -DurationLimit..DurationLimit
    <3> HIDE DEF exact
    <3> QED BY <2>2, <1>1
  <2> QED BY <2>1, <2>2
<1>4. CalculateDelay(n, o, quarters) = IF duration > o.max THEN o.max ELSE duration
  BY DEF CalculateDelay
<1> HIDE DEF duration
<1> QED BY <1>3, <1>4

\* Only errors that may pass are retried, by their code and by what the user is told.
LEMMA RetriesPass ==
  ASSUME NEW err \in Error
  PROVE  ShouldRetry(err) <=> err.code \in {"RATE", "NETWORK"}
<1>1. CASE err.type = "VisionError"
  BY <1>1 DEF ShouldRetry, IsRetryable
<1>2. CASE \E t \in DOMAIN CodeOf : err = [type |-> t, code |-> CodeOf[t]]
  BY <1>2 DEF ShouldRetry, IsRetryable, CodeOf
<1>3. CASE err = [type |-> "foreign", code |-> "none"]
  BY <1>3 DEF ShouldRetry, IsRetryable
<1> QED BY <1>1, <1>2, <1>3 DEF Error

LEMMA PolicyFollows == IInv => RetryPolicy
<1> SUFFICES ASSUME IInv, NEW k \in Caller
             PROVE  /\ calls[k] <= (IF opts.maxRetries < 0 THEN 0 ELSE opts.maxRetries + 1)
                    /\ outcome[k] = "zero" => opts.maxRetries < 0
                    /\ outcome[k] = "error" => calls[k] = opts.maxRetries + 1
                                                 \/ last[k].code \notin {"RATE", "NETWORK"}
                    /\ \A err \in retried[k] : err.code \in {"RATE", "NETWORK"}
                                                 /\ ToldRetryable(err)
                    /\ calls[k] > 1 \/ pc[k] = "wait" => delay[k] <= opts.max
                    /\ late[k] <= 1
  BY DEF RetryPolicy
<1> USE DEF IInv, Shape
<1>1. calls[k] <= (IF opts.maxRetries < 0 THEN 0 ELSE opts.maxRetries + 1)
  BY DEF Budget, Places
<1>2. \A err \in retried[k] : err.code \in {"RATE", "NETWORK"} /\ ToldRetryable(err)
  BY RetriesPass DEF Reasons, ToldRetryable
<1>3. outcome[k] = "error" => calls[k] = opts.maxRetries + 1
                                \/ last[k].code \notin {"RATE", "NETWORK"}
  BY RetriesPass DEF Reasons
<1> QED BY <1>1, <1>2, <1>3 DEF Reasons, Budget

-----------------------------------------------------------------------------
\* Loading

LEMMA LoadedIsSomething == ASSUME NEW e PROVE Load(e) # NotLoaded
<1> DEFINE made == [f \in Field |-> Strict(f, GetFirst(<< e >>, Names[f]))]
<1>1. made # NotLoaded
  <2>1. "timeout" \in Field
    BY DEF Field, Names, RetryField
  <2>2. DOMAIN made = Field /\ DOMAIN NotLoaded = {"base"}
    BY DEF NotLoaded
  <2> HIDE DEF made
  <2> QED BY <2>1, <2>2
<1>2. [base |-> Invalid] # NotLoaded
  BY DEF Invalid, NotLoaded
<1>3. Load(e) = made \/ Load(e) = [base |-> Invalid]
  BY DEF Load
<1> QED BY <1>1, <1>2, <1>3

\* Every text of a source is one the parsers know.
Texts(source) == \A name \in DOMAIN source : source[name] \in TextOf(name)

LEMMA TextsAreText == \A name : TextOf(name) \subseteq Text
BY DEF TextOf

\* Get, with its four sources one after the other.
LEMMA GetOfFour ==
  ASSUME NEW a, NEW b, NEW c, NEW d, NEW name
  PROVE  Get(<< a, b, c, d >>, name) =
           IF name \in DOMAIN a THEN a[name] ELSE IF name \in DOMAIN b THEN b[name]
           ELSE IF name \in DOMAIN c THEN c[name] ELSE IF name \in DOMAIN d THEN d[name]
           ELSE "empty"
<1> DEFINE sources == << a, b, c, d >>
           having == {i \in DOMAIN sources : name \in DOMAIN sources[i]}
           first  == CHOOSE i \in having : \A j \in having : i <= j
<1>1. /\ 1 \in having <=> name \in DOMAIN a
      /\ 2 \in having <=> name \in DOMAIN b
      /\ 3 \in having <=> name \in DOMAIN c
      /\ 4 \in having <=> name \in DOMAIN d
      /\ \A i \in having : i = 1 \/ i = 2 \/ i = 3 \/ i = 4
  OBVIOUS
<1>2. /\ having = {} => Get(sources, name) = "empty"
      /\ having # {} => Get(sources, name) = sources[first][name]
  BY DEF Get
<1>3. /\ sources[1] = a /\ sources[2] = b /\ sources[3] = c /\ sources[4] = d
  OBVIOUS
<1> HIDE DEF having, sources
<1>4. ASSUME NEW i \in having, \A j \in having : i <= j PROVE first = i
  <2>1. \A x, y \in having : x <= y /\ y <= x => x = y
    BY <1>1
  <2> QED BY <1>4, <2>1
<1> HIDE DEF first
<1>5. CASE 1 \in having
  <2>1. first = 1
    BY <1>1, <1>4, <1>5
  <2> QED BY <1>1, <1>2, <1>3, <1>5, <2>1 DEF sources
<1>6. CASE 1 \notin having /\ 2 \in having
  <2>1. first = 2
    BY <1>1, <1>4, <1>6
  <2> QED BY <1>1, <1>2, <1>3, <1>6, <2>1 DEF sources
<1>7. CASE 1 \notin having /\ 2 \notin having /\ 3 \in having
  <2>1. first = 3
    BY <1>1, <1>4, <1>7
  <2> QED BY <1>1, <1>2, <1>3, <1>7, <2>1 DEF sources
<1>8. CASE 1 \notin having /\ 2 \notin having /\ 3 \notin having /\ 4 \in having
  <2>1. first = 4
    BY <1>1, <1>4, <1>8
  <2> QED BY <1>1, <1>2, <1>3, <1>8, <2>1 DEF sources
<1>9. CASE 1 \notin having /\ 2 \notin having /\ 3 \notin having /\ 4 \notin having
  <2>1. having = {}
    BY <1>1, <1>9
  <2> QED BY <1>1, <1>2, <1>9, <2>1 DEF sources
<1> QED BY <1>5, <1>6, <1>7, <1>8, <1>9

LEMMA GetOfOne ==
  ASSUME NEW e, NEW name
  PROVE  Get(<< e >>, name) = IF name \in DOMAIN e THEN e[name] ELSE "empty"
<1> DEFINE having == {i \in DOMAIN << e >> : name \in DOMAIN << e >>[i]}
<1>1. CASE name \in DOMAIN e
  <2>1. having = {1} /\ \A i : i \in having => i = 1
    BY <1>1
  <2>2. (CHOOSE i \in having : \A j \in having : i <= j) = 1
    <3> HIDE DEF having
    <3>1. 1 \in having /\ \A j \in having : 1 <= j
      BY <2>1
    <3> QED BY <2>1, <3>1
  <2>3. Get(<< e >>, name) = << e >>[CHOOSE i \in having : \A j \in having : i <= j][name]
    BY <2>1 DEF Get
  <2> QED BY <1>1, <2>2, <2>3
<1>2. CASE name \notin DOMAIN e
  <2>1. having = {}
    BY <1>2
  <2> QED BY <1>2, <2>1 DEF Get
<1> QED BY <1>1, <1>2

\* GetFirst, for the two lengths the lists of names have.
LEMMA FirstOfOne ==
  ASSUME NEW sources, NEW n
  PROVE  GetFirst(sources, << n >>) = Get(sources, n)
<1> DEFINE set == {i \in DOMAIN << n >> : Get(sources, << n >>[i]) # "empty"}
<1>1. CASE Get(sources, n) = "empty"
  <2>1. set = {}
    BY <1>1
  <2> QED BY <1>1, <2>1 DEF GetFirst
<1>2. CASE Get(sources, n) # "empty"
  <2>1. set = {1} /\ \A i : i \in set => i = 1
    BY <1>2
  <2>2. (CHOOSE i \in set : \A j \in set : i <= j) = 1
    <3> HIDE DEF set
    <3>1. 1 \in set /\ \A j \in set : 1 <= j
      BY <2>1
    <3> QED BY <2>1, <3>1
  <2>3. GetFirst(sources, << n >>)
          = Get(sources, << n >>[CHOOSE i \in set : \A j \in set : i <= j])
    BY <2>1 DEF GetFirst
  <2>4. << n >>[1] = n
    OBVIOUS
  <2> HIDE DEF set
  <2> QED BY <2>2, <2>3, <2>4
<1> QED BY <1>1, <1>2

LEMMA FirstOfTwo ==
  ASSUME NEW sources, NEW n, NEW m
  PROVE  GetFirst(sources, << n, m >>)
           = IF Get(sources, n) # "empty" THEN Get(sources, n) ELSE Get(sources, m)
<1> DEFINE set == {i \in DOMAIN << n, m >> : Get(sources, << n, m >>[i]) # "empty"}
           first == CHOOSE i \in set : \A j \in set : i <= j
<1>1. /\ 1 \in set <=> Get(sources, n) # "empty"
      /\ 2 \in set <=> Get(sources, m) # "empty"
      /\ \A i \in set : i = 1 \/ i = 2
  OBVIOUS
<1>2. /\ set = {} => GetFirst(sources, << n, m >>) = "empty"
      /\ set # {} => GetFirst(sources, << n, m >>) = Get(sources, << n, m >>[first])
  BY DEF GetFirst
<1> HIDE DEF set
<1>3. ASSUME NEW i \in set, \A j \in set : i <= j PROVE first = i
  <2>1. \A x, y \in set : x <= y /\ y <= x => x = y
    BY <1>1
  <2> QED BY <1>3, <2>1
<1> HIDE DEF first
<1>4. CASE 1 \in set
  <2>1. first = 1
    BY <1>1, <1>3, <1>4
  <2> QED BY <1>1, <1>2, <1>4, <2>1
<1>5. CASE 1 \notin set /\ 2 \in set
  <2>1. first = 2
    BY <1>1, <1>3, <1>5
  <2> QED BY <1>1, <1>2, <1>5, <2>1
<1>6. CASE 1 \notin set /\ 2 \notin set
  <2>1. set = {}
    BY <1>1, <1>6
  <2> QED BY <1>1, <1>2, <1>6, <2>1
<1> QED BY <1>4, <1>5, <1>6

LEMMA GetIsText ==
  ASSUME NEW a, NEW b, NEW c, NEW d, Texts(a), Texts(b), Texts(c), Texts(d), NEW name
  PROVE  Get(<< a, b, c, d >>, name) \in TextOf(name) \cup {"empty"}
BY GetOfFour DEF Texts

\* The sources of LoadLayered, once a process has found its surroundings.
Found == Texts(runtime) /\ Texts(env) /\ Texts(file)

LEMMA FileIsFound ==
  ASSUME NEW entries, \A e \in entries : e \in Name \X Text /\ e[2] \in TextOf(e[1]),
         file \in FileSources(entries)
  PROVE  Texts(file)
<1>1. \A name \in DOMAIN file : <<name, file[name]>> \in entries
  BY DEF FileSources
<1>2. \A name \in DOMAIN file : <<name, file[name]>>[2] \in TextOf(<<name, file[name]>>[1])
  BY <1>1
<1> QED BY <1>2 DEF Texts

LEMMA InitFound == Init => Found
BY ConfiguredAssumption, FileIsFound DEF Init, Found, Texts, ConfiguredAssumption

LEMMA DefaultsAreTexts ==
  /\ Texts(DefaultSource)
  /\ \A i \in 1..2 : Names.base[i] \notin DOMAIN DefaultSource
  /\ \A name \in DOMAIN DefaultSource : DefaultSource[name] = "default"
<1>1. \A name \in DOMAIN DefaultSource : DefaultSource[name] = "default"
  BY DEF DefaultSource
<1>2. \A i \in DOMAIN Names.base : Names.base[i] \notin DOMAIN DefaultSource
  BY DEF DefaultSource, Names
<1>3. DOMAIN Names.base = 1..2
  BY DEF Names
<1> QED BY <1>1, <1>2, <1>3 DEF Texts, TextOf, Text

LEMMA AmountsAreInts ==
  ASSUME Found, NEW f \in RetryField
  PROVE  Amount[f][RetrySettings(Sources)[f]] \in Int
<1>1. Get(Sources, Names[f][1]) \in Text
  <2>1. Get(Sources, Names[f][1]) \in TextOf(Names[f][1]) \cup {"empty"}
    BY DefaultsAreTexts, GetIsText DEF Found, Sources
  <2> QED BY <2>1, TextsAreText DEF Text
<1>2. RetrySettings(Sources)[f] \in Text \ {"empty", "bad"}
  BY <1>1 DEF RetrySettings, Text
<1> QED BY <1>2, ConfiguredAssumption DEF ConfiguredAssumption

-----------------------------------------------------------------------------
\* The steps

Inductive == Found /\ IInv

LEMMA InitInductive == Init => Inductive
<1> SUFFICES ASSUME Init PROVE Inductive
  OBVIOUS
<1>1. Shape
  BY DEF Init, RetryInit, Shape, Places, Outcomes
<1> QED BY <1>1, InitFound
        DEF Init, RetryInit, Inductive, IInv, Before, Idle, Budget, Reasons, Lateness, NotLoaded

LEMMA StartInductive == Inductive /\ Start => Inductive'
<1> SUFFICES ASSUME Inductive, Start PROVE Inductive'
  OBVIOUS
<1> USE DEF Inductive, IInv
<1>1. \A f \in RetryField : Amount[f][RetrySettings(Sources)[f]] \in Int
  BY AmountsAreInts
<1>2. Found'
  BY DEF Start, Found, retryVars
<1>3. Shape'
  BY <1>1 DEF Start, retryVars, Shape, RetryField
<1>4. config' # NotLoaded
  BY LoadedIsSomething DEF Start
<1>5. \A k \in Caller : pc[k] = "new" /\ calls[k] = 0 /\ retried[k] = {}
  BY DEF Start, Before, Idle
<1>6. Before' /\ Idle'
  BY <1>4, <1>5 DEF Start, retryVars, Before, Idle
<1>7. ASSUME NEW k \in Caller PROVE Budget(k)' /\ Reasons(k)' /\ Lateness(k)'
  BY <1>5 DEF Start, retryVars, Budget, Reasons, Lateness
<1> QED BY <1>2, <1>3, <1>6, <1>7

\* A step of one caller leaves the others, and what the options bound, alone.
Others(k) == \A l \in Caller \ {k} :
  /\ pc'[l] = pc[l] /\ attempt'[l] = attempt[l] /\ calls'[l] = calls[l]
  /\ delay'[l] = delay[l] /\ last'[l] = last[l] /\ retried'[l] = retried[l]
  /\ outcome'[l] = outcome[l] /\ late'[l] = late[l]
  /\ l \in cancelled' <=> l \in cancelled

Bounds == opts'.maxRetries = opts.maxRetries /\ opts'.max = opts.max

LEMMA OneCaller ==
  ASSUME Inductive, NEW k \in Caller, Shape', Others(k), Bounds,
         Budget(k)', Reasons(k)', Lateness(k)', Running,
         UNCHANGED <<env, file, runtime, config, layered>>
  PROVE  Inductive'
<1>1. Found' /\ Before' /\ Idle'
  BY DEF Inductive, IInv, Found, Before, Idle, Running
<1>2. ASSUME NEW l \in Caller, l # k PROVE Budget(l)' /\ Reasons(l)' /\ Lateness(l)'
  BY <1>2 DEF Others, Bounds, Inductive, IInv, Budget, Reasons, Lateness
<1> QED BY <1>1, <1>2 DEF Inductive, IInv

LEMMA BeginInductive ==
  ASSUME Inductive, Running, NEW k \in Caller, Begin(k),
         UNCHANGED <<env, file, runtime, config, layered>>
  PROVE  Inductive'
<1> USE DEF Inductive, IInv, Shape, Begin
<1>1. Shape' /\ Bounds
  BY DEF Places, Bounds
<1>2. Others(k)
  BY DEF Others
<1>3. Budget(k)' /\ Reasons(k)' /\ Lateness(k)'
  BY <1>1 DEF Bounds, Budget, Reasons, Lateness
<1> QED BY ONLY <1>1, <1>2, <1>3, OneCaller, Inductive, Running, k \in Caller,
               UNCHANGED <<env, file, runtime, config, layered>>

LEMMA CheckInductive ==
  ASSUME Inductive, Running, NEW k \in Caller, Check(k),
         UNCHANGED <<env, file, runtime, config, layered>>
  PROVE  Inductive'
<1> USE DEF Inductive, IInv, Shape, Check, Return
<1>1. Shape' /\ Bounds
  BY DEF Places, Outcomes, Bounds
<1>2. Others(k)
  BY DEF Others
<1>3. Budget(k)'
  BY <1>1 DEF Budget, Places
<1>4. Reasons(k)' /\ Lateness(k)'
  BY <1>1 DEF Budget, Reasons, Lateness, Places
<1> QED BY ONLY <1>1, <1>2, <1>3, <1>4, OneCaller, Inductive, Running, k \in Caller,
               UNCHANGED <<env, file, runtime, config, layered>>

LEMMA SucceedInductive ==
  ASSUME Inductive, Running, NEW k \in Caller, Succeed(k),
         UNCHANGED <<env, file, runtime, config, layered>>
  PROVE  Inductive'
<1> USE DEF Inductive, IInv, Shape, Succeed, Called, Return
<1>1. Shape' /\ Bounds
  BY DEF Places, Outcomes, Bounds, Lateness
<1>2. Others(k)
  BY DEF Others
<1>3. Budget(k)'
  BY <1>1 DEF Budget, Places
<1>4. Reasons(k)' /\ Lateness(k)'
  BY <1>1 DEF Reasons, Lateness, Places
<1> QED BY ONLY <1>1, <1>2, <1>3, <1>4, OneCaller, Inductive, Running, k \in Caller,
               UNCHANGED <<env, file, runtime, config, layered>>

LEMMA FailInductive ==
  ASSUME Inductive, Running, NEW k \in Caller, NEW err \in Failure, Fail(k, err),
         UNCHANGED <<env, file, runtime, config, layered>>
  PROVE  Inductive'
<1> USE DEF Inductive, IInv, Shape, Called
<1>1. err \in Error
  BY RetryAssumption DEF RetryAssumption
<1>2. CASE attempt[k] = opts.maxRetries \/ ~ShouldRetry(err)
  <2>1. Return(k, "error") /\ Called(k) /\ last' = [last EXCEPT ![k] = err] /\ delay' = delay
    BY <1>2 DEF Fail
  <2> USE DEF Return
  <2>2. Shape' /\ Bounds
    BY <1>1, <2>1 DEF Places, Outcomes, Bounds, Lateness
  <2>3. Others(k)
    BY <2>1 DEF Others
  <2>4. Budget(k)'
    BY <2>1, <2>2 DEF Budget, Places
  <2>5. Reasons(k)' /\ Lateness(k)'
    BY <1>1, <1>2, <2>1, <2>2 DEF Reasons, Lateness, Budget, Places
  <2> QED BY ONLY <2>2, <2>3, <2>4, <2>5, OneCaller, Inductive, Running, k \in Caller,
                 UNCHANGED <<env, file, runtime, config, layered>>
<1>3. CASE attempt[k] # opts.maxRetries /\ ShouldRetry(err)
  <2>1. PICK d \in Int : d <= opts.max /\ delay' = [delay EXCEPT ![k] = d]
    BY <1>3, DelayBounded DEF Fail
  <2>2. /\ pc' = [pc EXCEPT ![k] = "wait"] /\ Called(k)
        /\ last' = [last EXCEPT ![k] = err] /\ outcome' = outcome
    BY <1>3 DEF Fail
  <2>3. Shape' /\ Bounds
    BY <1>1, <2>1, <2>2 DEF Places, Bounds, Lateness
  <2>4. Others(k)
    BY <2>1, <2>2 DEF Others
  <2>5. Budget(k)'
    BY <1>3, <2>1, <2>2, <2>3 DEF Budget, Places
  <2>6. Reasons(k)' /\ Lateness(k)'
    BY <1>1, <1>3, <2>2, <2>3 DEF Reasons, Lateness, Places
  <2> QED BY ONLY <2>3, <2>4, <2>5, <2>6, OneCaller, Inductive, Running, k \in Caller,
                 UNCHANGED <<env, file, runtime, config, layered>>
<1> QED BY <1>2, <1>3

LEMMA ElapseInductive ==
  ASSUME Inductive, Running, NEW k \in Caller, Elapse(k),
         UNCHANGED <<env, file, runtime, config, layered>>
  PROVE  Inductive'
<1> USE DEF Inductive, IInv, Shape, Elapse
<1>1. Shape' /\ Bounds
  BY DEF Places, Bounds, Reasons
<1>2. Others(k)
  BY DEF Others
<1>3. Budget(k)'
  BY <1>1 DEF Budget, Places
<1>4. Reasons(k)' /\ Lateness(k)'
  BY <1>1 DEF Reasons, Lateness, Places
<1> QED BY ONLY <1>1, <1>2, <1>3, <1>4, OneCaller, Inductive, Running, k \in Caller,
               UNCHANGED <<env, file, runtime, config, layered>>

LEMMA GiveUpInductive ==
  ASSUME Inductive, Running, NEW k \in Caller, GiveUp(k) \/ Cancel(k),
         UNCHANGED <<env, file, runtime, config, layered>>
  PROVE  Inductive'
<1> USE DEF Inductive, IInv, Shape, GiveUp, Cancel, Return
<1>1. Shape' /\ Bounds
  BY DEF Places, Outcomes, Bounds
<1>2. Others(k)
  BY DEF Others
<1>3. Budget(k)'
  BY <1>1 DEF Budget, Places
<1>4. Reasons(k)' /\ Lateness(k)'
  BY <1>1 DEF Reasons, Lateness, Places
<1> QED BY ONLY <1>1, <1>2, <1>3, <1>4, OneCaller, Inductive, Running, k \in Caller,
               UNCHANGED <<env, file, runtime, config, layered>>

LEMMA StepInductive == Inductive /\ [Next]_vars => Inductive'
<1> SUFFICES ASSUME Inductive, [Next]_vars PROVE Inductive'
  OBVIOUS
<1>1. CASE Start
  BY <1>1, StartInductive
<1>2. CASE Running /\ RetryNext /\ UNCHANGED <<env, file, runtime, config, layered>>
  BY <1>2, BeginInductive, CheckInductive, SucceedInductive, FailInductive, ElapseInductive,
     GiveUpInductive DEF RetryNext
<1>3. CASE UNCHANGED vars
  BY <1>3 DEF vars, retryVars, Inductive, IInv, Found, Shape, Before, Idle, Budget, Reasons,
              Lateness
<1> QED BY <1>1, <1>2, <1>3 DEF Next

\* In every reachable state of every configured process the retry policy holds:
\* the budget of calls, the reasons to call again and to stop, the bound of every
\* wait, and at most one call after the end of the context (retry.go:68-120).
THEOREM PolicyAlways == Spec => []RetryPolicy
<1>1. Inductive => RetryPolicy
  BY PolicyFollows DEF Inductive
<1> QED BY <1>1, InitInductive, StepInductive, PTL DEF Spec

-----------------------------------------------------------------------------
\* The two configurations

BaseNames == {Names.base[i] : i \in 1..2}

\* A field has one name, or two of which the new one has no default.
LEMMA NamesOfField ==
  ASSUME NEW f \in Field
  PROVE  \/ f # "base" /\ \E n : Names[f] = << n >>
         \/ \E n, m : /\ Names[f] = << n, m >> /\ n \notin DOMAIN DefaultSource
                      /\ f = "base" => n \in BaseNames /\ m \in BaseNames
<1>1. f \in {"base", "timeout", "logLevel", "inlineBytes", "overwrite", "workers",
             "requestTimeout", "shutdown", "logFormat"}
  BY DEF Field, Names, RetryField
<1>2. CASE f = "base"
  <2>1. Names[f] = << Names.base[1], Names.base[2] >>
    BY <1>2 DEF Names
  <2>2. Names.base[1] \in BaseNames /\ Names.base[2] \in BaseNames
    BY DEF BaseNames
  <2>3. Names.base[1] \notin DOMAIN DefaultSource
    BY DefaultsAreTexts
  <2> QED BY <2>1, <2>2, <2>3
<1>3. CASE f = "timeout"
  <2>1. Names[f] = << "OPENPIC_TIMEOUT", "VISION_TIMEOUT" >>
    BY <1>3 DEF Names
  <2>2. "OPENPIC_TIMEOUT" \notin DOMAIN DefaultSource
    BY DEF DefaultSource
  <2> QED BY <1>3, <2>1, <2>2
<1>4. CASE f = "logLevel"
  <2>1. Names[f] = << "OPENPIC_LOG_LEVEL", "VISION_LOG_LEVEL" >>
    BY <1>4 DEF Names
  <2>2. "OPENPIC_LOG_LEVEL" \notin DOMAIN DefaultSource
    BY DEF DefaultSource
  <2> QED BY <1>4, <2>1, <2>2
<1>5. CASE f \in {"inlineBytes", "overwrite", "workers", "requestTimeout", "shutdown",
                  "logFormat"}
  <2>1. \E n : Names[f] = << n >>
    BY <1>5 DEF Names
  <2> QED BY <1>5, <2>1
<1> QED BY <1>1, <1>2, <1>3, <1>4, <1>5

\* Without a file and options the sources hold what the environment holds, or a
\* default where it holds nothing.
LEMMA SameText ==
  ASSUME Found, DOMAIN file = {}, DOMAIN runtime = {}, NEW f \in Field
  PROVE  LET alone == GetFirst(<< env >>, Names[f])
             among == GetFirst(Sources, Names[f])
         IN  alone \in Text /\ (among = alone \/ (alone = "empty" /\ among = "default"))
<1> DEFINE Alone(n) == IF n \in DOMAIN env THEN env[n] ELSE "empty"
           Among(n) == IF n \in DOMAIN env THEN env[n]
                       ELSE IF n \in DOMAIN DefaultSource THEN "default" ELSE "empty"
<1>1. \A n : Get(<< env >>, n) = Alone(n) /\ Get(Sources, n) = Among(n)
  BY GetOfOne, GetOfFour, DefaultsAreTexts DEF Sources
<1>2. \A n : Alone(n) \in Text
  BY TextsAreText DEF Found, Texts, Text
<1>3. CASE \E n : Names[f] = << n >>
  <2>1. PICK n : Names[f] = << n >>
    BY <1>3
  <2>2. GetFirst(<< env >>, Names[f]) = Alone(n) /\ GetFirst(Sources, Names[f]) = Among(n)
    BY <1>1, <2>1, FirstOfOne
  <2> QED BY <1>2, <2>2
<1>4. CASE \E n, m : Names[f] = << n, m >> /\ n \notin DOMAIN DefaultSource
  <2>1. PICK n, m : Names[f] = << n, m >> /\ n \notin DOMAIN DefaultSource
    BY <1>4
  <2>2. /\ GetFirst(<< env >>, Names[f]) = IF Alone(n) # "empty" THEN Alone(n) ELSE Alone(m)
        /\ GetFirst(Sources, Names[f]) = IF Among(n) # "empty" THEN Among(n) ELSE Among(m)
    BY <1>1, <2>1, FirstOfTwo
  <2> QED BY <1>2, <2>1, <2>2
<1> QED BY <1>3, <1>4, NamesOfField

\* What Load takes means the same to BuildConfig, which refuses nothing.
LEMMA ForgivingAgrees ==
  ASSUME NEW f \in Field, NEW text \in Text
  PROVE  /\ Strict(f, text) # Invalid => Forgiving(f, text) = Strict(f, text)
         /\ Forgiving(f, text) # Invalid
         /\ f = "base" => (Forgiving(f, text) = "default" <=> text \in {"empty", "default"})
         /\ f = "base" => Strict(f, text) = Forgiving(f, text)
         /\ text = "good" => Forgiving(f, text) = "good"
<1>1. f \in {"base", "timeout", "logLevel", "inlineBytes", "overwrite", "workers",
             "requestTimeout", "shutdown", "logFormat"}
  BY DEF Field, Names, RetryField
<1>2. CASE f \in {"base", "logLevel"}
  BY <1>2 DEF Text, Strict, Forgiving, Invalid
<1>3. CASE f \in {"timeout", "overwrite"}
  BY <1>3 DEF Text, Strict, Forgiving, Invalid
<1>4. CASE f = "workers"
  BY <1>4 DEF Text, Strict, Forgiving, Invalid, ClampPositiveInt
<1>5. CASE f = "inlineBytes"
  BY <1>5 DEF Text, Strict, Forgiving, Invalid
<1>6. CASE f \in {"requestTimeout", "shutdown"}
  BY <1>6 DEF Text, Strict, Forgiving, Invalid
<1>7. CASE f = "logFormat"
  BY <1>7 DEF Text, Strict, Forgiving, Invalid
<1> QED BY <1>1, <1>2, <1>3, <1>4, <1>5, <1>6, <1>7

\* No source hides the base URL of the environment but the options.
LEMMA BaseIsSeen ==
  ASSUME Found, \A i \in 1..2 : Names.base[i] \notin DOMAIN runtime,
         GetFirst(Sources, Names.base) \in {"empty", "default"}
  PROVE  GetFirst(<< env >>, Names.base) = "empty"
<1> DEFINE Seen(n) == IF n \in DOMAIN env THEN env[n]
                      ELSE IF n \in DOMAIN file THEN file[n] ELSE "empty"
<1>1. PICK n, m : Names.base = << n, m >> /\ n \in BaseNames /\ m \in BaseNames
  <2>1. "base" \in Field
    BY DEF Field, Names, RetryField
  <2> QED BY <2>1, NamesOfField
<1>2. ASSUME NEW x \in BaseNames
      PROVE  /\ Get(Sources, x) = Seen(x) /\ Seen(x) # "default"
             /\ Get(<< env >>, x) = IF x \in DOMAIN env THEN env[x] ELSE "empty"
  <2>1. x \notin DOMAIN runtime /\ x \notin DOMAIN DefaultSource
    BY DefaultsAreTexts DEF BaseNames
  <2>2. TextOf(x) = Text \ {"default"}
    <3>1. DOMAIN Names.base = 1..2
      BY DEF Names
    <3> QED BY <3>1 DEF TextOf, BaseNames
  <2>3. (x \in DOMAIN env => env[x] # "default") /\ (x \in DOMAIN file => file[x] # "default")
    BY <2>2 DEF Found, Texts
  <2> QED BY <2>1, <2>3, GetOfFour, GetOfOne DEF Sources
<1>3. /\ GetFirst(Sources, Names.base) = IF Seen(n) # "empty" THEN Seen(n) ELSE Seen(m)
      /\ GetFirst(<< env >>, Names.base)
           = IF Get(<< env >>, n) # "empty" THEN Get(<< env >>, n) ELSE Get(<< env >>, m)
  BY <1>1, <1>2, FirstOfTwo
<1>4. Seen(n) = "empty" /\ Seen(m) = "empty"
  BY <1>1, <1>2, <1>3
<1> QED BY <1>1, <1>2, <1>3, <1>4

\* The two readings are what Start made of the sources, which stay.
Loaded == config # NotLoaded => config = Load(env) /\ layered = BuildConfig(Sources)

LEMMA StepLoaded == Loaded /\ [Next]_vars => Loaded'
<1> SUFFICES ASSUME Loaded, [Next]_vars PROVE Loaded'
  OBVIOUS
<1>1. CASE Start
  BY <1>1 DEF Start, Loaded, Sources
<1>2. CASE UNCHANGED <<env, file, runtime, config, layered>>
  BY <1>2 DEF Loaded, Sources
<1> QED BY <1>1, <1>2 DEF Next, vars

LEMMA LoadedAgrees == Found /\ Loaded => LayersAgree
<1> SUFFICES ASSUME Found, config = Load(env), layered = BuildConfig(Sources)
             PROVE
    /\ config.base # Invalid /\ DOMAIN file = {} /\ DOMAIN runtime = {} => layered = config
    /\ layered.base = Invalid /\ (\A i \in 1..2 : Names.base[i] \notin DOMAIN runtime) =>
         config.base = Invalid
    /\ layered.base # Invalid =>
         \A f \in Field :
           Names[f][1] \in DOMAIN runtime /\ runtime[Names[f][1]] = "good" => layered[f] = "good"
  BY DEF Loaded, LayersAgree
<1> DEFINE Alone(f) == GetFirst(<< env >>, Names[f])
           Among(f) == GetFirst(Sources, Names[f])
           strict   == [f \in Field |-> Strict(f, Alone(f))]
           lenient  == [f \in Field |-> Forgiving(f, Among(f))]
<1>1. /\ config = IF Valid(strict) THEN strict ELSE [base |-> Invalid]
      /\ layered = IF Valid(lenient) THEN lenient ELSE [base |-> Invalid]
  BY DEF Load, BuildConfig
<1>2. "base" \in Field /\ DOMAIN strict = Field /\ DOMAIN lenient = Field
  BY DEF Field, Names, RetryField
<1>3. \A f \in Field : Among(f) \in Text
  <2>1. Texts(DefaultSource)
    BY DefaultsAreTexts
  <2>2. \A n : Get(Sources, n) \in Text
    <3> TAKE n
    <3>1. Get(Sources, n) \in TextOf(n) \cup {"empty"}
      BY <2>1, GetIsText DEF Found, Sources
    <3> QED BY <3>1, TextsAreText DEF Text
  <2> SUFFICES ASSUME NEW f \in Field PROVE Among(f) \in Text
    OBVIOUS
  <2>3. CASE \E n : Names[f] = << n >>
    BY <2>2, <2>3, FirstOfOne
  <2>4. CASE \E n, m : Names[f] = << n, m >>
    BY <2>2, <2>4, FirstOfTwo
  <2> QED BY <2>3, <2>4, NamesOfField
<1>4. ASSUME config.base # Invalid, DOMAIN file = {}, DOMAIN runtime = {}
      PROVE  layered = config
  <2>1. Valid(strict) /\ config = strict
    BY <1>1, <1>4
  <2>2. ASSUME NEW f \in Field PROVE Forgiving(f, Among(f)) = Strict(f, Alone(f))
    <3>1. Strict(f, Alone(f)) # Invalid
      <4>1. strict[f] # Invalid
        BY <1>2, <2>1 DEF Valid
      <4> QED BY <4>1
    <3>2. /\ Alone(f) \in Text
          /\ Among(f) = Alone(f) \/ (Alone(f) = "empty" /\ Among(f) = "default")
      BY <1>4, SameText
    <3>3. Forgiving(f, Alone(f)) = Strict(f, Alone(f))
      BY <3>1, <3>2, ForgivingAgrees
    <3>4. Forgiving(f, "empty") = Forgiving(f, "default")
      BY DEF Forgiving
    <3> QED BY <3>2, <3>3, <3>4
  <2>3. lenient = strict
    BY <2>2
  <2> HIDE DEF lenient, strict
  <2> QED BY <1>1, <2>1, <2>3
<1>5. ASSUME layered.base = Invalid, \A i \in 1..2 : Names.base[i] \notin DOMAIN runtime
      PROVE  config.base = Invalid
  <2>1. \A f \in Field : lenient[f] # Invalid
    BY <1>3, ForgivingAgrees
  <2>2. ~Valid(lenient)
    <3> HIDE DEF lenient
    <3> QED BY <1>1, <1>2, <1>5, <2>1
  <2>3. lenient.base = "default"
    BY <1>2, <2>1, <2>2 DEF Valid
  <2>4. Among("base") \in {"empty", "default"}
    <3>1. Forgiving("base", Among("base")) = "default" /\ Among("base") \in Text
      BY <1>2, <1>3, <2>3
    <3> QED BY <1>2, <3>1, ForgivingAgrees
  <2>5. Alone("base") = "empty"
    BY <1>5, <2>4, BaseIsSeen
  <2>6. strict.base = "default"
    BY <1>2, <2>5 DEF Strict
  <2>7. ~Valid(strict)
    BY <2>6 DEF Valid
  <2> QED BY <1>1, <2>7
<1>6. ASSUME layered.base # Invalid, NEW f \in Field,
             Names[f][1] \in DOMAIN runtime, runtime[Names[f][1]] = "good"
      PROVE  layered[f] = "good"
  <2>1. layered = lenient
    BY <1>1, <1>6
  <2>2. Get(Sources, Names[f][1]) = "good"
    BY <1>6, GetOfFour DEF Sources
  <2>3. Among(f) = "good"
    <3>1. CASE \E n : Names[f] = << n >>
      BY <2>2, <3>1, FirstOfOne
    <3>2. CASE \E n, m : Names[f] = << n, m >>
      BY <2>2, <3>2, FirstOfTwo
    <3> QED BY <3>1, <3>2, NamesOfField
  <2>4. Forgiving(f, "good") = "good"
    BY ForgivingAgrees DEF Text
  <2> QED BY <2>1, <2>3, <2>4
<1> QED BY <1>4, <1>5, <1>6

\* Load and the layered configuration agree on every environment, whatever a
\* process finds: what the one takes the other takes and means the same, and what
\* the layered one refuses for want of a base URL Load refuses as well
\* (config.go:115-274, layered.go:140-243).
THEOREM LayersAlwaysAgree == Spec => []LayersAgree
<1>1. Init => Loaded
  BY DEF Init, Loaded
<1>2. Inductive => Found
  BY DEF Inductive
<1> QED BY <1>1, <1>2, InitInductive, StepInductive, StepLoaded, LoadedAgrees, PTL DEF Spec
=============================================================================
