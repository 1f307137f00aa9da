---------------------------- MODULE ImageProofs ----------------------------
(***************************************************************************)
(* ImageCalls for any calls, arguments, answers of upstream, settings and  *)
(* number of suffixes: the types, what is let through to upstream, what a  *)
(* reply accounts for, and that no file of another call is touched.        *)
(***************************************************************************)
EXTENDS ImageCalls, FiniteSetTheorems, SequenceTheorems, TLAPS

Places  == {"new", "handler", "provider", "wait", "image", "open", "write", "stat", "done"}
Asking  == {"new", "handler", "provider", "wait"}
Imaging == {"image", "open", "write", "stat"}
Saving  == {"open", "write", "stat"}

\* A line of out[c].files.
Entry == [index : Nat, path : Path, format : {"none", "png", "jpeg"}]

Types ==
  /\ setting \in Setting
  /\ pc \in [Call -> Places]
  /\ reply \in [Call -> {NoReply, "rejected", "failed", "ok"}]
  /\ args \in [Call -> Arguments \cup {NoArgs}]
  /\ \A c \in Call : args[c] \in Argument[c] \cup {NoArgs}
  /\ sent = [c \in Call |-> sent[c]]
  /\ answer \in [Call -> Seq(Image)] /\ result \in [Call -> Seq(Image)]
  /\ at \in [Call -> Nat]
  /\ path \in [Call -> Path \cup {NoPath}]
  /\ out \in [Call -> [files : Seq(Entry), warned : SUBSET Nat]]
  /\ DOMAIN file \subseteq Path /\ file \in [DOMAIN file -> File]

\* What a call has, by how far it is.
Where(c) ==
  /\ pc[c] = "new" <=> args[c] = NoArgs
  /\ pc[c] = "done" <=> reply[c] # NoReply
  /\ sent[c] = NoSent <=> pc[c] \in {"new", "handler"} \/ reply[c] = "rejected"
  /\ pc[c] \in Asking => answer[c] = << >> /\ result[c] = << >> /\ at[c] = 0 /\ out[c] = Empty
  /\ pc[c] \in Imaging => args[c].tool \in ImageTool /\ at[c] > 0
  /\ pc[c] \in Saving => /\ path[c] \in Path /\ Payload(Current(c)) = "good"
                         /\ ResponseFormat(args[c]) # "b64_json"
  /\ Len(result[c]) = Len(answer[c]) /\ at[c] <= Len(answer[c])

\* The checks a handler makes before it has a request, and the request.
Ready(a, s) ==
  \/ a.tool = "generate" /\ GenerateTakes(a) /\ HandlerResolves(a, s)
  \/ /\ a.tool = "edit" /\ EditTakes(a) /\ Decodes(a.inputs[1]) /\ HandlerResolves(a, s)
     /\ \A i \in DOMAIN a.mask : Decodes(a.mask[i])
  \/ a.tool = "describe" /\ DescribeTakes(a) /\ Prepare(a.inputs[1]) # "error"
  \/ /\ a.tool = "compare" /\ CompareTakes(a)
     /\ \A i \in DOMAIN a.inputs : ~Void(a.inputs[i]) /\ Prepare(a.inputs[i]) # "error"

Size(a) == IF a.tool \in ImageTool THEN ResolveSize(a) ELSE ""

Parts(a) ==
  IF a.tool = "generate" THEN << >> ELSE IF a.tool = "edit" THEN << "data" >>
  ELSE IF a.tool = "describe" THEN << Prepare(a.inputs[1]) >>
  ELSE [i \in DOMAIN a.inputs |-> Prepare(a.inputs[i])]

\* Why a call was rejected, or what it made of its arguments.
Asked(c) ==
  /\ pc[c] = "handler" => Admits(args[c])
  /\ sent[c] # NoSent => /\ Admits(args[c]) /\ Ready(args[c], setting)
                         /\ sent[c] = [size |-> Size(args[c]), parts |-> Parts(args[c])]
  /\ reply[c] = "rejected" => ~Admits(args[c]) \/ ~Ready(args[c], setting)

\* What became of the images a call is done with; the others are as they came.
Past(c, i)     == i < at[c] \/ reply[c] = "ok"
ToSave(c, i)   == ResponseFormat(args[c]) # "b64_json" /\ Payload(answer[c][i]) # "none"
Lines(c, i)    == {k \in DOMAIN out[c].files : out[c].files[k].index = i}
Accounted(c, i) ==
  /\ IF ToSave(c, i) THEN \E k \in Lines(c, i) : Lines(c, i) = {k} ELSE Lines(c, i) = {}
  /\ ToSave(c, i) => Payload(result[c][i]) = "none" /\ result[c][i].url # "good"
  /\ ~ToSave(c, i) => result[c][i] = answer[c][i] /\ ~Exceeds(answer[c][i])
  /\ i \notin out[c].warned /\ args[c].outputFormat # "absent"
        /\ Payload(answer[c][i]) = "good" /\ answer[c][i].magic # "none" =>
       answer[c][i].magic = args[c].outputFormat
Accounts(c) ==
  pc[c] \in Imaging \/ (reply[c] = "ok" /\ args[c].tool \in ImageTool) =>
    \A i \in DOMAIN answer[c] :
      IF Past(c, i) THEN Accounted(c, i)
      ELSE result[c][i] = answer[c][i] /\ Lines(c, i) = {}

\* Files.  Of two who opened a file one overwrites, for only the first had no need to.
Overwriter(d) == d # Outsider /\ Overwrites(d)

Kept(c, i) == [state |-> "whole", by |-> c, image |-> i, opened |-> {<<c, i>>}]

\* A call that opened a file lists it, or is at it, or has failed.
Opener(p, d) ==
  /\ pc[d] # "new"
  /\ \/ reply[d] = "failed"
     \/ \E k \in DOMAIN out[d].files : out[d].files[k].path = p
     \/ pc[d] \in {"write", "stat"} /\ path[d] = p

FileHistory(p) ==
  /\ \A o \in file[p].opened : o[1] # Outsider => Opener(p, o[1])
  /\ \A o, q \in file[p].opened : o = q \/ Overwriter(o[1]) \/ Overwriter(q[1])
  /\ p.n > 1 /\ p \notin Taken => [p EXCEPT !.n = @ - 1] \in DOMAIN file
  /\ p \in Taken => /\ <<Outsider, 0>> \in file[p].opened
                    /\ file[p].by = Outsider \/ \E o \in file[p].opened : Overwriter(o[1])

\* A file of c's image i holds it, unless another image was put there.
Holds(c, i, p) ==
  /\ p \in DOMAIN file /\ <<c, i>> \in file[p].opened
  /\ file[p].opened = {<<c, i>>} => file[p] = Kept(c, i)

Saves(c) ==
  /\ pc[c] = "open" /\ path[c].n > 1 => [path[c] EXCEPT !.n = @ - 1] \in DOMAIN file
  /\ pc[c] = "write" => /\ path[c] \in DOMAIN file /\ Me(c) \in file[path[c]].opened
                        /\ file[path[c]].opened = {Me(c)} => file[path[c]].state = "empty"
  /\ pc[c] = "stat" => Holds(c, at[c], path[c])
  /\ \A k \in DOMAIN out[c].files :
       /\ out[c].files[k].index < at[c] \/ pc[c] = "done"
       /\ Holds(c, out[c].files[k].index, out[c].files[k].path)

Files == Taken \subseteq DOMAIN file /\ \A p \in DOMAIN file : FileHistory(p)

IInv == Types /\ Files /\ \A c \in Call : Where(c) /\ Asked(c) /\ Accounts(c) /\ Saves(c)

-----------------------------------------------------------------------------
\* Arguments

LEMMA ArgumentFields ==
  ASSUME NEW a \in Arguments
  PROVE  /\ a.tool \in {"generate", "edit", "describe", "compare"}
         /\ a.route \in {"sync", "task"} /\ a.extra \in BOOLEAN
         /\ a.prompt \in {"absent", "empty", "text"}
         /\ a.inputs \in Seq(Input) /\ a.mask \in Seq(Input)
         /\ a.size \in {"absent", "notString", "other", "1024x1024", "2048x2048"}
         /\ a.aspect \in {"absent", "other", "1:1", "16:9", "auto"}
         /\ a.outputFormat \in {"absent", "other", "png", "jpeg"}
         /\ a.responseFormat \in {"absent", "empty", "other", "file_path", "url", "b64_json"}
         /\ a.n \in {"absent", "fraction", "null", "1", "2"}
         /\ a.overwrite \in {"absent", "null", "other", "true", "false"}
         /\ a.dir \in {"absent", "relative", "given"}
         /\ a.prefix \in {"absent", "dotted", "given"}
BY DEF Arguments, ImageTool, VisionTool

LEMMA ArgumentShape ==
  ASSUME NEW a \in Arguments
  PROVE  /\ a.tool = "generate" => a.inputs = << >>
         /\ a.tool \in {"edit", "describe"} => Len(a.inputs) <= 1
         /\ a.tool # "edit" => a.mask = << >>
         /\ a.tool \in VisionTool =>
              /\ a.route = "sync" /\ a.size = "absent" /\ a.aspect = "absent"
              /\ a.outputFormat = "absent" /\ a.responseFormat = "absent" /\ a.n = "absent"
              /\ a.overwrite = "absent" /\ a.dir = "absent" /\ a.prefix = "absent"
<1>1. /\ a.tool = "generate" => a.inputs = << >>
      /\ a.tool \in {"edit", "describe"} => Len(a.inputs) <= 1
      /\ a.tool # "edit" => a.mask = << >>
  BY DEF Arguments
<1>2. a.tool \in VisionTool =>
        /\ a.route = "sync"
        /\ {a.size, a.aspect, a.outputFormat, a.responseFormat, a.n, a.overwrite, a.dir,
            a.prefix} = {"absent"}
  BY DEF Arguments
<1>3. \A p, q, r, u, v, w, x, y : {p, q, r, u, v, w, x, y} = {"absent"} =>
        /\ p = "absent" /\ q = "absent" /\ r = "absent" /\ u = "absent"
        /\ v = "absent" /\ w = "absent" /\ x = "absent" /\ y = "absent"
  OBVIOUS
<1> QED BY <1>1, <1>2, <1>3

LEMMA SettingFields ==
  ASSUME NEW s \in Settings
  PROVE  /\ s.dir \in {"", "site", "relative"} /\ s.prefix \in {"", "site"}
         /\ s.overwrite \in BOOLEAN
BY DEF Settings

\* How many inputs are given.
GivenOf(a) == Cardinality({i \in DOMAIN a.inputs : ~Void(a.inputs[i])})

LEMMA GivenCount ==
  ASSUME NEW a \in Arguments
  PROVE  /\ GivenOf(a) = Len(a.inputs) <=> \A i \in DOMAIN a.inputs : ~Void(a.inputs[i])
         /\ GivenOf(a) \in Nat /\ GivenOf(a) <= Len(a.inputs)
<1> DEFINE all   == 1..Len(a.inputs)
           given == {i \in DOMAIN a.inputs : ~Void(a.inputs[i])}
<1>1. a.inputs \in Seq(Input) /\ Len(a.inputs) \in Nat /\ DOMAIN a.inputs = all
  BY ArgumentFields
<1>2. IsFiniteSet(all) /\ Cardinality(all) = Len(a.inputs)
  <2>1. ASSUME NEW n \in Nat
        PROVE  IsFiniteSet(1..n) /\ Cardinality(1..n) = n
    BY FS_Interval
  <2>2. QED BY <1>1, <2>1 DEF all
<1>3. given \subseteq all
  BY <1>1
<1>4. /\ IsFiniteSet(given) /\ Cardinality(given) <= Len(a.inputs)
      /\ Cardinality(given) = Len(a.inputs) => given = all
  BY <1>2, <1>3, FS_Subset
<1>5. Cardinality(given) \in Nat
  BY <1>4, FS_CardinalityType
<1>6. given = all => Cardinality(given) = Len(a.inputs)
  BY <1>2
<1>7. given = all <=> \A i \in DOMAIN a.inputs : ~Void(a.inputs[i])
  BY <1>1
<1> QED BY <1>4, <1>5, <1>6, <1>7 DEF GivenOf

\* Broken, rule by rule.
PolicyBroken(a, s) ==
  a.prefix = "dotted" \/ (RelativeDir(a, s) /\ a.responseFormat # "b64_json")

\* The one thing that is refused though no rule is broken.
UnusedDir(a, s) == RelativeDir(a, s) /\ a.responseFormat = "b64_json"

ImagesBroken(a) ==
  \/ GivenOf(a) # Len(a.inputs)
  \/ a.tool \in {"edit", "describe"} /\ GivenOf(a) = 0
  \/ a.tool = "compare" /\ GivenOf(a) \notin 2..4

InputBroken(a) ==
  (\E i \in DOMAIN a.inputs : ~a.inputs[i].good) \/ (\E i \in DOMAIN a.mask : ~a.mask[i].good)

SizeBroken(a) ==
  a.size = "other" \/ (a.size \in {"absent", "notString"} /\ a.aspect = "other")

SchemaBroken(a) ==
  a.extra \/ a.size = "notString" \/ a.n = "fraction" \/ a.aspect = "other"
    \/ a.responseFormat = "empty"

LEMMA InputsOrMask ==
  ASSUME NEW a \in Arguments
  PROVE  (\E i \in DOMAIN (a.inputs \o a.mask) : ~(a.inputs \o a.mask)[i].good) <=> InputBroken(a)
<1> DEFINE m == Len(a.inputs)
           n == Len(a.mask)
           both == a.inputs \o a.mask
<1>1. /\ m \in Nat /\ n \in Nat /\ DOMAIN a.inputs = 1..m /\ DOMAIN a.mask = 1..n
      /\ both \in Seq(Input) /\ Len(both) = m + n
      /\ \A i \in 1..m + n : both[i] = IF i <= m THEN a.inputs[i] ELSE a.mask[i - m]
  <2>1. a.inputs \in Seq(Input) /\ a.mask \in Seq(Input)
    BY ArgumentFields
  <2>2. /\ both \in Seq(Input) /\ Len(both) = m + n
        /\ \A i \in 1..m + n : both[i] = IF i <= m THEN a.inputs[i] ELSE a.mask[i - m]
    BY <2>1, ConcatProperties
  <2>3. m \in Nat /\ n \in Nat /\ DOMAIN a.inputs = 1..m /\ DOMAIN a.mask = 1..n
    BY <2>1
  <2> HIDE DEF both, m, n
  <2> QED BY <2>2, <2>3
<1>2. DOMAIN both = 1..m + n
  BY <1>1
<1> HIDE DEF both, m, n
<1>3. ASSUME NEW i \in 1..m + n, ~both[i].good PROVE InputBroken(a)
  <2>1. CASE i <= m
    BY <1>1, <1>3, <2>1 DEF InputBroken
  <2>2. CASE ~(i <= m)
    <3>1. i - m \in 1..n /\ both[i] = a.mask[i - m]
      BY <1>1, <2>2
    <3> QED BY <1>1, <1>3, <3>1 DEF InputBroken
  <2> QED BY <2>1, <2>2
<1>4. ASSUME NEW i \in 1..m, ~a.inputs[i].good PROVE \E j \in 1..m + n : ~both[j].good
  BY <1>1, <1>4
<1>5. ASSUME NEW i \in 1..n, ~a.mask[i].good PROVE \E j \in 1..m + n : ~both[j].good
  <2>1. i + m \in 1..m + n /\ both[i + m] = a.mask[i]
    <3>1. i + m \in 1..m + n /\ ~(i + m <= m) /\ (i + m) - m = i
      BY <1>1
    <3> QED BY <1>1, <3>1
  <2> QED BY <1>5, <2>1
<1> QED BY <1>1, <1>2, <1>3, <1>4, <1>5 DEF InputBroken, both

LEMMA BrokenRules ==
  ASSUME NEW a \in Arguments, NEW s
  PROVE  /\ "prompt" \in Broken(a, s) <=> a.tool \in ImageTool /\ a.prompt # "text"
         /\ "images" \in Broken(a, s) <=> ImagesBroken(a)
         /\ "input" \in Broken(a, s) <=> InputBroken(a)
         /\ "size" \in Broken(a, s) <=> SizeBroken(a)
         /\ "format" \in Broken(a, s) <=> "other" \in {a.outputFormat, a.responseFormat}
         /\ "n" \in Broken(a, s) <=> a.n \in {"2", "null"}
         /\ "overwrite" \in Broken(a, s) <=> a.overwrite = "other"
         /\ "policy" \in Broken(a, s) <=> PolicyBroken(a, s)
         /\ "schema" \in Broken(a, s) <=> SchemaBroken(a)
         /\ Broken(a, s) \subseteq {"prompt", "images", "input", "size", "format", "n",
                                    "overwrite", "policy", "schema"}
BY InputsOrMask DEF Broken, ImagesBroken, SizeBroken, PolicyBroken, SchemaBroken, GivenOf

\* Whatever rejects a call, a rule was broken, or a directory refused that has no use.
LEMMA RejectedIsBroken ==
  ASSUME NEW a \in Arguments, NEW s \in Settings, ~Admits(a) \/ ~Ready(a, s)
  PROVE  Broken(a, s) # {} \/ UnusedDir(a, s)
<1> USE ArgumentFields, ArgumentShape, BrokenRules DEF ImageTool, VisionTool
<1>1. CASE a.inputs = << >> /\ a.tool # "generate"
  <2>1. GivenOf(a) = 0
    BY <1>1, GivenCount
  <2>2. ImagesBroken(a)
    BY <1>1, <2>1 DEF ImagesBroken
  <2> QED BY <2>2
<1>2. CASE \E i \in DOMAIN a.inputs : Void(a.inputs[i])
  BY <1>2, GivenCount DEF ImagesBroken
<1>3. CASE InputBroken(a)
  BY <1>3
<1>4. CASE a.tool = "compare" /\ ~CompareTakes(a)
  <2>1. GivenOf(a) = Len(a.inputs) => ImagesBroken(a)
    BY <1>4 DEF CompareTakes, ImagesBroken
  <2> QED BY <2>1 DEF ImagesBroken
<1>5. CASE /\ a.inputs = << >> <=> a.tool = "generate"
           /\ \A i \in DOMAIN a.inputs : ~Void(a.inputs[i])
           /\ ~InputBroken(a) /\ (a.tool = "compare" => CompareTakes(a))
  <2>1. /\ \A i \in DOMAIN a.inputs : Prepare(a.inputs[i]) # "error" /\ Decodes(a.inputs[i])
        /\ \A i \in DOMAIN a.mask : Decodes(a.mask[i])
    BY <1>5 DEF InputBroken, Prepare, Decodes
  <2>2. a.tool # "generate" => 1 \in DOMAIN a.inputs
    BY <1>5
  <2>3. CASE ~Admits(a)
    BY <1>5, <2>2, <2>3 DEF Admits, SubmitAccepts, SchemaAccepts, SizeBroken, SchemaBroken
  <2>4. CASE a.tool \in VisionTool /\ ~Ready(a, s)
    BY <1>5, <2>1, <2>2, <2>4 DEF Ready, DescribeTakes
  <2>5. CASE a.tool \in ImageTool /\ ~Ready(a, s)
    <3>1. a.prompt = "text" => ~HandlerResolves(a, s)
      BY <1>5, <2>1, <2>2, <2>5 DEF Ready, GenerateTakes, EditTakes
    <3>2. ResolveSize(a) = Unsupported => SizeBroken(a)
      BY DEF ResolveSize, Unsupported, SizeBroken
    <3>3. IntArg(a) # 1 => a.n \in {"2", "null"}
      BY DEF IntArg
    <3>4. OutputDir(a, s) = "relative" \/ OutputPrefix(a, s) = "dotted" =>
            PolicyBroken(a, s) \/ UnusedDir(a, s)
      <4>1. OutputDir(a, s) = "relative" => PolicyBroken(a, s) \/ UnusedDir(a, s)
        BY <2>5, SettingFields DEF OutputDir, RelativeDir, PolicyBroken, UnusedDir
      <4>2. OutputPrefix(a, s) = "dotted" => PolicyBroken(a, s)
        BY <2>5, SettingFields DEF OutputPrefix, PolicyBroken
      <4> QED BY <4>1, <4>2
    <3> QED BY <2>5, <3>1, <3>2, <3>3, <3>4 DEF HandlerResolves
  <2> QED BY <2>3, <2>4, <2>5
<1> QED BY <1>1, <1>2, <1>3, <1>4, <1>5

\* What every check let through breaks no rule but those nobody looks at.
LEMMA LetThrough ==
  ASSUME NEW a \in Arguments, NEW s \in Settings, Admits(a), Ready(a, s)
  PROVE  Broken(a, s) \subseteq Forgiven(a)
<1> USE ArgumentFields, ArgumentShape, BrokenRules DEF ImageTool, VisionTool
<1>1. a.route = "task" \/ ~SchemaBroken(a)
  BY DEF Admits, SchemaAccepts, SchemaBroken
<1>2. ~ImagesBroken(a)
  <2>1. \A i \in DOMAIN a.inputs : ~Void(a.inputs[i])
    BY DEF Ready, EditTakes, DescribeTakes
  <2>2. GivenOf(a) = Len(a.inputs)
    BY <2>1, GivenCount
  <2>3. a.tool \in {"edit", "describe"} => Len(a.inputs) # 0
    BY DEF Ready, EditTakes, DescribeTakes
  <2> QED BY <2>2, <2>3 DEF ImagesBroken, Ready, CompareTakes
<1>3. a.tool \in ImageTool => ~InputBroken(a)
  BY DEF Ready, InputBroken, Decodes, EditTakes
<1>4. a.tool \in ImageTool => a.prompt = "text" /\ HandlerResolves(a, s)
  BY DEF Ready, GenerateTakes, EditTakes
<1>5. a.tool \in ImageTool => ~SizeBroken(a) /\ ~PolicyBroken(a, s) /\ a.n \notin {"2", "null"}
  <2>1. ResolveSize(a) # Unsupported => ~SizeBroken(a)
    BY DEF ResolveSize, Unsupported, SizeBroken
  <2>2. IntArg(a) = 1 => a.n \notin {"2", "null"}
    BY DEF IntArg
  <2>3. OutputDir(a, s) # "relative" /\ OutputPrefix(a, s) # "dotted" => ~PolicyBroken(a, s)
    BY SettingFields DEF OutputDir, OutputPrefix, RelativeDir, PolicyBroken
  <2> QED BY <1>4, <2>1, <2>2, <2>3 DEF HandlerResolves
<1>6. CASE a.tool \in ImageTool
  BY <1>1, <1>2, <1>3, <1>4, <1>5, <1>6 DEF HandlerResolves, Forgiven
<1>7. CASE a.tool \in VisionTool
  BY <1>1, <1>2, <1>7 DEF Forgiven, SizeBroken, RelativeDir, PolicyBroken
<1> QED BY <1>6, <1>7

\* The request carries the promised size, and a part for every input.
LEMMA RequestMade ==
  ASSUME NEW a \in Arguments, NEW s \in Settings, Ready(a, s)
  PROVE  /\ Size(a) = PromisedSize(a)
         /\ Len(Parts(a)) = Len(a.inputs)
         /\ \A i \in DOMAIN a.inputs : PartOf(Parts(a)[i], a.inputs[i])
<1> USE ArgumentFields, ArgumentShape DEF ImageTool, VisionTool
<1>1. Size(a) = PromisedSize(a)
  <2>1. a.tool \in ImageTool => HandlerResolves(a, s)
    BY DEF Ready
  <2>2. a.tool \in ImageTool => ResolveSize(a) # Unsupported
    BY <2>1 DEF HandlerResolves
  <2>3. ResolveSize(a) # Unsupported /\ a.tool \in ImageTool => ResolveSize(a) = PromisedSize(a)
    BY DEF ResolveSize, PromisedSize, Unsupported
  <2> QED BY <2>2, <2>3 DEF Size, PromisedSize
<1>2. \A in \in Input : /\ Prepare(in) # "error" => PartOf(Prepare(in), in)
                        /\ Decodes(in) => PartOf("data", in)
  BY DEF Prepare, Decodes, PartOf, Input
<1>3. a.tool \in {"edit", "describe"} => Len(a.inputs) = 1 /\ a.inputs[1] \in Input
  <2>1. a.inputs \in Seq(Input)
    OBVIOUS
  <2>2. a.tool \in {"edit", "describe"} => a.inputs # << >> /\ Len(a.inputs) <= 1
    BY DEF Ready, EditTakes, DescribeTakes
  <2>3. a.inputs # << >> => Len(a.inputs) \in Nat \ {0}
    BY <2>1
  <2>4. Len(a.inputs) = 1 => a.inputs[1] \in Input
    BY <2>1
  <2>5. \A k \in Nat \ {0} : k <= 1 => k = 1
    OBVIOUS
  <2> QED BY ONLY <2>2, <2>3, <2>4, <2>5
<1>4. CASE a.tool = "generate"
  BY <1>1, <1>4 DEF Parts
<1>5. CASE a.tool \in {"edit", "describe"}
  <2>1. PartOf(Parts(a)[1], a.inputs[1]) /\ Len(Parts(a)) = 1
    BY <1>2, <1>3, <1>5 DEF Parts, Ready
  <2>2. DOMAIN a.inputs = {1}
    BY <1>3, <1>5
  <2> QED BY <1>1, <1>3, <1>5, <2>1, <2>2
<1>6. CASE a.tool = "compare"
  <2>1. Parts(a) = [i \in 1..Len(a.inputs) |-> Prepare(a.inputs[i])]
    BY <1>6 DEF Parts
  <2>2. \A i \in 1..Len(a.inputs) : a.inputs[i] \in Input /\ Prepare(a.inputs[i]) # "error"
    BY <1>6 DEF Ready
  <2>3. DOMAIN a.inputs = 1..Len(a.inputs) /\ Len(Parts(a)) = Len(a.inputs)
    BY <2>1
  <2> QED BY <1>1, <1>2, <2>1, <2>2, <2>3
<1> QED BY <1>4, <1>5, <1>6

-----------------------------------------------------------------------------
\* Steps of one call

\* The others are left alone.
Others(c) ==
  /\ setting' = setting
  /\ \A d \in Call \ {c} :
       /\ pc'[d] = pc[d] /\ args'[d] = args[d] /\ sent'[d] = sent[d] /\ answer'[d] = answer[d]
       /\ result'[d] = result[d] /\ at'[d] = at[d] /\ path'[d] = path[d] /\ out'[d] = out[d]
       /\ reply'[d] = reply[d]

LEMMA OthersKeep ==
  ASSUME IInv, NEW c \in Call, Others(c), NEW d \in Call \ {c}
  PROVE  Where(d)' /\ Asked(d)' /\ Accounts(d)'
<1> USE DEF Others
<1>1. Where(d)'
  BY DEF IInv, Where, Current
<1>2. Asked(d)'
  <2>1. /\ pc'[d] = pc[d] /\ args'[d] = args[d] /\ sent'[d] = sent[d] /\ reply'[d] = reply[d]
        /\ setting' = setting
    OBVIOUS
  <2>2. Asked(d)
    BY DEF IInv
  <2> QED BY ONLY <2>1, <2>2 DEF Asked
<1>3. Accounts(d)'
  <2>1. \A i : Lines(d, i)' = Lines(d, i) /\ ToSave(d, i)' = ToSave(d, i)
    BY DEF Lines, ToSave
  <2>2. \A i : (Past(d, i)' <=> Past(d, i)) /\ (Accounted(d, i) => Accounted(d, i)')
    BY <2>1 DEF Past, Accounted
  <2>3. Accounts(d)
    BY DEF IInv
  <2> QED BY <2>1, <2>2, <2>3 DEF Accounts
<1> QED BY <1>1, <1>2, <1>3

LEMMA OpenedBy ==
  ASSUME IInv, NEW p \in DOMAIN file
  PROVE  /\ file[p] \in File /\ p \in Path
         /\ \A o \in file[p].opened : /\ o = <<o[1], o[2]>> /\ o[2] \in Nat
                                      /\ o[1] = Outsider \/ o[1] \in Call
<1>1. file[p] \in File /\ p \in Path
  BY DEF IInv, Types
<1>2. file[p].opened \subseteq (Call \cup {Outsider}) \X Nat
  BY <1>1 DEF File
<1> QED BY <1>1, <1>2

\* Files that are left alone keep their history, if the call that moves still
\* accounts for those it opened.
LEMMA FilesKeep ==
  ASSUME IInv, NEW c \in Call, Others(c), UNCHANGED file, args'[c] = args[c] \/ pc[c] = "new",
         \A p : Opener(p, c) => Opener(p, c)'
  PROVE  Files' /\ \A d \in Call \ {c} : Saves(d)'
<1>1. c # Outsider
  BY ImageCallsAssumption DEF ImageCallsAssumption
<1>2. ASSUME NEW p \in DOMAIN file PROVE FileHistory(p)'
  <2>1. FileHistory(p)
    BY DEF IInv, Files
  <2>2. \A o \in file[p].opened : o[1] = Outsider \/ o[1] \in Call
    BY OpenedBy
  <2>3. ASSUME NEW o \in file[p].opened, o[1] # Outsider PROVE Opener(p, o[1])'
    <3>1. Opener(p, o[1]) /\ o[1] \in Call
      BY <2>1, <2>2, <2>3 DEF FileHistory
    <3>2. CASE o[1] = c
      BY <3>1, <3>2
    <3>3. CASE o[1] # c
      BY <3>1, <3>3 DEF Opener, Others
    <3> QED BY <3>2, <3>3
  <2>4. ASSUME NEW o \in file[p].opened PROVE Overwriter(o[1]) => Overwriter(o[1])'
    <3>1. CASE o[1] = Outsider
      BY <3>1 DEF Overwriter
    <3>2. CASE o[1] = c /\ pc[c] = "new"
      BY <1>1, <2>1, <3>2 DEF FileHistory, Opener
    <3>3. CASE o[1] # Outsider /\ args'[o[1]] = args[o[1]]
      BY <3>3 DEF Overwriter, Overwrites, Others
    <3> QED BY <2>2, <3>1, <3>2, <3>3 DEF Others
  <2>5. DOMAIN file' = DOMAIN file /\ file'[p] = file[p] /\ Taken' = Taken
    BY DEF Taken
  <2> QED BY <2>1, <2>3, <2>4, <2>5 DEF FileHistory
<1>3. Files'
  BY <1>2 DEF IInv, Files, Taken
<1>4. ASSUME NEW d \in Call \ {c} PROVE Saves(d)'
  <2>1. Saves(d)
    BY DEF IInv
  <2>2. /\ pc'[d] = pc[d] /\ path'[d] = path[d] /\ out'[d] = out[d] /\ at'[d] = at[d]
        /\ Me(d)' = Me(d) /\ file' = file
    BY DEF Others, Me
  <2>3. \A i, p : Holds(d, i, p) => Holds(d, i, p)'
    BY DEF Holds, Kept
  <2> QED BY <2>1, <2>2, <2>3 DEF Saves
<1> QED BY <1>3, <1>4

LEMMA OneCall ==
  ASSUME IInv, NEW c \in Call, Others(c), UNCHANGED file, args'[c] = args[c] \/ pc[c] = "new",
         \A p : Opener(p, c) => Opener(p, c)',
         Types', Where(c)', Asked(c)', Accounts(c)', Saves(c)'
  PROVE  IInv'
<1>1. Files' /\ \A d \in Call \ {c} : Saves(d)'
  BY FilesKeep
<1>2. \A d \in Call \ {c} : Where(d)' /\ Asked(d)' /\ Accounts(d)'
  BY OthersKeep
<1> QED BY <1>1, <1>2 DEF IInv

LEMMA ArgumentKnown ==
  ASSUME IInv, NEW c \in Call, pc[c] # "new"
  PROVE  args[c] \in Argument[c] /\ args[c] \in Arguments
<1>1. args[c] \in Argument[c]
  BY DEF IInv, Types, Where
<1> QED BY <1>1, ImageCallsAssumption DEF ImageCallsAssumption

LEMMA ExecuteKeeps ==
  ASSUME IInv, NEW c \in Call, Execute(c)
  PROVE  IInv'
<1>1. PICK a \in Argument[c] :
        /\ args' = [args EXCEPT ![c] = a]
        /\ IF Admits(a) THEN Goto(c, "handler") ELSE End(c, "rejected")
  BY DEF Execute
<1>2. /\ pc[c] = "new" /\ reply[c] = NoReply /\ sent[c] = NoSent
      /\ UNCHANGED <<setting, sent, answer, result, at, path, out, file>>
  BY DEF Execute, IInv, Where
<1>3. a \in Arguments /\ a # NoArgs
  <2>1. a \in Arguments
    BY ImageCallsAssumption DEF ImageCallsAssumption
  <2>2. a.tool # NoArgs.tool
    BY <2>1, ArgumentFields DEF NoArgs
  <2> QED BY <2>1, <2>2
<1>4. pc'[c] \in {"handler", "done"} /\ pc' = [pc EXCEPT ![c] = pc'[c]]
      /\ reply' = [reply EXCEPT ![c] = reply'[c]]
      /\ IF Admits(a) THEN pc'[c] = "handler" /\ reply'[c] = NoReply
                      ELSE pc'[c] = "done" /\ reply'[c] = "rejected"
  BY <1>1, <1>2 DEF Goto, End, IInv, Types, NoReply
<1>5. Types'
  <2>1. pc' \in [Call -> Places]
    BY <1>4 DEF IInv, Types, Places
  <2>2. reply'[c] \in {NoReply, "rejected"}
    BY <1>4
  <2>3. reply' \in [Call -> {NoReply, "rejected", "failed", "ok"}]
    BY <1>4, <2>2 DEF IInv, Types
  <2>4. /\ args' \in [Call -> Arguments \cup {NoArgs}]
        /\ \A d \in Call : args'[d] \in Argument[d] \cup {NoArgs}
    BY <1>1, <1>3 DEF IInv, Types
  <2> QED BY <1>2, <2>1, <2>3, <2>4 DEF IInv, Types
<1>6. Others(c)
  BY <1>1, <1>2, <1>4 DEF Others, IInv, Types
<1>7. args'[c] = a
  BY <1>1 DEF IInv, Types
<1>8. Where(c)'
  BY <1>2, <1>3, <1>4, <1>7 DEF IInv, Where, Imaging, Saving, Asking, NoReply
<1>9. Asked(c)' /\ Accounts(c)'
  BY <1>2, <1>4, <1>7 DEF IInv, Where, Asked, Accounts, Asking, Imaging, NoReply
<1>10. Saves(c)'
  BY <1>2, <1>4 DEF IInv, Where, Saves, Asking, Empty
<1>11. \A p : Opener(p, c) => Opener(p, c)'
  BY <1>2 DEF Opener
<1> QED BY <1>2, <1>5, <1>6, <1>8, <1>9, <1>10, <1>11, OneCall

\* A handler and its request.
LEMMA RequestKeeps ==
  ASSUME IInv, NEW c \in Call, pc[c] = "handler", NEW ready \in BOOLEAN, NEW size, NEW parts,
         Request(c, ready, size, parts), ready <=> Ready(args[c], setting),
         ready => size = Size(args[c]) /\ parts = Parts(args[c])
  PROVE  IInv'
<1>1. /\ UNCHANGED <<setting, args, answer, result, at, path, out, file>>
      /\ reply[c] = NoReply /\ sent[c] = NoSent
  BY DEF Request, IInv, Where
<1>2. pc' = [pc EXCEPT ![c] = pc'[c]] /\ reply' = [reply EXCEPT ![c] = reply'[c]]
      /\ sent' = [sent EXCEPT ![c] = sent'[c]]
      /\ IF ready THEN /\ pc'[c] = "provider" /\ reply'[c] = NoReply
                       /\ sent'[c] = [size |-> size, parts |-> parts]
                  ELSE pc'[c] = "done" /\ reply'[c] = "rejected" /\ sent'[c] = NoSent
  BY <1>1 DEF Request, Goto, End, IInv, Types
<1>3. [size |-> size, parts |-> parts] # NoSent
  <2>1. DOMAIN [size |-> size, parts |-> parts] = {"size", "parts"} /\ DOMAIN NoSent = {"size"}
    BY DEF NoSent
  <2> QED BY <2>1
<1>4. Types'
  <2>1. /\ pc' \in [Call -> Places] /\ reply' \in [Call -> {NoReply, "rejected", "failed", "ok"}]
        /\ sent' = [d \in Call |-> sent'[d]]
    <3>1. pc \in [Call -> Places] /\ pc'[c] \in Places
      BY <1>2 DEF IInv, Types, Places
    <3>2. /\ reply \in [Call -> {NoReply, "rejected", "failed", "ok"}]
          /\ reply'[c] \in {NoReply, "rejected", "failed", "ok"}
      BY <1>2 DEF IInv, Types
    <3>3. sent = [d \in Call |-> sent[d]]
      BY DEF IInv, Types
    <3> QED BY <1>2, <3>1, <3>2, <3>3
  <2> QED BY <1>1, <2>1 DEF IInv, Types
<1>5. Others(c)
  BY <1>1, <1>2 DEF Others, IInv, Types
<1>6. Where(c)'
  BY <1>1, <1>2, <1>3 DEF IInv, Where, Imaging, Saving, Asking, NoReply
<1>7. Asked(c)' /\ Accounts(c)'
  BY <1>1, <1>2 DEF IInv, Asked, Accounts, Imaging, NoReply
<1>8. Saves(c)'
  <2>1. out'[c].files = << >>
    BY <1>1 DEF IInv, Where, Asking, Empty
  <2>2. pc'[c] \notin {"open", "write", "stat"}
    BY <1>2
  <2> QED BY <2>1, <2>2 DEF Saves
<1>9. \A p : Opener(p, c) => Opener(p, c)'
  BY <1>1, <1>2 DEF Opener, NoReply
<1> QED BY <1>1, <1>4, <1>5, <1>6, <1>7, <1>8, <1>9, OneCall

LEMMA HandlerKeeps ==
  ASSUME IInv, NEW c \in Call, Generate(c) \/ Edit(c) \/ Describe(c) \/ Compare(c)
  PROVE  IInv'
<1>1. pc[c] = "handler"
  BY DEF Generate, Edit, Describe, Compare
<1>2. CASE Generate(c)
  BY <1>1, <1>2, RequestKeeps DEF Generate, Ready, Size, Parts, ImageTool
<1>3. CASE Edit(c)
  BY <1>1, <1>3, RequestKeeps DEF Edit, Ready, Size, Parts, ImageTool
<1>4. CASE Describe(c)
  BY <1>1, <1>4, RequestKeeps DEF Describe, Ready, Size, Parts, ImageTool
<1>5. CASE Compare(c)
  BY <1>1, <1>5, RequestKeeps DEF Compare, Ready, Size, Parts, ImageTool
<1> QED BY <1>2, <1>3, <1>4, <1>5

LEMMA PostKeeps ==
  ASSUME IInv, NEW c \in Call, Post(c)
  PROVE  IInv'
<1>1. /\ UNCHANGED <<setting, args, sent, answer, result, at, path, out, file, reply>>
      /\ pc[c] = "provider" /\ pc' = [pc EXCEPT ![c] = "wait"]
  BY DEF Post, Goto
<1>2. Types' /\ Others(c)
  BY <1>1 DEF IInv, Types, Places, Others
<1>3. Where(c)'
  BY <1>1 DEF IInv, Types, Where, Imaging, Saving, Asking
<1>4. Asked(c)' /\ Accounts(c)'
  BY <1>1 DEF IInv, Types, Asked, Accounts, Where, Imaging, NoReply
<1>5. Saves(c)'
  <2>1. out[c].files = << >>
    BY <1>1 DEF IInv, Where, Asking, Empty
  <2>2. pc'[c] = "wait" /\ out'[c].files = << >>
    BY <1>1, <2>1 DEF IInv, Types
  <2> QED BY <2>2 DEF Saves
<1>6. \A p : Opener(p, c) => Opener(p, c)'
  BY <1>1 DEF IInv, Types, Opener
<1> QED BY <1>1, <1>2, <1>3, <1>4, <1>5, <1>6, OneCall

\* The call ends without a file or an image more.
LEMMA EndKeeps ==
  ASSUME IInv, NEW c \in Call, pc[c] \notin {"new", "handler", "done"},
         NEW how \in {"failed", "ok"}, End(c, how),
         how = "ok" => args[c].tool \in VisionTool /\ pc[c] = "wait",
         UNCHANGED <<setting, args, sent, answer, result, at, path, out, file>>
  PROVE  IInv'
<1>1. /\ pc' = [pc EXCEPT ![c] = "done"] /\ reply' = [reply EXCEPT ![c] = how]
      /\ reply[c] = NoReply
  BY DEF End, IInv, Types, Where, Places
<1>2. Types' /\ Others(c)
  BY <1>1 DEF IInv, Types, Places, Others
<1>3. Where(c)'
  BY <1>1 DEF IInv, Types, Where, Imaging, Saving, Asking, NoReply
<1>4. Asked(c)' /\ Accounts(c)'
  BY <1>1 DEF IInv, Types, Asked, Accounts, Imaging, ImageTool, VisionTool
<1>5. Saves(c)'
  BY <1>1 DEF IInv, Types, Saves, Holds
<1>6. how = "failed" \/ \A p : ~Opener(p, c)
  <2>1. how = "ok" => pc[c] = "wait" /\ out[c].files = << >> /\ reply[c] # "failed"
    BY <1>1 DEF IInv, Where, Asking, Empty, NoReply
  <2>2. DOMAIN << >> = {}
    OBVIOUS
  <2> QED BY <2>1, <2>2 DEF Opener
<1>7. \A p : Opener(p, c) => Opener(p, c)'
  BY <1>1, <1>6 DEF IInv, Types, Opener
<1> QED BY <1>2, <1>3, <1>4, <1>5, <1>7, OneCall

LEMMA DrawsKeeps ==
  ASSUME IInv, NEW c \in Call, NEW images \in Response[c], images # << >>, pc[c] = "wait",
         args[c].tool \in ImageTool,
         Goto(c, "image"), answer' = [answer EXCEPT ![c] = images],
         result' = [result EXCEPT ![c] = images], at' = [at EXCEPT ![c] = 1],
         UNCHANGED <<setting, args, sent, path, out, file>>
  PROVE  IInv'
<1>1. images \in Seq(Image) /\ Len(images) \in Nat /\ Len(images) >= 1
  <2>1. images \in Seq(Image)
    BY ImageCallsAssumption DEF ImageCallsAssumption
  <2> QED BY <2>1
<1>2. pc' = [pc EXCEPT ![c] = "image"] /\ reply' = reply
  BY DEF Goto
<1>3. Types' /\ Others(c)
  BY <1>1, <1>2 DEF IInv, Types, Places, Others
<1>4. Where(c)'
  BY <1>1, <1>2 DEF IInv, Types, Where, Imaging, Saving, Asking, NoReply
<1>5. Asked(c)'
  BY <1>2 DEF IInv, Types, Asked
<1>6. reply[c] = NoReply /\ out[c].files = << >>
  BY DEF IInv, Where, Asking, Empty
<1>7. Accounts(c)' /\ Saves(c)'
  BY <1>1, <1>2, <1>6 DEF IInv, Types, Accounts, Past, Lines, NoReply, Saves
<1>8. \A p : Opener(p, c) => Opener(p, c)'
  BY <1>2, <1>6 DEF IInv, Types, Opener
<1> QED BY <1>3, <1>4, <1>5, <1>7, <1>8, OneCall

\* The image a call is at is as it came.
LEMMA CurrentAsItCame ==
  ASSUME IInv, NEW c \in Call, pc[c] \in Imaging
  PROVE  /\ at[c] \in 1..Len(answer[c]) /\ at[c] \in DOMAIN result[c] /\ Current(c) \in Image
         /\ Current(c) = answer[c][at[c]] /\ Lines(c, at[c]) = {}
         /\ reply[c] = NoReply /\ args[c].tool \in ImageTool
         /\ sent[c] # NoSent /\ pc[c] # "new"
<1>1. /\ at[c] \in Nat /\ at[c] > 0 /\ at[c] <= Len(answer[c]) /\ Len(result[c]) = Len(answer[c])
      /\ answer[c] \in Seq(Image) /\ result[c] \in Seq(Image)
      /\ reply[c] = NoReply /\ args[c].tool \in ImageTool
      /\ sent[c] # NoSent /\ pc[c] # "new"
  BY DEF IInv, Types, Where, Imaging, NoReply
<1>2. at[c] \in 1..Len(answer[c]) /\ at[c] \in DOMAIN answer[c] /\ at[c] \in DOMAIN result[c]
  BY <1>1
<1>3. ~Past(c, at[c])
  BY <1>1 DEF Past, NoReply
<1> QED BY <1>1, <1>2, <1>3 DEF IInv, Accounts, Current

LEMMA ChosenName ==
  ASSUME IInv, NEW c \in Call, pc[c] \in Imaging, NEW tag \in Tag, NEW format
  PROVE  LET dir == OutputDir(args[c], setting)
         IN  [dir    |-> IF dir = "" THEN "temp" ELSE dir,
              prefix |-> OutputPrefix(args[c], setting), tag |-> tag,
              ext    |-> Extension(format), n |-> 1] \in Path
<1>1. /\ Ready(args[c], setting) /\ args[c] \in Arguments /\ args[c].tool \in ImageTool
      /\ setting \in Settings
  BY CurrentAsItCame, ArgumentKnown, ImageCallsAssumption
     DEF ImageCallsAssumption, IInv, Types, Asked
<1>2. OutputDir(args[c], setting) # "relative" /\ OutputPrefix(args[c], setting) # "dotted"
  BY <1>1 DEF Ready, HandlerResolves, ImageTool
<1>3. OutputDir(args[c], setting) \in {"", "site", "given"}
  BY <1>1, <1>2, ArgumentFields, SettingFields DEF OutputDir
<1>4. OutputPrefix(args[c], setting) \in {"site", "given"} \cup ImageTool
  BY <1>1, <1>2, ArgumentFields, SettingFields DEF OutputPrefix
<1>5. Extension(format) \in {"png", "jpg"} /\ 1 \in 1..(MaxRetries + 1)
  BY ImageCallsAssumption DEF ImageCallsAssumption, Extension
<1> QED BY <1>3, <1>4, <1>5 DEF Path

\* The call chooses a name, or the next one, and opens nothing yet.
LEMMA NameKeeps ==
  ASSUME IInv, NEW c \in Call, pc[c] \in {"image", "open"}, NEW p \in Path,
         path' = [path EXCEPT ![c] = p], pc' = [pc EXCEPT ![c] = "open"],
         Payload(Current(c)) = "good", ResponseFormat(args[c]) # "b64_json",
         p.n > 1 => [p EXCEPT !.n = @ - 1] \in DOMAIN file,
         UNCHANGED <<reply, setting, args, sent, answer, result, at, out, file>>
  PROVE  IInv'
<1>1. pc[c] \in Imaging
  BY DEF Imaging
<1>2. Types' /\ Others(c)
  BY DEF IInv, Types, Places, Others
<1>3. path'[c] = p /\ pc'[c] = "open"
  BY DEF IInv, Types
<1>4. Where(c)'
  BY <1>1, <1>3 DEF IInv, Where, Imaging, Saving, Asking, Current
<1>5. Asked(c)' /\ Accounts(c)'
  BY <1>1, <1>3 DEF IInv, Asked, Accounts, Past, Accounted, ToSave, Lines, Imaging
<1>6. Saves(c)'
  BY <1>3 DEF IInv, Saves, Holds
<1>7. \A q : Opener(q, c) => Opener(q, c)'
  BY <1>3 DEF Opener
<1> QED BY <1>2, <1>4, <1>5, <1>6, <1>7, OneCall

LEMMA ChooseKeeps ==
  ASSUME IInv, NEW c \in Call, ChooseName(c)
  PROVE  IInv'
<1>1. PICK tag \in Tag :
        path' = [path EXCEPT ![c] =
          [dir    |-> IF OutputDir(args[c], setting) = "" THEN "temp"
                      ELSE OutputDir(args[c], setting),
           prefix |-> OutputPrefix(args[c], setting), tag |-> tag,
           ext    |-> Extension(CanonicalFormat(Current(c))), n |-> 1]]
  BY DEF ChooseName
<1> DEFINE name ==
      [dir    |-> IF OutputDir(args[c], setting) = "" THEN "temp"
                  ELSE OutputDir(args[c], setting),
       prefix |-> OutputPrefix(args[c], setting), tag |-> tag,
       ext    |-> Extension(CanonicalFormat(Current(c))), n |-> 1]
<1>2. /\ pc[c] = "image" /\ pc' = [pc EXCEPT ![c] = "open"]
      /\ ResponseFormat(args[c]) # "b64_json" /\ Payload(Current(c)) = "good"
      /\ UNCHANGED <<reply, setting, args, sent, answer, result, at, out, file>>
  BY DEF ChooseName, Goto
<1>3. name \in Path
  BY <1>2, ChosenName DEF Imaging
<1>4. path' = [path EXCEPT ![c] = name]
  BY <1>1
<1>7. name.n = 1 /\ ~(1 > 1)
  OBVIOUS
<1> HIDE DEF name
<1>5. PICK p : p = name
  OBVIOUS
<1>6. p \in Path /\ path' = [path EXCEPT ![c] = p] /\ ~(p.n > 1)
  BY <1>3, <1>4, <1>5, <1>7
<1> QED BY <1>2, <1>6, NameKeeps

LEMMA NameTakenKeeps ==
  ASSUME IInv, NEW c \in Call, NameTaken(c)
  PROVE  IInv'
<1>1. pc[c] = "open" /\ path[c] \in DOMAIN file /\ file' = file
  BY DEF NameTaken, Exists
<1>2. CASE path[c].n > MaxRetries
  BY <1>1, <1>2, EndKeeps DEF NameTaken, FailImage
<1>3. CASE ~(path[c].n > MaxRetries)
  <2>1. /\ path[c] \in Path /\ Payload(Current(c)) = "good"
        /\ ResponseFormat(args[c]) # "b64_json"
    BY <1>1 DEF IInv, Where, Saving
  <2>2. /\ path' = [path EXCEPT ![c] = [path[c] EXCEPT !.n = path[c].n + 1]]
        /\ UNCHANGED <<pc, reply, setting, args, sent, answer, result, at, out>>
    BY <1>3 DEF NameTaken
  <2>3. path[c].n \in 1..(MaxRetries + 1) /\ MaxRetries \in Nat
    BY <2>1, ImageCallsAssumption DEF ImageCallsAssumption, Path
  <2>4. PICK p : p = [path[c] EXCEPT !.n = path[c].n + 1]
    OBVIOUS
  <2>5. p \in Path /\ p.n = path[c].n + 1
    BY <1>3, <2>1, <2>3, <2>4 DEF Path
  <2>6. [p EXCEPT !.n = p.n - 1] = path[c]
    <3>1. p = [dir |-> path[c].dir, prefix |-> path[c].prefix, tag |-> path[c].tag,
               ext |-> path[c].ext, n |-> path[c].n + 1]
      BY <2>1, <2>4 DEF Path
    <3>2. path[c] = [dir |-> path[c].dir, prefix |-> path[c].prefix, tag |-> path[c].tag,
                     ext |-> path[c].ext, n |-> path[c].n]
      BY <2>1 DEF Path
    <3>3. (path[c].n + 1) - 1 = path[c].n
      BY <2>3
    <3> QED BY <3>1, <3>2, <3>3
  <2>7. pc' = [pc EXCEPT ![c] = "open"]
    BY <1>1, <2>2 DEF IInv, Types
  <2> QED BY <1>1, <2>1, <2>2, <2>4, <2>5, <2>6, <2>7, NameKeeps
<1> QED BY <1>2, <1>3

\* An image is done with: its lines, and what its reply will say.
LEMMA ConcatOne ==
  ASSUME NEW S, NEW seq \in Seq(S), NEW elt \in S
  PROVE  /\ seq \o << elt >> \in Seq(S) /\ Len(seq \o << elt >>) = Len(seq) + 1
         /\ \A i \in 1..Len(seq) : (seq \o << elt >>)[i] = seq[i]
         /\ (seq \o << elt >>)[Len(seq) + 1] = elt
<1>1. seq \o << elt >> = Append(seq, elt)
  BY AppendIsConcat
<1> QED BY <1>1, AppendProperties

LEMMA DoneWith ==
  ASSUME IInv, NEW c \in Call, pc[c] \in Imaging, NEW image \in Image, NEW format, NEW files,
         NextImage(c, image, format, files)
  PROVE  /\ result' = [result EXCEPT ![c] = [result[c] EXCEPT ![at[c]] = image]]
         /\ out' = [out EXCEPT ![c] = out'[c]]
         /\ out'[c].files = out[c].files \o files
         /\ out'[c].warned \in SUBSET Nat
         /\ \A i : i # at[c] => (i \in out'[c].warned <=> i \in out[c].warned)
         /\ at[c] \notin out'[c].warned => ~Mismatch(args[c].outputFormat, format)
         /\ out'[c] = [files |-> out'[c].files, warned |-> out'[c].warned]
         /\ path' = [path EXCEPT ![c] = NoPath]
         /\ UNCHANGED <<setting, args, sent, answer, file>>
         /\ IF at[c] = Len(answer[c])
              THEN /\ pc' = [pc EXCEPT ![c] = "done"] /\ reply' = [reply EXCEPT ![c] = "ok"]
                   /\ at' = at
              ELSE /\ pc' = [pc EXCEPT ![c] = "image"] /\ reply' = reply
                   /\ at' = [at EXCEPT ![c] = at[c] + 1]
<1> DEFINE noted == \/ Mismatch(args[c].outputFormat, format)
                    \/ ResponseFormat(args[c]) # "b64_json" /\ Exceeds(Current(c))
           W     == IF noted THEN out[c].warned \cup {at[c]} ELSE out[c].warned
<1>1. out[c] \in [files : Seq(Entry), warned : SUBSET Nat] /\ at[c] \in Nat
  BY DEF IInv, Types
<1>2. PICK w : w = W
  OBVIOUS
<1>3. out' = [out EXCEPT ![c] = [files |-> out[c].files \o files, warned |-> w]]
  BY <1>2 DEF NextImage
<1>4. out'[c] = [files |-> out[c].files \o files, warned |-> w]
  BY <1>3 DEF IInv, Types
<1>5. /\ w \in SUBSET Nat
      /\ \A i : i # at[c] => (i \in w <=> i \in out[c].warned)
      /\ at[c] \notin w => ~Mismatch(args[c].outputFormat, format)
  BY <1>1, <1>2
<1> HIDE DEF noted, W
<1>6. /\ result' = [result EXCEPT ![c] = [result[c] EXCEPT ![at[c]] = image]]
      /\ path' = [path EXCEPT ![c] = NoPath]
      /\ UNCHANGED <<setting, args, sent, answer, file>>
      /\ IF at[c] = Len(answer[c])
           THEN /\ pc' = [pc EXCEPT ![c] = "done"] /\ reply' = [reply EXCEPT ![c] = "ok"]
                /\ at' = at
           ELSE /\ pc' = [pc EXCEPT ![c] = "image"] /\ reply' = reply
                /\ at' = [at EXCEPT ![c] = at[c] + 1]
  BY DEF NextImage, End, Goto
<1>7. out' = [out EXCEPT ![c] = out'[c]]
  BY <1>3, <1>4
<1>8. out'[c].files = out[c].files \o files /\ out'[c].warned = w
      /\ out'[c] = [files |-> out'[c].files, warned |-> out'[c].warned]
  BY <1>4
<1>9. out'[c].warned \in SUBSET Nat
  BY <1>5, <1>8
<1>10. \A i : i # at[c] => (i \in out'[c].warned <=> i \in out[c].warned)
  BY <1>5, <1>8
<1>11. at[c] \notin out'[c].warned => ~Mismatch(args[c].outputFormat, format)
  BY <1>5, <1>8
<1> QED BY <1>6, <1>7, <1>8, <1>9, <1>10, <1>11

\* The lines of the images before and after stay, the image has the line it is given.
LEMMA LinesAfter ==
  ASSUME NEW S, NEW old \in Seq([index : Nat, path : S, format : {"none", "png", "jpeg"}]),
         NEW n \in Nat, NEW elt \in [index : Nat, path : S, format : {"none", "png", "jpeg"}],
         elt.index = n, \A k \in DOMAIN old : old[k].index # n
  PROVE  LET all == old \o << elt >> IN
         /\ DOMAIN all = 1..(Len(old) + 1) /\ DOMAIN old = 1..Len(old)
         /\ all[Len(old) + 1] = elt /\ (\A k \in DOMAIN old : all[k] = old[k])
         /\ \A i : i # n => {k \in DOMAIN all : all[k].index = i}
                              = {k \in DOMAIN old : old[k].index = i}
         /\ {k \in DOMAIN all : all[k].index = n} = {Len(old) + 1}
<1> DEFINE E   == [index : Nat, path : S, format : {"none", "png", "jpeg"}]
           all == old \o << elt >>
           m   == Len(old)
<1>1. /\ all \in Seq(E) /\ Len(all) = m + 1 /\ all[m + 1] = elt
      /\ \A i \in 1..m : all[i] = old[i]
  BY ConcatOne
<1>2. m \in Nat /\ DOMAIN old = 1..m /\ DOMAIN all = 1..(m + 1)
  BY <1>1
<1> HIDE DEF all, m, E
<1>3. 1..(m + 1) = (1..m) \cup {m + 1} /\ m + 1 \notin 1..m
  BY <1>2
<1>4. \A i : i # n => {k \in DOMAIN all : all[k].index = i} = {k \in DOMAIN old : old[k].index = i}
  BY <1>1, <1>2, <1>3
<1>5. {k \in DOMAIN all : all[k].index = n} = {m + 1}
  BY <1>1, <1>2, <1>3
<1> QED BY <1>1, <1>2, <1>4, <1>5 DEF all, m

LEMMA NextKeeps ==
  ASSUME IInv, NEW c \in Call, pc[c] \in {"image", "stat"}, NEW image \in Image,
         NEW format \in {"none", "png", "jpeg"}, NEW files, NextImage(c, image, format, files),
         Payload(Current(c)) = "good" /\ Current(c).magic # "none" => format = Current(c).magic,
         IF ToSave(c, at[c])
           THEN /\ pc[c] = "stat" /\ Payload(image) = "none" /\ image.url # "good"
                /\ files = << [index |-> at[c], path |-> path[c], format |-> format] >>
           ELSE files = << >> /\ image = Current(c) /\ ~Exceeds(Current(c))
  PROVE  IInv'
<1>1. /\ at[c] \in 1..Len(answer[c]) /\ at[c] \in DOMAIN result[c] /\ Current(c) \in Image
      /\ Current(c) = answer[c][at[c]] /\ Lines(c, at[c]) = {}
      /\ reply[c] = NoReply /\ args[c].tool \in ImageTool
      /\ sent[c] # NoSent /\ pc[c] # "new" /\ pc[c] \in Imaging
  BY CurrentAsItCame DEF Imaging
<1>2. /\ answer[c] \in Seq(Image) /\ result[c] \in Seq(Image) /\ at[c] \in Nat
      /\ out[c].files \in Seq(Entry) /\ Len(answer[c]) \in Nat /\ Len(result[c]) = Len(answer[c])
      /\ DOMAIN answer[c] = 1..Len(answer[c]) /\ DOMAIN result[c] = 1..Len(answer[c])
  <2>1. answer[c] \in Seq(Image) /\ result[c] \in Seq(Image) /\ at[c] \in Nat
        /\ out[c].files \in Seq(Entry) /\ Len(result[c]) = Len(answer[c])
    BY DEF IInv, Types, Where
  <2> QED BY <2>1
<1>3. /\ result' = [result EXCEPT ![c] = [result[c] EXCEPT ![at[c]] = image]]
      /\ out' = [out EXCEPT ![c] = out'[c]]
      /\ out'[c].files = out[c].files \o files
      /\ out'[c].warned \in SUBSET Nat
      /\ \A i : i # at[c] => (i \in out'[c].warned <=> i \in out[c].warned)
      /\ at[c] \notin out'[c].warned => ~Mismatch(args[c].outputFormat, format)
      /\ out'[c] = [files |-> out'[c].files, warned |-> out'[c].warned]
      /\ path' = [path EXCEPT ![c] = NoPath]
      /\ UNCHANGED <<setting, args, sent, answer, file>>
      /\ IF at[c] = Len(answer[c])
           THEN /\ pc' = [pc EXCEPT ![c] = "done"] /\ reply' = [reply EXCEPT ![c] = "ok"]
                /\ at' = at
           ELSE /\ pc' = [pc EXCEPT ![c] = "image"] /\ reply' = reply
                /\ at' = [at EXCEPT ![c] = at[c] + 1]
  BY <1>1, DoneWith
<1>4. /\ IF at[c] = Len(answer[c])
           THEN pc'[c] = "done" /\ reply'[c] = "ok" /\ at'[c] = at[c]
           ELSE pc'[c] = "image" /\ reply'[c] = NoReply /\ at'[c] = at[c] + 1
      /\ path'[c] = NoPath /\ result'[c] = [result[c] EXCEPT ![at[c]] = image]
  BY <1>1, <1>3 DEF IInv, Types
<1>5. /\ result'[c] \in Seq(Image) /\ Len(result'[c]) = Len(answer[c])
      /\ result'[c][at[c]] = image
      /\ \A i \in DOMAIN answer[c] : i # at[c] => result'[c][i] = result[c][i]
  <2>1. PICK r : r = [result[c] EXCEPT ![at[c]] = image]
    OBVIOUS
  <2>2. r \in Seq(Image) /\ Len(r) = Len(result[c])
    BY <1>1, <1>2, <2>1
  <2>3. r[at[c]] = image /\ \A i \in DOMAIN answer[c] : i # at[c] => r[i] = result[c][i]
    BY <1>1, <1>2, <2>1
  <2> QED BY <1>2, <1>4, <2>1, <2>2, <2>3
<1>0. PICK n : n = at[c] /\ n \in 1..Len(answer[c]) /\ n \in Nat
  BY <1>1, <1>2
<1>6. /\ out'[c].files \in Seq(Entry)
      /\ DOMAIN out[c].files \subseteq DOMAIN out'[c].files
      /\ \A k \in DOMAIN out[c].files : out'[c].files[k] = out[c].files[k]
      /\ \A k \in DOMAIN out'[c].files :
           \/ k \in DOMAIN out[c].files
           \/ /\ pc[c] = "stat" /\ out'[c].files[k].index = at[c]
              /\ out'[c].files[k].path = path[c]
      /\ pc[c] = "stat" => \E k \in DOMAIN out'[c].files : out'[c].files[k].path = path[c]
      /\ \A i : i # n => Lines(c, i)' = Lines(c, i)
      /\ IF ToSave(c, n) THEN \E k \in Lines(c, n)' : Lines(c, n)' = {k}
                         ELSE Lines(c, n)' = {}
  <2>1. CASE ~ToSave(c, at[c])
    <3>1. out[c].files \o << >> = out[c].files
      BY <1>2, EmptySeq, ConcatEmptySeq
    <3>2. out'[c].files = out[c].files
      BY <1>3, <2>1, <3>1
    <3>3. pc[c] # "stat"
      BY <1>1, <2>1 DEF IInv, Where, Saving, ToSave
    <3>4. \A i : Lines(c, i)' = Lines(c, i)
      BY <3>2 DEF Lines
    <3> QED BY <1>0, <1>1, <1>2, <2>1, <3>2, <3>3, <3>4
  <2>2. CASE ToSave(c, at[c])
    <3>1. PICK elt : elt = [index |-> at[c], path |-> path[c], format |-> format]
      OBVIOUS
    <3>2. path[c] \in Path /\ pc[c] = "stat"
      BY <2>2 DEF IInv, Where, Saving
    <3>3. elt \in Entry /\ elt.index = at[c] /\ elt.path = path[c]
      BY <1>2, <3>1, <3>2 DEF Entry
    <3>4. out'[c].files = out[c].files \o << elt >>
      BY <1>3, <2>2, <3>1
    <3>5. \A k \in DOMAIN out[c].files : out[c].files[k].index # at[c]
      BY <1>1 DEF Lines
    <3>6. PICK old : old = out[c].files
      OBVIOUS
    <3>7. PICK all : all = old \o << elt >>
      OBVIOUS
    <3>9. /\ DOMAIN all = 1..(Len(old) + 1) /\ DOMAIN old = 1..Len(old)
          /\ all[Len(old) + 1] = elt /\ (\A k \in DOMAIN old : all[k] = old[k])
          /\ \A i : i # n => {k \in DOMAIN all : all[k].index = i}
                               = {k \in DOMAIN old : old[k].index = i}
          /\ {k \in DOMAIN all : all[k].index = n} = {Len(old) + 1}
      <4>1. old \in Seq([index : Nat, path : Path, format : {"none", "png", "jpeg"}])
        BY <1>2, <3>6 DEF Entry
      <4>2. elt \in [index : Nat, path : Path, format : {"none", "png", "jpeg"}]
        BY <3>3 DEF Entry
      <4>3. n \in Nat /\ elt.index = n /\ \A k \in DOMAIN old : old[k].index # n
        BY <1>2, <3>3, <3>5, <3>6, <1>0
      <4> QED BY <3>7, <4>1, <4>2, <4>3, LinesAfter
    <3>10. all \in Seq(Entry) /\ Len(old) \in Nat
      <4>1. old \in Seq(Entry)
        BY <1>2, <3>6
      <4> QED BY <3>3, <3>7, <4>1, ConcatOne
    <3>11. out'[c].files = all
      BY <3>4, <3>6, <3>7
    <3>12. /\ DOMAIN old \subseteq DOMAIN all
           /\ \A k \in DOMAIN all : k \in DOMAIN old \/ all[k] = elt
           /\ Len(old) + 1 \in DOMAIN all
      BY <3>9, <3>10
    <3>13. /\ \A i : i # n => Lines(c, i)' = Lines(c, i)
           /\ Lines(c, n)' = {Len(old) + 1}
      <4>1. Lines(c, n)' = {k \in DOMAIN all : all[k].index = n}
        BY <3>11 DEF Lines
      <4> QED BY <3>6, <1>0, <3>9, <3>11, <4>1 DEF Lines
    <3> QED BY <1>0, <2>2, <3>2, <3>3, <3>6, <3>9, <3>10, <3>11, <3>12, <3>13
  <2> QED BY <2>1, <2>2
<1>7. Types'
  <2>1. /\ setting' \in Setting /\ args' \in [Call -> Arguments \cup {NoArgs}]
        /\ \A d \in Call : args'[d] \in Argument[d] \cup {NoArgs}
    BY <1>3 DEF IInv, Types
  <2>2. /\ sent' = [d \in Call |-> sent'[d]] /\ answer' \in [Call -> Seq(Image)]
        /\ DOMAIN file' \subseteq Path /\ file' \in [DOMAIN file' -> File]
    BY <1>3 DEF IInv, Types
  <2>3. pc' \in [Call -> Places] /\ reply' \in [Call -> {NoReply, "rejected", "failed", "ok"}]
    <3>1. /\ pc \in [Call -> Places] /\ "done" \in Places /\ "image" \in Places
          /\ reply \in [Call -> {NoReply, "rejected", "failed", "ok"}]
      BY DEF IInv, Types, Places
    <3>2. CASE at[c] = Len(answer[c])
      <4>1. pc' = [pc EXCEPT ![c] = "done"] /\ reply' = [reply EXCEPT ![c] = "ok"]
        BY <1>3, <3>2
      <4> QED BY ONLY <3>1, <4>1
    <3>3. CASE at[c] # Len(answer[c])
      <4>1. pc' = [pc EXCEPT ![c] = "image"] /\ reply' = reply
        BY <1>3, <3>3
      <4> QED BY ONLY <3>1, <4>1
    <3> QED BY <3>2, <3>3
  <2>4. result' \in [Call -> Seq(Image)]
    <3>1. result' = [result EXCEPT ![c] = result'[c]]
      BY <1>3, <1>4
    <3> QED BY <1>5, <3>1 DEF IInv, Types
  <2>5. at' \in [Call -> Nat] /\ path' \in [Call -> Path \cup {NoPath}]
    <3>1. at' = [at EXCEPT ![c] = at'[c]] /\ at'[c] \in Nat
      BY <1>0, <1>2, <1>3, <1>4 DEF IInv, Types
    <3>2. at' \in [Call -> Nat]
      BY <3>1 DEF IInv, Types
    <3>3. path' \in [Call -> Path \cup {NoPath}]
      BY <1>3 DEF IInv, Types
    <3> QED BY <3>2, <3>3
  <2>6. out' \in [Call -> [files : Seq(Entry), warned : SUBSET Nat]]
    <3>1. out'[c] \in [files : Seq(Entry), warned : SUBSET Nat]
      BY <1>3, <1>6
    <3> QED BY <1>3, <3>1 DEF IInv, Types
  <2> QED BY <2>1, <2>2, <2>3, <2>4, <2>5, <2>6 DEF Types
<1>8. Others(c)
  BY <1>3 DEF Others, IInv, Types
<1>9. Where(c)' /\ Asked(c)'
  <2>1. sent'[c] = sent[c] /\ args'[c] = args[c] /\ answer'[c] = answer[c] /\ setting' = setting
    BY <1>3
  <2>2. at'[c] <= Len(answer[c]) /\ at'[c] > 0
    BY <1>0, <1>2, <1>4
  <2>3. Where(c)'
    BY <1>1, <1>4, <1>5, <2>1, <2>2 DEF IInv, Where, Asking, Imaging, Saving, NoReply
  <2>4. Asked(c)'
    BY <1>1, <1>4, <2>1 DEF IInv, Asked, NoReply
  <2> QED BY <2>3, <2>4
<1>10. Accounts(c)'
  <2> SUFFICES ASSUME NEW i \in DOMAIN answer[c]
               PROVE  IF Past(c, i)' THEN Accounted(c, i)'
                      ELSE result'[c][i] = answer[c][i] /\ Lines(c, i)' = {}
    BY <1>3 DEF Accounts
  <2>1. IF Past(c, i) THEN Accounted(c, i) ELSE result[c][i] = answer[c][i] /\ Lines(c, i) = {}
    BY <1>1 DEF IInv, Accounts
  <2>2. /\ Past(c, i) <=> i < n
        /\ Past(c, i)' <=> i < n \/ i = n
    BY <1>0, <1>1, <1>2, <1>4 DEF Past, NoReply
  <2>3. args'[c] = args[c] /\ answer'[c] = answer[c]
    BY <1>3
  <2>4. CASE i # n
    <3>1. /\ result'[c][i] = result[c][i] /\ Lines(c, i)' = Lines(c, i)
          /\ i \in out'[c].warned <=> i \in out[c].warned
      BY <1>0, <1>3, <1>5, <1>6, <2>4
    <3>2. ToSave(c, i)' <=> ToSave(c, i)
      BY <2>3 DEF ToSave
    <3>3. Accounted(c, i) => Accounted(c, i)'
      BY <2>3, <3>1, <3>2 DEF Accounted
    <3> QED BY <2>1, <2>2, <2>4, <3>1, <3>3
  <2>5. CASE i = n
    <3>1. ToSave(c, n)' <=> ToSave(c, n)
      BY <2>3 DEF ToSave
    <3>2. result'[c][n] = image /\ Current(c) = answer[c][n]
      BY <1>0, <1>1, <1>5
    <3>3. n \notin out'[c].warned => ~Mismatch(args[c].outputFormat, format)
      BY <1>0, <1>3
    <3>4. args[c].outputFormat \in {"absent", "png", "jpeg"}
      <4>1. args[c] \in Arguments /\ Ready(args[c], setting)
        BY <1>1, ArgumentKnown DEF IInv, Asked
      <4>2. args[c].outputFormat # "other"
        BY <1>1, <4>1 DEF Ready, HandlerResolves, ImageTool
      <4> QED BY <4>1, <4>2, ArgumentFields
    <3>5. answer[c][n].magic \in {"none", "png", "jpeg"}
      BY <1>1, <3>2 DEF Image
    <3>6. n \notin out'[c].warned /\ args[c].outputFormat # "absent"
            /\ Payload(answer[c][n]) = "good" /\ answer[c][n].magic # "none" =>
          answer[c][n].magic = args[c].outputFormat
      BY <3>2, <3>3, <3>4, <3>5 DEF Mismatch
    <3>7. Accounted(c, n)'
      BY <1>0, <1>6, <2>3, <3>1, <3>2, <3>6 DEF Accounted
    <3> QED BY <2>2, <2>5, <3>7
  <2> QED BY <2>4, <2>5
<1>11. Saves(c)'
  <2>1. \A k \in DOMAIN out[c].files :
          /\ out[c].files[k].index < n
          /\ Holds(c, out[c].files[k].index, out[c].files[k].path)
    BY <1>0, <1>1 DEF IInv, Saves, Imaging
  <2>2. pc[c] = "stat" => Holds(c, n, path[c])
    BY <1>0 DEF IInv, Saves
  <2>3. \A i, p : Holds(c, i, p)' <=> Holds(c, i, p)
    BY <1>3 DEF Holds
  <2>4. n < at'[c] \/ pc'[c] = "done"
    BY <1>0, <1>4
  <2>5. \A j \in Nat : j < n => j < at'[c]
    BY <1>0, <1>4
  <2>6. ASSUME NEW k \in DOMAIN out'[c].files
        PROVE  /\ out'[c].files[k].index < at'[c] \/ pc'[c] = "done"
               /\ Holds(c, out[c].files[k].index, out[c].files[k].path)'
    <3>1. PICK line : line = out'[c].files[k]
      OBVIOUS
    <3>2. line.index \in Nat
      <4>1. PICK all : all = out'[c].files
        OBVIOUS
      <4>2. all \in Seq(Entry) /\ k \in DOMAIN all /\ line = all[k]
        BY <1>6, <3>1, <4>1
      <4>3. line \in Entry
        BY <4>2
      <4> QED BY <4>3 DEF Entry
    <3>3. (line.index < n \/ line.index = n) /\ Holds(c, line.index, line.path)
      BY <1>0, <1>6, <2>1, <2>2, <3>1
    <3>4. Holds(c, line.index, line.path)'
      BY <2>3, <3>3
    <3>5. line.index < at'[c] \/ pc'[c] = "done"
      BY <2>4, <2>5, <3>2, <3>3
    <3> QED BY <3>1, <3>4, <3>5 DEF Holds
  <2> QED BY <1>4, <2>6 DEF Saves
<1>12. \A p : Opener(p, c) => Opener(p, c)'
  <2>1. reply[c] # "failed" /\ pc[c] # "write" /\ pc'[c] # "new"
    BY <1>1, <1>4 DEF NoReply
  <2> QED BY <1>6, <2>1 DEF Opener
<1> QED BY <1>3, <1>7, <1>8, <1>9, <1>10, <1>11, <1>12, OneCall

LEMMA ImageFacts ==
  ASSUME NEW image \in Image
  PROVE  /\ Payload(image) \in {"none", "good", "bad"}
         /\ CanonicalFormat(image) \in {"none", "png", "jpeg"}
         /\ image.magic # "none" => CanonicalFormat(image) = image.magic
         /\ Payload(image) # "good" => ~Exceeds(image)
         /\ Cleared(image) \in Image /\ Payload(Cleared(image)) = "none"
         /\ Cleared(image).url # "good"
<1> USE DEF Image
<1>1. Payload(image) \in {"none", "good", "bad"} /\ (Payload(image) # "good" => ~Exceeds(image))
  BY DEF Payload, Exceeds
<1>2. /\ CanonicalFormat(image) \in {"none", "png", "jpeg"}
      /\ image.magic # "none" => CanonicalFormat(image) = image.magic
  BY DEF CanonicalFormat
<1>3. PICK u : u = IF image.url \in {"good", "bad"} THEN "none" ELSE image.url
  OBVIOUS
<1>4. PICK im : im = Cleared(image)
  OBVIOUS
<1>7. im = [image EXCEPT !.b64 = "none", !.url = u]
  BY <1>3, <1>4 DEF Cleared
<1>8. u \in {"none", "plain"}
  BY <1>3
<1>5. im \in Image /\ im.b64 = "none" /\ im.url = u
  BY <1>7, <1>8
<1>6. Payload(im) = "none"
  BY <1>5, <1>8 DEF Payload
<1> QED BY <1>1, <1>2, <1>4, <1>5, <1>6, <1>8

LEMMA InlineKeeps ==
  ASSUME IInv, NEW c \in Call, Inline(c)
  PROVE  IInv'
<1>1. pc[c] = "image" /\ ResponseFormat(args[c]) = "b64_json"
  BY DEF Inline
<1>2. Current(c) \in Image /\ ~ToSave(c, at[c])
  BY <1>1, CurrentAsItCame DEF Imaging, ToSave
<1>3. CASE Exceeds(Current(c))
  BY <1>1, <1>3, EndKeeps DEF Inline, FailImage
<1>4. CASE ~Exceeds(Current(c))
  <2>1. PICK format : format = IF Payload(Current(c)) = "good" THEN CanonicalFormat(Current(c))
                               ELSE "none"
    OBVIOUS
  <2>2. PICK image : image = Current(c)
    OBVIOUS
  <2>3. PICK files : files = << >>
    OBVIOUS
  <2>4. NextImage(c, image, format, files)
    BY <1>1, <1>4, <2>1, <2>2, <2>3 DEF Inline
  <2>5. /\ format \in {"none", "png", "jpeg"}
        /\ Payload(Current(c)) = "good" /\ Current(c).magic # "none" =>
             format = Current(c).magic
    BY <1>2, <2>1, ImageFacts
  <2> QED BY <1>1, <1>2, <1>4, <2>2, <2>3, <2>4, <2>5, NextKeeps
<1> QED BY <1>3, <1>4

LEMMA NothingKeeps ==
  ASSUME IInv, NEW c \in Call, NothingToSave(c)
  PROVE  IInv'
<1>1. pc[c] = "image" /\ Payload(Current(c)) = "none"
  BY DEF NothingToSave
<1>2. Current(c) \in Image /\ Current(c) = answer[c][at[c]]
  BY <1>1, CurrentAsItCame DEF Imaging
<1>3. ~ToSave(c, at[c]) /\ ~Exceeds(Current(c))
  BY <1>1, <1>2 DEF ToSave, Exceeds
<1>4. PICK image : image = Current(c)
  OBVIOUS
<1>5. PICK files : files = << >>
  OBVIOUS
<1>6. NextImage(c, image, "none", files)
  BY <1>4, <1>5 DEF NothingToSave
<1> QED BY <1>1, <1>2, <1>3, <1>4, <1>5, <1>6, NextKeeps

LEMMA SavedKeeps ==
  ASSUME IInv, NEW c \in Call, Saved(c)
  PROVE  IInv'
<1>1. /\ pc[c] = "stat" /\ Payload(Current(c)) = "good"
      /\ ResponseFormat(args[c]) # "b64_json"
  BY DEF Saved, IInv, Where, Saving
<1>2. Current(c) \in Image /\ Current(c) = answer[c][at[c]]
  BY <1>1, CurrentAsItCame DEF Imaging
<1>3. ToSave(c, at[c])
  BY <1>1, <1>2 DEF ToSave
<1>4. PICK image : image = Cleared(Current(c))
  OBVIOUS
<1>5. PICK format : format = CanonicalFormat(Current(c))
  OBVIOUS
<1>6. PICK files : files = << [index |-> at[c], path |-> path[c], format |-> format] >>
  OBVIOUS
<1>7. NextImage(c, image, format, files)
  BY <1>4, <1>5, <1>6 DEF Saved
<1>8. /\ image \in Image /\ Payload(image) = "none" /\ image.url # "good"
      /\ format \in {"none", "png", "jpeg"}
      /\ Current(c).magic # "none" => format = Current(c).magic
  BY <1>2, <1>4, <1>5, ImageFacts
<1> QED BY <1>1, <1>3, <1>6, <1>7, <1>8, NextKeeps

LEMMA EndingKeeps ==
  ASSUME IInv, NEW c \in Call,
         \/ ModelMissing(c) \/ UpstreamFails(c) \/ UpstreamDescribes(c) \/ UpstreamDraws(c)
         \/ Undecodable(c) \/ DiskFails(c)
  PROVE  IInv'
<1>1. CASE ModelMissing(c)
  BY <1>1, EndKeeps DEF ModelMissing
<1>2. CASE UpstreamFails(c)
  BY <1>2, EndKeeps DEF UpstreamFails
<1>3. CASE UpstreamDescribes(c)
  BY <1>3, EndKeeps DEF UpstreamDescribes
<1>4. CASE UpstreamDraws(c)
  <2>1. PICK images \in Response[c] :
          IF images = << >>
            THEN End(c, "failed") /\ UNCHANGED <<answer, result, at>>
            ELSE /\ Goto(c, "image")
                 /\ answer' = [answer EXCEPT ![c] = images]
                 /\ result' = [result EXCEPT ![c] = images]
                 /\ at' = [at EXCEPT ![c] = 1]
    BY <1>4 DEF UpstreamDraws
  <2>2. /\ pc[c] = "wait" /\ args[c].tool \in ImageTool
        /\ UNCHANGED <<setting, args, sent, path, out, file>>
    BY <1>4 DEF UpstreamDraws
  <2>3. CASE images = << >>
    BY <2>1, <2>2, <2>3, EndKeeps
  <2>4. CASE images # << >>
    BY <2>1, <2>2, <2>4, DrawsKeeps
  <2> QED BY <2>3, <2>4
<1>5. CASE Undecodable(c)
  BY <1>5, EndKeeps DEF Undecodable, FailImage
<1>6. CASE DiskFails(c)
  BY <1>6, EndKeeps DEF DiskFails, FailImage
<1> QED BY <1>1, <1>2, <1>3, <1>4, <1>5, <1>6

-----------------------------------------------------------------------------
\* Steps on the file a call has chosen

\* The file is opened by c, or was; nobody else's claim on it is of any use after.
Touches(c, p, F) ==
  /\ p = path[c] /\ file' = [q \in DOMAIN file \cup {p} |-> IF q = p THEN F ELSE file[q]]
  /\ F.opened = (IF p \in DOMAIN file THEN file[p].opened ELSE {}) \cup {Me(c)}
  /\ F.by = c \/ (p \in DOMAIN file /\ F.by = file[p].by)
  /\ UNCHANGED <<args, out, at, path>>
  /\ (pc'[c] = "done" /\ reply'[c] = "failed") \/ pc'[c] \in {"write", "stat"}

\* A call that has not opened its file may: nobody has it, or it overwrites.
LEMMA MayTouch ==
  ASSUME IInv, NEW c \in Call, pc[c] = "write" \/ Open(c)
  PROVE  /\ path[c] \in Path /\ pc[c] \in {"open", "write"} /\ pc[c] \in Imaging
         /\ Me(c) = <<c, at[c]>> /\ at[c] \in Nat /\ c # Outsider
         /\ path[c].n > 1 => [path[c] EXCEPT !.n = @ - 1] \in DOMAIN file \/ path[c] \in DOMAIN file
         /\ path[c] \in DOMAIN file => Me(c) \in file[path[c]].opened \/ Overwrites(c)
         /\ \A k \in DOMAIN out[c].files :
              /\ out[c].files[k].index < at[c]
              /\ Holds(c, out[c].files[k].index, out[c].files[k].path)
<1>1. pc[c] \in {"open", "write"}
  BY DEF Open
<1>2. pc[c] \in Imaging /\ path[c] \in Path /\ at[c] \in Nat
  BY <1>1 DEF IInv, Types, Where, Imaging, Saving
<1>3. c # Outsider
  BY ImageCallsAssumption DEF ImageCallsAssumption
<1>4. path[c] \in DOMAIN file => Me(c) \in file[path[c]].opened \/ Overwrites(c)
  BY <1>1 DEF IInv, Saves, Open, Exists
<1>5. path[c].n > 1 => [path[c] EXCEPT !.n = @ - 1] \in DOMAIN file \/ path[c] \in DOMAIN file
  BY <1>1 DEF IInv, Saves
<1>6. \A k \in DOMAIN out[c].files :
        /\ out[c].files[k].index < at[c]
        /\ Holds(c, out[c].files[k].index, out[c].files[k].path)
  BY <1>1 DEF IInv, Saves
<1> QED BY <1>1, <1>2, <1>3, <1>4, <1>5, <1>6 DEF Me

LEMMA TouchedFiles ==
  ASSUME IInv, NEW c \in Call, pc[c] = "write" \/ Open(c), Others(c), NEW p, NEW F \in File,
         Touches(c, p, F)
  PROVE  /\ Files' /\ DOMAIN file' \subseteq Path /\ file' \in [DOMAIN file' -> File]
         /\ \A d \in Call \ {c} : Saves(d)'
         /\ \A k \in DOMAIN out[c].files :
              Holds(c, out[c].files[k].index, out[c].files[k].path)'
<1>1. /\ p \in Path /\ pc[c] \in {"open", "write"} /\ pc[c] \in Imaging
      /\ Me(c) = <<c, at[c]>> /\ at[c] \in Nat /\ c # Outsider
      /\ p.n > 1 => [p EXCEPT !.n = @ - 1] \in DOMAIN file \/ p \in DOMAIN file
      /\ p \in DOMAIN file => Me(c) \in file[p].opened \/ Overwrites(c)
      /\ \A k \in DOMAIN out[c].files :
           /\ out[c].files[k].index < at[c]
           /\ Holds(c, out[c].files[k].index, out[c].files[k].path)
  <2>1. PICK q : q = path[c]
    OBVIOUS
  <2>2. p = q
    BY <2>1 DEF Touches
  <2> QED BY <2>1, <2>2, MayTouch
<1>2. PICK n : n = at[c]
  OBVIOUS
<1>3. /\ DOMAIN file' = DOMAIN file \cup {p} /\ file'[p] = F
      /\ \A q \in DOMAIN file : q # p => file'[q] = file[q]
      /\ UNCHANGED <<args, out, at, path>> /\ p = path[c]
      /\ <<c, n>> \in F.opened
      /\ p \notin DOMAIN file => F.opened = {<<c, n>>} /\ F.by = c
      /\ p \in DOMAIN file => /\ F.opened = file[p].opened \cup {<<c, n>>}
                              /\ F.by = c \/ F.by = file[p].by
  BY <1>1, <1>2 DEF Touches
<1>4. DOMAIN file' \subseteq Path /\ file' \in [DOMAIN file' -> File]
  BY <1>1, <1>3 DEF IInv, Types, Touches
\* Whoever holds a file still does: if it is p, then not alone any more.
<1>5. ASSUME NEW d, NEW i, NEW q, Holds(d, i, q), <<d, i>> # <<c, n>>
      PROVE  Holds(d, i, q)'
  <2>1. CASE q # p
    BY <1>3, <1>5, <2>1 DEF Holds, Kept
  <2>2. CASE q = p
    BY <1>3, <1>5, <2>2 DEF Holds
  <2> QED BY <2>1, <2>2
<1>6. \A d : Overwriter(d)' <=> Overwriter(d)
  BY <1>3 DEF Overwriter, Overwrites, Others
<1>7. \A q : \A d \in Call : Opener(q, d) => Opener(q, d)'
  <2>1. \A q : \A d \in Call \ {c} : Opener(q, d) => Opener(q, d)'
    BY <1>3 DEF Opener, Others
  <2>2. \A q : Opener(q, c) => Opener(q, c)'
    <3>1. reply[c] # "failed" /\ pc'[c] # "new"
      BY <1>1, CurrentAsItCame DEF NoReply, Touches
    <3> QED BY <1>1, <1>3, <3>1 DEF Opener, Touches
  <2> QED BY <2>1, <2>2
<1>8. Opener(p, c)'
  BY <1>3 DEF Opener, Touches
<1>9. \A q \in DOMAIN file :
        FileHistory(q) /\ \A o \in file[q].opened : o[1] = Outsider \/ o[1] \in Call
  BY OpenedBy DEF IInv, Files
<1>10. ASSUME NEW q \in DOMAIN file, q # p PROVE FileHistory(q)'
  <2>1. FileHistory(q) /\ file'[q] = file[q] /\ Taken' = Taken
    BY <1>3, <1>9, <1>10 DEF Taken
  <2>2. \A o \in file[q].opened : o[1] # Outsider => Opener(q, o[1])'
    BY <1>7, <1>9, <2>1 DEF FileHistory
  <2> QED BY <1>3, <1>6, <2>1, <2>2 DEF FileHistory
<1>11. FileHistory(p)'
  <2>1. p \in Taken => p \in DOMAIN file
    BY DEF IInv, Files
  <2>2. \A o \in F.opened : o[1] # Outsider => Opener(p, o[1])'
    <3>1. ASSUME NEW o \in F.opened, o[1] # Outsider PROVE Opener(p, o[1])'
      <4>1. CASE o = <<c, n>>
        BY <1>8, <4>1
      <4>2. CASE p \in DOMAIN file /\ o \in file[p].opened
        <5>1. o[1] \in Call /\ Opener(p, o[1])
          BY <1>9, <3>1, <4>2 DEF FileHistory
        <5> QED BY <1>7, <5>1
      <4> QED BY <1>3, <3>1, <4>1, <4>2
    <3> QED BY <3>1
  <2>3. p \in DOMAIN file => <<c, n>> \in file[p].opened \/ Overwriter(c)
    BY <1>1, <1>2 DEF Overwriter
  <2>4. <<c, n>>[1] = c
    OBVIOUS
  <2>5. \A o, q \in F.opened : o = q \/ Overwriter(o[1]) \/ Overwriter(q[1])
    <3>1. CASE p \notin DOMAIN file
      BY <1>3, <3>1
    <3>2. CASE p \in DOMAIN file
      <4>1. \A o, q \in file[p].opened : o = q \/ Overwriter(o[1]) \/ Overwriter(q[1])
        BY <1>9, <3>2 DEF FileHistory
      <4> QED BY <1>3, <2>3, <2>4, <3>2, <4>1
    <3> QED BY <3>1, <3>2
  <2>6. p.n > 1 /\ p \notin Taken => [p EXCEPT !.n = @ - 1] \in DOMAIN file'
    <3>1. CASE p \in DOMAIN file
      BY <1>3, <1>9, <3>1 DEF FileHistory
    <3>2. CASE p \notin DOMAIN file
      BY <1>1, <1>3, <3>2
    <3> QED BY <3>1, <3>2
  <2>7. p \in Taken => /\ <<Outsider, 0>> \in F.opened
                       /\ F.by = Outsider \/ \E o \in F.opened : Overwriter(o[1])
    <3> SUFFICES ASSUME p \in Taken
                 PROVE  /\ <<Outsider, 0>> \in F.opened
                        /\ F.by = Outsider \/ \E o \in F.opened : Overwriter(o[1])
      OBVIOUS
    <3>1. /\ <<Outsider, 0>> \in file[p].opened
          /\ file[p].by = Outsider \/ \E o \in file[p].opened : Overwriter(o[1])
      BY <1>9, <2>1 DEF FileHistory
    <3>2. F.by = c => \E o \in F.opened : Overwriter(o[1])
      <4>1. <<Outsider, 0>> # <<c, n>> /\ <<Outsider, 0>>[1] = Outsider
        BY <1>1
      <4>2. ~Overwriter(Outsider)
        BY DEF Overwriter
      <4>3. <<Outsider, 0>> \in F.opened
        BY <1>3, <2>1, <3>1
      <4> QED BY <1>3, <2>5, <4>1, <4>2, <4>3
    <3> QED BY <1>3, <2>1, <3>1, <3>2
  <2> QED BY <1>3, <1>6, <2>2, <2>5, <2>6, <2>7 DEF FileHistory, Taken
<1>12. Files'
  <2>1. Taken' = Taken
    BY DEF Taken
  <2> QED BY <1>3, <1>10, <1>11, <2>1 DEF IInv, Files
<1>13. ASSUME NEW d \in Call \ {c} PROVE Saves(d)'
  <2>1. Saves(d)
    BY DEF IInv
  <2>2. /\ pc'[d] = pc[d] /\ path'[d] = path[d] /\ at'[d] = at[d] /\ out'[d] = out[d]
    BY DEF Others
  <2>3. \A i, q : Holds(d, i, q) => Holds(d, i, q)'
    BY <1>5
  <2>4. pc[d] = "write" =>
          /\ path[d] \in DOMAIN file' /\ Me(d) \in file'[path[d]].opened
          /\ file'[path[d]].opened = {Me(d)} => file'[path[d]].state = "empty"
    <3>1. PICK q : q = path[d]
      OBVIOUS
    <3>2. Me(d) # <<c, n>>
      BY DEF Me
    <3>3. CASE q # p
      BY <1>3, <2>1, <3>1, <3>3 DEF Saves
    <3>4. CASE q = p
      BY <1>3, <2>1, <3>1, <3>2, <3>4 DEF Saves
    <3> QED BY <3>3, <3>4
  <2>5. pc'[d] = "open" /\ path'[d].n > 1 => [path'[d] EXCEPT !.n = @ - 1] \in DOMAIN file'
    BY <1>3, <2>1, <2>2 DEF Saves
  <2>6. pc'[d] = "stat" => Holds(d, at[d], path[d])'
    <3>1. PICK i, q : i = at[d] /\ q = path[d]
      OBVIOUS
    <3>2. pc'[d] = "stat" => Holds(d, i, q)'
      BY <2>1, <2>2, <2>3, <3>1 DEF Saves
    <3> QED BY <2>2, <3>1, <3>2 DEF Holds
  <2>7. \A k \in DOMAIN out'[d].files :
          /\ out'[d].files[k].index < at'[d] \/ pc'[d] = "done"
          /\ Holds(d, out[d].files[k].index, out[d].files[k].path)'
    <3>1. PICK fs : fs = out[d].files
      OBVIOUS
    <3>2. \A k \in DOMAIN fs : Holds(d, fs[k].index, fs[k].path)'
      BY <2>1, <2>3, <3>1 DEF Saves
    <3> QED BY <2>1, <2>2, <3>1, <3>2 DEF Saves, Holds
  <2>8. Me(d)' = Me(d)
    BY <2>2 DEF Me
  <2> QED BY <2>2, <2>4, <2>5, <2>6, <2>7, <2>8 DEF Saves
<1>14. ASSUME NEW k \in DOMAIN out[c].files
       PROVE  Holds(c, out[c].files[k].index, out[c].files[k].path)'
  <2>1. PICK i, q : i = out[c].files[k].index /\ q = out[c].files[k].path
    OBVIOUS
  <2>2. Holds(c, i, q) /\ i < at[c]
    BY <1>1, <2>1
  <2>3. i \in Nat
    <3>1. PICK fs : fs = out[c].files
      OBVIOUS
    <3>2. fs \in Seq(Entry)
      BY <3>1 DEF IInv, Types
    <3>3. fs[k] \in Entry
      BY <3>1, <3>2
    <3> QED BY <2>1, <3>1, <3>3 DEF Entry
  <2>4. i # n
    BY <1>1, <1>2, <2>2, <2>3
  <2>5. Holds(c, i, q)'
    BY <1>5, <2>2, <2>4
  <2> QED BY <1>3, <2>1, <2>5 DEF Holds
<1> QED BY <1>4, <1>12, <1>13, <1>14

\* What holds of the call itself.
LEMMA TouchKeeps ==
  ASSUME IInv, NEW c \in Call, pc[c] = "write" \/ Open(c), NEW p, NEW F \in File,
         Touches(c, p, F), UNCHANGED <<setting, sent, answer, result>>,
         NEW where \in {"write", "stat", "done"}, pc' = [pc EXCEPT ![c] = where],
         reply' = [reply EXCEPT ![c] = IF where = "done" THEN "failed" ELSE NoReply],
         where = "write" /\ F.opened = {Me(c)} => F.state = "empty",
         where = "stat" /\ F.opened = {Me(c)} => F = Kept(c, at[c])
  PROVE  IInv'
<1>1. /\ p = path[c] /\ file' = [q \in DOMAIN file \cup {p} |-> IF q = p THEN F ELSE file[q]]
      /\ UNCHANGED <<args, out, at, path>> /\ Me(c) \in F.opened
  BY DEF Touches
<1>2. /\ pc[c] \in Imaging /\ pc[c] \in {"open", "write"} /\ reply[c] = NoReply
      /\ sent[c] # NoSent /\ pc[c] # "new" /\ args[c].tool \in ImageTool
  BY MayTouch, CurrentAsItCame
<1>3. Others(c)
  BY <1>1 DEF Others, IInv, Types
<1>4. /\ Files' /\ DOMAIN file' \subseteq Path /\ file' \in [DOMAIN file' -> File]
      /\ \A d \in Call \ {c} : Saves(d)'
      /\ \A k \in DOMAIN out[c].files :
           Holds(c, out[c].files[k].index, out[c].files[k].path)'
  BY <1>3, TouchedFiles
<1>5. Types'
  <2>1. pc' \in [Call -> Places] /\ reply' \in [Call -> {NoReply, "rejected", "failed", "ok"}]
    BY DEF IInv, Types, Places
  <2> QED BY <1>1, <1>4, <2>1 DEF IInv, Types
<1>6. pc'[c] = where /\ reply'[c] = IF where = "done" THEN "failed" ELSE NoReply
  BY DEF IInv, Types
<1>7. Where(c)'
  <2>1. Where(c) /\ Current(c)' = Current(c)
    BY <1>1 DEF IInv, Current
  <2>2. pc[c] \in Saving
    BY <1>2 DEF Saving
  <2> QED BY <1>1, <1>2, <1>6, <2>1, <2>2 DEF Where, Asking, Imaging, Saving, NoReply
<1>8. Asked(c)'
  BY <1>1, <1>2, <1>6 DEF IInv, Asked, NoReply
<1>9. Accounts(c)'
  BY <1>1, <1>2, <1>6 DEF IInv, Accounts, Past, Accounted, ToSave, Lines, NoReply
<1>10. Saves(c)'
  <2>1. DOMAIN file' = DOMAIN file \cup {p} /\ file'[p] = F
    BY <1>1
  <2>2. pc'[c] = "write" => /\ path[c] \in DOMAIN file' /\ Me(c) \in file'[path[c]].opened
                            /\ file'[path[c]].opened = {Me(c)} => file'[path[c]].state = "empty"
    BY <1>1, <1>6, <2>1
  <2>3. pc'[c] = "stat" => Holds(c, at[c], path[c])'
    BY <1>1, <1>6, <2>1 DEF Holds, Me, Kept
  <2>4. Me(c)' = Me(c)
    BY <1>1 DEF Me
  <2>5. \A k \in DOMAIN out[c].files : out[c].files[k].index < at[c]
    BY MayTouch
  <2> QED BY <1>1, <1>4, <1>6, <2>2, <2>3, <2>4, <2>5 DEF Saves
<1>11. \A d \in Call \ {c} : Where(d)' /\ Asked(d)' /\ Accounts(d)'
  BY <1>3, OthersKeep
<1> QED BY <1>4, <1>5, <1>7, <1>8, <1>9, <1>10, <1>11 DEF IInv

LEMMA OpenKeeps ==
  ASSUME IInv, NEW c \in Call, Open(c)
  PROVE  IInv'
<1>1. PICK p : p = path[c]
  OBVIOUS
<1>2. PICK n : n = at[c]
  OBVIOUS
<1>3. PICK old : old = IF p \in DOMAIN file THEN file[p].opened ELSE {}
  OBVIOUS
<1>4. PICK F : F = [state |-> "empty", by |-> c, image |-> n, opened |-> old \cup {<<c, n>>}]
  OBVIOUS
<1>5. /\ file' = [q \in DOMAIN file \cup {p} |-> IF q = p THEN F ELSE file[q]]
      /\ pc[c] = "open"
      /\ pc' = [pc EXCEPT ![c] = "write"] /\ reply' = reply
      /\ UNCHANGED <<setting, args, sent, answer, result, at, path, out>>
  BY <1>1, <1>2, <1>3, <1>4 DEF Open, Opened, Goto, Me, Exists
<1>6. p \in Path /\ n \in Nat /\ reply[c] = NoReply
  BY <1>1, <1>2, MayTouch, CurrentAsItCame
<1>7. F \in File /\ F.opened = old \cup {Me(c)} /\ F.by = c /\ F.state = "empty"
  <2>1. old \subseteq (Call \cup {Outsider}) \X Nat
    BY <1>3 DEF IInv, Types, File
  <2>2. old \cup {<<c, n>>} \in SUBSET ((Call \cup {Outsider}) \X Nat)
    BY <1>6, <2>1
  <2> QED BY <1>2, <1>4, <1>6, <2>2 DEF File, Me
<1>9. pc'[c] = "write"
  BY <1>5 DEF IInv, Types
<1>10. Touches(c, p, F)
  BY <1>1, <1>3, <1>5, <1>7, <1>9 DEF Touches
<1>11. reply' = [reply EXCEPT ![c] = NoReply]
  BY <1>5, <1>6 DEF IInv, Types
<1> QED BY <1>5, <1>7, <1>10, <1>11, TouchKeeps

\* The file a call writes to is there, and nobody's but its own while nobody overwrites.
LEMMA WriteKeeps ==
  ASSUME IInv, NEW c \in Call, Write(c)
  PROVE  IInv'
<1>1. PICK p : p = path[c]
  OBVIOUS
<1>2. PICK n : n = at[c]
  OBVIOUS
<1>3. /\ pc[c] = "write" /\ pc' = [pc EXCEPT ![c] = "stat"] /\ reply' = reply
      /\ UNCHANGED <<setting, args, sent, answer, result, at, path, out>>
  BY DEF Write, Goto
<1>4. PICK state \in {"whole", "mixed"} :
        /\ file[p].state = "empty" => state = "whole"
        /\ file' = [file EXCEPT ![p].state = state, ![p].by = c, ![p].image = n]
  BY <1>1, <1>2 DEF Write
<1>5. /\ p \in Path /\ n \in Nat /\ reply[c] = NoReply /\ p \in DOMAIN file
      /\ <<c, n>> \in file[p].opened
      /\ file[p].opened = {<<c, n>>} => file[p].state = "empty"
      /\ file[p] \in File
  BY <1>1, <1>2, <1>3, MayTouch, CurrentAsItCame DEF IInv, Saves, Types, Me
<1>6. PICK old : old = file[p]
  OBVIOUS
<1>7. PICK F : F = [state |-> state, by |-> c, image |-> n, opened |-> old.opened]
  OBVIOUS
<1>8. F \in File /\ F.opened = file[p].opened \cup {Me(c)} /\ F.by = c
  BY <1>2, <1>5, <1>6, <1>7 DEF File, Me
<1>9. file' = [q \in DOMAIN file \cup {p} |-> IF q = p THEN F ELSE file[q]]
  <2>1. [[[old EXCEPT !.state = state] EXCEPT !.by = c] EXCEPT !.image = n] = F
    <3>1. old = [state |-> old.state, by |-> old.by, image |-> old.image,
                 opened |-> old.opened]
      BY <1>5, <1>6 DEF File
    <3>2. [old EXCEPT !.state = state]
            = [state |-> state, by |-> old.by, image |-> old.image, opened |-> old.opened]
      BY <3>1
    <3>3. [[state |-> state, by |-> old.by, image |-> old.image, opened |-> old.opened]
             EXCEPT !.by = c]
            = [state |-> state, by |-> c, image |-> old.image, opened |-> old.opened]
      OBVIOUS
    <3>4. [[state |-> state, by |-> c, image |-> old.image, opened |-> old.opened]
             EXCEPT !.image = n]
            = [state |-> state, by |-> c, image |-> n, opened |-> old.opened]
      OBVIOUS
    <3> QED BY <1>7, <3>2, <3>3, <3>4
  <2>2. DOMAIN file' = DOMAIN file /\ \A q \in DOMAIN file : q # p => file'[q] = file[q]
    BY <1>4
  <2>3. file'[p] = [[[old EXCEPT !.state = state] EXCEPT !.by = c] EXCEPT !.image = n]
    BY <1>4, <1>5, <1>6
  <2>4. file' = [q \in DOMAIN file |-> file'[q]]
    BY <1>4 DEF IInv, Types
  <2> QED BY <1>5, <2>1, <2>2, <2>3, <2>4
<1>10. pc'[c] = "stat"
  BY <1>3 DEF IInv, Types
<1>11. Touches(c, p, F)
  BY <1>1, <1>3, <1>5, <1>8, <1>9, <1>10 DEF Touches
<1>12. F.opened = {Me(c)} => F = Kept(c, at[c])
  BY <1>2, <1>4, <1>5, <1>6, <1>7 DEF Me, Kept
<1>13. reply' = [reply EXCEPT ![c] = NoReply]
  BY <1>3, <1>5 DEF IInv, Types
<1> QED BY <1>3, <1>8, <1>11, <1>12, <1>13, TouchKeeps

LEMMA WriteFailsKeeps ==
  ASSUME IInv, NEW c \in Call, WriteFails(c)
  PROVE  IInv'
<1>1. PICK p : p = path[c]
  OBVIOUS
<1>2. /\ pc[c] = "write" /\ pc' = [pc EXCEPT ![c] = "done"]
      /\ reply' = [reply EXCEPT ![c] = "failed"]
      /\ UNCHANGED <<setting, args, sent, answer, result, at, path, out>>
  BY DEF WriteFails, FailImage, End
<1>3. /\ p \in Path /\ p \in DOMAIN file /\ Me(c) \in file[p].opened /\ file[p] \in File
  BY <1>1, <1>2, MayTouch DEF IInv, Saves, Types
<1>4. PICK state \in {"empty", "part", "whole", "mixed"} :
        file' = [file EXCEPT ![p].state = state]
  BY <1>1, <1>3 DEF WriteFails, File
<1>5. PICK old : old = file[p]
  OBVIOUS
<1>6. PICK F : F = [state |-> state, by |-> old.by, image |-> old.image, opened |-> old.opened]
  OBVIOUS
<1>7. F \in File /\ F.opened = file[p].opened \cup {Me(c)} /\ F.by = file[p].by
  BY <1>3, <1>5, <1>6 DEF File
<1>8. file' = [q \in DOMAIN file \cup {p} |-> IF q = p THEN F ELSE file[q]]
  <2>1. [old EXCEPT !.state = state] = F
    BY <1>3, <1>5, <1>6 DEF File
  <2>2. DOMAIN file' = DOMAIN file /\ \A q \in DOMAIN file : q # p => file'[q] = file[q]
    BY <1>4
  <2>3. file'[p] = [old EXCEPT !.state = state]
    BY <1>3, <1>4, <1>5
  <2>4. file' = [q \in DOMAIN file |-> file'[q]]
    BY <1>4 DEF IInv, Types
  <2> QED BY <1>3, <2>1, <2>2, <2>3, <2>4
<1>9. pc'[c] = "done" /\ reply'[c] = "failed"
  BY <1>2 DEF IInv, Types
<1>10. Touches(c, p, F)
  BY <1>1, <1>2, <1>3, <1>7, <1>8, <1>9 DEF Touches
<1> QED BY <1>2, <1>7, <1>10, TouchKeeps

-----------------------------------------------------------------------------
\* The invariant

LEMMA InitIInv == Init => IInv
<1> SUFFICES ASSUME Init PROVE IInv
  OBVIOUS
<1> USE DEF Init
<1>1. Taken \subseteq Path
  <2>1. \A n \in Before : n \in 1..(MaxRetries + 1)
    BY ImageCallsAssumption DEF ImageCallsAssumption
  <2> QED BY <2>1 DEF Taken, Path, ImageTool
<1>2. DOMAIN file = Taken
  OBVIOUS
<1>3. \A p \in Taken : file[p] = [state |-> "whole", by |-> Outsider, image |-> 0,
                                  opened |-> {<<Outsider, 0>>}]
  OBVIOUS
<1>4. \A p \in Taken : file[p] \in File
  BY <1>3 DEF File
<1>5. << >> \in Seq(Image) /\ << >> \in Seq(Entry) /\ Len(<< >>) = 0 /\ DOMAIN << >> = {}
  OBVIOUS
<1>6. Types
  <2>1. out \in [Call -> [files : Seq(Entry), warned : SUBSET Nat]]
    BY <1>5 DEF Empty
  <2>2. file \in [DOMAIN file -> File]
    BY <1>2, <1>4
  <2> QED BY <1>1, <1>2, <1>5, <2>1, <2>2 DEF Types, Places
<1>7. Files
  <2>1. ASSUME NEW p \in Taken PROVE FileHistory(p)
    <3>1. \A o \in file[p].opened : o = <<Outsider, 0>>
      BY <1>3
    <3>2. \A o \in file[p].opened : o[1] = Outsider
      BY <3>1
    <3> QED BY <1>3, <2>1, <3>1, <3>2 DEF FileHistory
  <2> QED BY <1>2, <2>1 DEF Files
<1>8. ASSUME NEW c \in Call PROVE Where(c) /\ Asked(c) /\ Accounts(c) /\ Saves(c)
  BY <1>5 DEF Where, Asked, Accounts, Saves, Asking, Imaging, Saving, NoReply, Empty
<1> QED BY <1>6, <1>7, <1>8 DEF IInv

LEMMA StepIInv == IInv /\ [Next]_vars => IInv'
<1> SUFFICES ASSUME IInv, [Next]_vars PROVE IInv'
  OBVIOUS
<1>1. CASE UNCHANGED vars
  <2>1. Types'
    BY <1>1 DEF vars, IInv, Types
  <2>2. Files'
    BY <1>1 DEF vars, IInv, Files, FileHistory, Opener, Overwriter, Overwrites, Taken
  <2>3. ASSUME NEW c \in Call PROVE Where(c)' /\ Asked(c)'
    BY <1>1 DEF vars, IInv, Where, Current, Asked
  <2>4. ASSUME NEW c \in Call PROVE Accounts(c)'
    BY <1>1 DEF vars, IInv, Accounts, Past, Accounted, ToSave, Lines
  <2>5. ASSUME NEW c \in Call PROVE Saves(c)'
    BY <1>1 DEF vars, IInv, Saves, Holds, Me
  <2> QED BY <2>1, <2>2, <2>3, <2>4, <2>5 DEF IInv
<1>2. ASSUME NEW c \in Call, Execute(c) PROVE IInv'
  BY <1>2, ExecuteKeeps
<1>3. ASSUME NEW c \in Call, Handler(c) PROVE IInv'
  BY <1>3, HandlerKeeps, EndingKeeps, PostKeeps, InlineKeeps, NothingKeeps, ChooseKeeps,
     OpenKeeps, NameTakenKeeps, WriteKeeps, WriteFailsKeeps, SavedKeeps DEF Handler
<1> QED BY <1>1, <1>2, <1>3 DEF Next

\* Whatever the calls, the arguments, the answers of upstream and the settings, the
\* invariant holds throughout.
THEOREM ImagesInvariant == Spec => []IInv
<1>1. Init => IInv
  BY InitIInv
<1>2. IInv /\ [Next]_vars => IInv'
  BY StepIInv
<1> QED BY <1>1, <1>2, PTL DEF Spec

LEMMA TypesFollow == IInv => ImagesTypeOK
<1> SUFFICES ASSUME IInv PROVE ImagesTypeOK
  OBVIOUS
<1>1. ASSUME NEW c \in Call
      PROVE  /\ args[c] \in Argument[c] \cup {NoArgs}
             /\ reply[c] # NoReply <=> pc[c] = "done"
             /\ sent[c] = NoSent <=> pc[c] \in {"new", "handler"} \/ reply[c] = "rejected"
             /\ Len(result[c]) = Len(answer[c])
             /\ at[c] \in 0..Len(answer[c])
             /\ \A i \in DOMAIN answer[c] : answer[c][i] \in Image
             /\ path[c] \in Path \cup {NoPath}
             /\ pc[c] \in {"open", "write", "stat"} => path[c] \in Path
  <2>1. Types /\ Where(c)
    BY DEF IInv
  <2>2. answer[c] \in Seq(Image)
    BY <2>1 DEF Types
  <2>3. Len(answer[c]) \in Nat /\ \A i \in DOMAIN answer[c] : answer[c][i] \in Image
    BY <2>2
  <2>4. at[c] \in 0..Len(answer[c])
    BY <2>1, <2>3 DEF Types, Where
  <2> QED BY <2>1, <2>3, <2>4 DEF Types, Where, Saving
<1> QED BY <1>1 DEF IInv, Types, ImagesTypeOK, Places

\* Every variable has its type, and a call has what it has by how far it is.
THEOREM ImagesTypeCorrect == Spec => []ImagesTypeOK
BY ImagesInvariant, TypesFollow, PTL

LEMMA ArgumentsFollow == IInv => RequestFollowsArguments
<1> SUFFICES ASSUME IInv, NEW c \in Call
             PROVE  LET a == args[c] IN
                    /\ reply[c] = "rejected" => Broken(a, setting) # {} \/ UnusedDir(a, setting)
                    /\ sent[c] # NoSent =>
                         /\ Broken(a, setting) \subseteq Forgiven(a)
                         /\ sent[c].size = PromisedSize(a)
                         /\ Len(sent[c].parts) = Len(a.inputs)
                         /\ \A i \in DOMAIN a.inputs : PartOf(sent[c].parts[i], a.inputs[i])
  BY DEF RequestFollowsArguments, UnusedDir
<1>1. setting \in Settings
  BY ImageCallsAssumption DEF ImageCallsAssumption, IInv, Types
<1>2. reply[c] = "rejected" \/ sent[c] # NoSent => pc[c] # "new"
  BY DEF IInv, Where, NoReply
<1>3. PICK a, s : a = args[c] /\ s = setting
  OBVIOUS
<1>4. CASE reply[c] = "rejected"
  <2>1. a \in Arguments /\ (~Admits(a) \/ ~Ready(a, s))
    BY <1>2, <1>3, <1>4, ArgumentKnown DEF IInv, Asked
  <2>2. Broken(a, s) # {} \/ UnusedDir(a, s)
    BY <1>1, <1>3, <2>1, RejectedIsBroken
  <2>3. sent[c] = NoSent
    BY <1>4 DEF IInv, Where
  <2> QED BY <1>3, <2>2, <2>3
<1>5. CASE sent[c] # NoSent
  <2>1. /\ a \in Arguments /\ Admits(a) /\ Ready(a, s)
        /\ sent[c] = [size |-> Size(a), parts |-> Parts(a)]
    BY <1>2, <1>3, <1>5, ArgumentKnown DEF IInv, Asked
  <2>2. Broken(a, s) \subseteq Forgiven(a)
    BY <1>1, <1>3, <2>1, LetThrough
  <2>3. /\ Size(a) = PromisedSize(a)
        /\ Len(Parts(a)) = Len(a.inputs)
        /\ \A i \in DOMAIN a.inputs : PartOf(Parts(a)[i], a.inputs[i])
    BY <1>1, <1>3, <2>1, RequestMade
  <2>4. sent[c].size = Size(a) /\ sent[c].parts = Parts(a)
    BY <2>1
  <2>5. reply[c] # "rejected"
    BY <1>5 DEF IInv, Where
  <2> QED BY <1>3, <2>2, <2>3, <2>4, <2>5
<1> QED BY <1>4, <1>5

\* Whatever the arguments and the settings, what reaches upstream is what the
\* documentation lets through, with the size it promises and a part for every image,
\* and what is rejected broke one of its rules, but for a directory without use.
THEOREM RequestsFollow == Spec => []RequestFollowsArguments
BY ImagesInvariant, ArgumentsFollow, PTL

LEMMA FilesFollow == IInv => FilesKept
<1> SUFFICES ASSUME IInv PROVE FilesKept
  OBVIOUS
<1>1. ASSUME NEW c \in Call, NEW i \in DOMAIN out[c].files
      PROVE  LET f == out[c].files[i]
                 kept == [state |-> "whole", by |-> c, image |-> f.index,
                          opened |-> {<<c, f.index>>}]
             IN  file[f.path] = kept \/ Disputed(c, f)
  <2>1. PICK f : f = out[c].files[i]
    OBVIOUS
  <2>2. Holds(c, f.index, f.path)
    BY <2>1, <2>1 DEF IInv, Saves
  <2>3. CASE file[f.path].opened = {<<c, f.index>>}
    BY <2>1, <2>2, <2>3 DEF Holds, Kept
  <2>4. CASE file[f.path].opened # {<<c, f.index>>}
    <3>1. PICK o \in file[f.path].opened : o # <<c, f.index>>
      BY <2>2, <2>4 DEF Holds
    <3>2. o = <<c, f.index>> \/ Overwriter(o[1]) \/ Overwriter(<<c, f.index>>[1])
      BY <2>2, <3>1 DEF IInv, Files, FileHistory, Holds
    <3>3. Disputed(c, f)
      BY <3>1, <3>2 DEF Disputed, Overwriter
    <3> QED BY <2>1, <3>3
  <2> QED BY <2>3, <2>4
<1>2. ASSUME NEW p \in Taken
      PROVE  file[p].by = Outsider \/ \E o \in file[p].opened : o[1] # Outsider /\ Overwrites(o[1])
  BY DEF IInv, Files, FileHistory, Overwriter
<1>3. \A p \in DOMAIN file : p.n > 1 /\ p \notin Taken => [p EXCEPT !.n = @ - 1] \in DOMAIN file
  BY DEF IInv, Files, FileHistory
<1> QED BY <1>1, <1>2, <1>3 DEF FilesKept

\* Whatever the calls, the names they choose and the steps they take in turn: a file a
\* call has saved holds its image, and one that was there stays as it was, unless a
\* call with leave to overwrite opened it; a suffix is passed over only if it is taken.
THEOREM FilesAreKept == Spec => []FilesKept
BY ImagesInvariant, FilesFollow, PTL

LEMMA ReplyFollows == IInv => ReplyAccounts
<1> SUFFICES ASSUME IInv, NEW c \in Call, reply[c] = "ok", args[c].tool \in ImageTool
             PROVE  LET images == answer[c]
                        saved  == IF ResponseFormat(args[c]) = "b64_json" THEN {}
                                  ELSE {i \in DOMAIN images : Payload(images[i]) # "none"}
                    IN
                    /\ \A i \in DOMAIN images :
                         /\ Cardinality({k \in DOMAIN out[c].files : out[c].files[k].index = i})
                              = IF i \in saved THEN 1 ELSE 0
                         /\ i \in saved =>
                              Payload(result[c][i]) = "none" /\ result[c][i].url # "good"
                         /\ i \notin saved => result[c][i] = images[i] /\ ~Exceeds(images[i])
                         /\ i \notin out[c].warned /\ args[c].outputFormat # "absent"
                               /\ Payload(images[i]) = "good" /\ images[i].magic # "none" =>
                              images[i].magic = args[c].outputFormat
                    /\ \A p \in DOMAIN file : \A o \in file[p].opened :
                         o[1] = c => \E k \in DOMAIN out[c].files : out[c].files[k].path = p
  BY DEF ReplyAccounts
<1> DEFINE saved == IF ResponseFormat(args[c]) = "b64_json" THEN {}
                    ELSE {i \in DOMAIN answer[c] : Payload(answer[c][i]) # "none"}
<1>1. ASSUME NEW i \in DOMAIN answer[c]
      PROVE  /\ Cardinality({k \in DOMAIN out[c].files : out[c].files[k].index = i})
                  = IF i \in saved THEN 1 ELSE 0
             /\ i \in saved => Payload(result[c][i]) = "none" /\ result[c][i].url # "good"
             /\ i \notin saved => result[c][i] = answer[c][i] /\ ~Exceeds(answer[c][i])
             /\ i \notin out[c].warned /\ args[c].outputFormat # "absent"
                   /\ Payload(answer[c][i]) = "good" /\ answer[c][i].magic # "none" =>
                  answer[c][i].magic = args[c].outputFormat
  <2>1. Accounted(c, i)
    BY DEF IInv, Accounts, Past
  <2>2. ToSave(c, i) <=> i \in saved
    BY DEF ToSave
  <2>3. Cardinality({}) = 0
    BY FS_EmptySet
  <2>4. \A k : Cardinality({k}) = 1
    BY FS_Singleton
  <2>5. Cardinality(Lines(c, i)) = IF i \in saved THEN 1 ELSE 0
    BY <2>1, <2>2, <2>3, <2>4 DEF Accounted
  <2> HIDE DEF saved
  <2> QED BY <2>1, <2>2, <2>5 DEF Accounted, Lines
<1>2. ASSUME NEW p \in DOMAIN file, NEW o \in file[p].opened, o[1] = c
      PROVE  \E k \in DOMAIN out[c].files : out[c].files[k].path = p
  <2>1. c # Outsider
    BY ImageCallsAssumption DEF ImageCallsAssumption
  <2>2. Opener(p, c)
    BY <1>2, <2>1 DEF IInv, Files, FileHistory
  <2>3. pc[c] = "done"
    BY DEF IInv, Where, NoReply
  <2> QED BY <2>2, <2>3 DEF Opener
<1> QED BY <1>1, <1>2

\* Whatever upstream gives: a successful reply has one file for each image with a
\* payload, which it then leaves out, or with b64_json the images as they came, within
\* the limit; it warns of another format, and lists every file the call opened.
THEOREM RepliesAccount == Spec => []ReplyAccounts
BY ImagesInvariant, ReplyFollows, PTL
=============================================================================
