----------------------------- MODULE ImageCalls -----------------------------
(***************************************************************************)
(* Concurrent calls of generate_image, edit_image, describe_image and      *)
(* compare_images: the handlers of tools/, the upstream they ask through   *)
(* provider/openai, and the files imageToolResult writes                   *)
(* (tools/image_result.go, tools/output_path.go).                          *)
(*                                                                         *)
(* A handler shares nothing with another one until it opens an output      *)
(* file, so what it does before the request is one step, and what it does  *)
(* with the file system is one step for every call of the os package.      *)
(***************************************************************************)
EXTENDS ToolArguments, FiniteSets

CONSTANTS
  Call,          \* the tool calls
  Outsider,      \* who made the files that were there before
  Argument,      \* the arguments each call may have, a function to sets of Arguments
  Response,      \* the answers upstream may give it: sets of sequences of images
  Setting,       \* the deployment's settings, a subset of Settings
  Tag,           \* time stamp and random part of a file name
  MaxRetries,    \* outputFilenameMaxOverwriteRetries
  Before         \* how far the suffixes of the first name are taken at the start

VARIABLES
  setting,   \* what Load made of the environment
  pc,        \* where a call is
  args,      \* its arguments
  sent,      \* the request it made upstream: size and image parts
  answer,    \* the images upstream gave
  result,    \* resultImages: the answer as it will be returned
  at,        \* the image imageToolResult is at
  path,      \* candidate: the file it tries to open, or has open
  out,       \* files and warnings so far
  reply,     \* how the call ended
  file       \* the files of the output directories

vars == <<setting, pc, args, sent, answer, result, at, path, out, reply, file>>

-----------------------------------------------------------------------------
\* Images as upstream returns them.  payload, magic bytes and MIME type are those
\* of b64_json, or else of a data URI; large says that they exceed the limit for
\* inline payloads.
Image == [b64   : {"none", "good", "bad"},
          url   : {"none", "plain", "good", "bad"},
          magic : {"none", "png", "jpeg"},
          mime  : {"none", "png", "jpeg"},
          large : BOOLEAN]

ASSUME ImageCallsAssumption ==
  /\ Outsider \notin Call
  /\ \A c \in Call : Argument[c] \subseteq Arguments
  /\ \A c \in Call : Response[c] \subseteq Seq(Image)
  /\ Setting \subseteq Settings
  /\ MaxRetries \in Nat
  /\ Before \subseteq 1..(MaxRetries + 1)

\* saveInlineImageResult: b64_json goes before a data URI, an address is no payload.
Payload(image) ==
  CASE image.b64 # "none"             -> image.b64
    [] image.b64 = "none" /\ image.url \in {"good", "bad"} -> image.url
    [] OTHER                          -> "none"

\* canonicalFormat; raw base64 has no MIME type but the one of its magic bytes.
CanonicalFormat(image) ==
  CASE image.magic # "none"                      -> image.magic
    [] image.magic = "none" /\ image.b64 = "none" -> image.mime
    [] OTHER                                     -> "none"

\* inlinePayloadByteCount: what cannot be decoded counts nothing.
Exceeds(image) == Payload(image) = "good" /\ image.large

\* extensionForFormat
Extension(format) == IF format = "jpeg" THEN "jpg" ELSE "png"

Cleared(image) ==
  [image EXCEPT !.b64 = "none", !.url = IF @ \in {"good", "bad"} THEN "none" ELSE @]

\* outputFormatMismatchWarning: nothing is said of a format nobody asked for or
\* nobody knows.
Mismatch(asked, format) ==
  asked \in {"png", "jpeg"} /\ format # "none" /\ asked # format

-----------------------------------------------------------------------------
Path == [dir    : {"temp", "site", "given"},
         prefix : {"site", "given"} \cup ImageTool,
         tag    : Tag,
         ext    : {"png", "jpg"},
         n      : 1..(MaxRetries + 1)]

NoPath  == [n |-> 0]
NoArgs  == [tool |-> "none"]
NoSent  == [size |-> "none"]
NoReply == "none"
Empty   == [files |-> << >>, warned |-> {}]

\* The names a call of generate_image with the default policy would choose.
Taken == {[dir |-> "temp", prefix |-> "generate", tag |-> t, ext |-> "png", n |-> n] :
            t \in Tag, n \in Before}

File == [state : {"empty", "part", "whole", "mixed"}, by : Call \cup {Outsider},
         image : Nat, opened : SUBSET ((Call \cup {Outsider}) \X Nat)]

Init ==
  /\ setting \in Setting
  /\ pc     = [c \in Call |-> "new"]
  /\ args   = [c \in Call |-> NoArgs]
  /\ sent   = [c \in Call |-> NoSent]
  /\ answer = [c \in Call |-> << >>]
  /\ result = [c \in Call |-> << >>]
  /\ at     = [c \in Call |-> 0]
  /\ path   = [c \in Call |-> NoPath]
  /\ out    = [c \in Call |-> Empty]
  /\ reply  = [c \in Call |-> NoReply]
  /\ file   = [p \in Taken |-> [state |-> "whole", by |-> Outsider, image |-> 0,
                                opened |-> {<<Outsider, 0>>}]]

\* The call ends: rejected before upstream was asked, failed after, or ok.
End(c, how) ==
  /\ pc' = [pc EXCEPT ![c] = "done"]
  /\ reply' = [reply EXCEPT ![c] = how]

Goto(c, where) == pc' = [pc EXCEPT ![c] = where] /\ UNCHANGED reply

-----------------------------------------------------------------------------
\* Manager.Execute, or SubmitImageTaskHandler.
Execute(c) ==
  /\ pc[c] = "new"
  /\ \E a \in Argument[c] :
       /\ args' = [args EXCEPT ![c] = a]
       /\ IF Admits(a) THEN Goto(c, "handler") ELSE End(c, "rejected")
  /\ UNCHANGED <<setting, sent, answer, result, at, path, out, file>>

\* The handler goes on to the provider with its request, or returns an error.
Request(c, ready, size, parts) ==
  /\ IF ready
       THEN /\ Goto(c, "provider")
            /\ sent' = [sent EXCEPT ![c] = [size |-> size, parts |-> parts]]
       ELSE End(c, "rejected") /\ UNCHANGED sent
  /\ UNCHANGED <<setting, args, answer, result, at, path, out, file>>

\* GenerateImageHandler up to the request.
Generate(c) ==
  LET a == args[c] IN
  /\ pc[c] = "handler" /\ a.tool = "generate"
  /\ Request(c, GenerateTakes(a) /\ HandlerResolves(a, setting), ResolveSize(a), << >>)

\* EditImageHandler up to the request; the image is fetched before, the mask
\* after everything else has been looked at.
Edit(c) ==
  LET a == args[c] IN
  /\ pc[c] = "handler" /\ a.tool = "edit"
  /\ Request(c, /\ EditTakes(a) /\ Decodes(a.inputs[1])
                /\ HandlerResolves(a, setting)
                /\ \A i \in DOMAIN a.mask : Decodes(a.mask[i]),
             ResolveSize(a), << "data" >>)

\* DescribeImageHandler up to the request.
Describe(c) ==
  LET a == args[c] IN
  /\ pc[c] = "handler" /\ a.tool = "describe"
  /\ Request(c, DescribeTakes(a) /\ Prepare(a.inputs[1]) # "error",
             "", << Prepare(a.inputs[1]) >>)

\* CompareImagesHandler up to the request.
Compare(c) ==
  LET a == args[c] IN
  /\ pc[c] = "handler" /\ a.tool = "compare"
  /\ Request(c, /\ CompareTakes(a)
                /\ \A i \in DOMAIN a.inputs :
                     ~Void(a.inputs[i]) /\ Prepare(a.inputs[i]) # "error",
             "", [i \in DOMAIN a.inputs |-> Prepare(a.inputs[i])])

\* GenerateImage and EditImage need a model of their own.
ModelMissing(c) ==
  /\ pc[c] = "provider" /\ args[c].tool \in ImageTool /\ ~setting.imageModel
  /\ End(c, "failed")
  /\ UNCHANGED <<setting, args, sent, answer, result, at, path, out, file>>

Post(c) ==
  /\ pc[c] = "provider" /\ (args[c].tool \in ImageTool => setting.imageModel)
  /\ Goto(c, "wait")
  /\ UNCHANGED <<setting, args, sent, answer, result, at, path, out, file>>

-----------------------------------------------------------------------------
\* doJSON, EditImage: the request cannot be sent, the context is cancelled, the
\* client's timeout passes, the status is not 200, the body cannot be parsed, or
\* it has no choices.
UpstreamFails(c) ==
  /\ pc[c] = "wait"
  /\ End(c, "failed")
  /\ UNCHANGED <<setting, args, sent, answer, result, at, path, out, file>>

\* AnalyzeImage and CompareImages return the text of the first choice.
UpstreamDescribes(c) ==
  /\ pc[c] = "wait" /\ args[c].tool \in VisionTool
  /\ End(c, "ok")
  /\ UNCHANGED <<setting, args, sent, answer, result, at, path, out, file>>

\* The images come to imageToolResult, unless there are none.
UpstreamDraws(c) ==
  /\ pc[c] = "wait" /\ args[c].tool \in ImageTool
  /\ \E images \in Response[c] :
       IF images = << >>
         THEN End(c, "failed") /\ UNCHANGED <<answer, result, at>>
         ELSE /\ Goto(c, "image")
              /\ answer' = [answer EXCEPT ![c] = images]
              /\ result' = [result EXCEPT ![c] = images]
              /\ at' = [at EXCEPT ![c] = 1]
  /\ UNCHANGED <<setting, args, sent, path, out, file>>

-----------------------------------------------------------------------------
\* imageToolResult, one image after the other.

Current(c) == result[c][at[c]]

\* An error of a later image ends the call; the files of the earlier ones stay.
FailImage(c) ==
  /\ End(c, "failed")
  /\ UNCHANGED <<setting, args, sent, answer, result, at, path, out>>

\* Mutant: the index of the loop stays where it is.
SameImage(c, image, format, files) ==
  /\ result' = [result EXCEPT ![c][at[c]] = image]
  /\ IF at[c] = Len(answer[c]) THEN End(c, "ok") ELSE Goto(c, "image")
  /\ path' = [path EXCEPT ![c] = NoPath]
  /\ UNCHANGED <<setting, args, sent, answer, at, out, file>>

\* The image is done with: it is warned about, and the next one is looked at.
NextImage(c, image, format, files) ==
  LET asked == args[c].outputFormat
      noted == \/ Mismatch(asked, format)
               \/ ResponseFormat(args[c]) # "b64_json" /\ Exceeds(Current(c))
  IN
  /\ result' = [result EXCEPT ![c][at[c]] = image]
  /\ out' = [out EXCEPT ![c] =
                [files  |-> @.files \o files,
                 warned |-> IF noted THEN @.warned \cup {at[c]} ELSE @.warned]]
  /\ IF at[c] = Len(answer[c])
       THEN End(c, "ok") /\ UNCHANGED at
       ELSE Goto(c, "image") /\ at' = [at EXCEPT ![c] = @ + 1]
  /\ path' = [path EXCEPT ![c] = NoPath]
  /\ UNCHANGED <<setting, args, sent, answer, file>>

\* b64_json: the payload is returned as it came, unless it is too large.
Inline(c) ==
  /\ pc[c] = "image" /\ ResponseFormat(args[c]) = "b64_json"
  /\ IF Exceeds(Current(c))
       THEN FailImage(c) /\ UNCHANGED file
       ELSE NextImage(c, Current(c),
              IF Payload(Current(c)) = "good" THEN CanonicalFormat(Current(c)) ELSE "none",
              << >>)

\* file_path and url: without a payload there is nothing to save.
NothingToSave(c) ==
  /\ pc[c] = "image" /\ ResponseFormat(args[c]) # "b64_json"
  /\ Payload(Current(c)) = "none"
  /\ NextImage(c, Current(c), "none", << >>)

Undecodable(c) ==
  /\ pc[c] = "image" /\ ResponseFormat(args[c]) # "b64_json"
  /\ Payload(Current(c)) = "bad"
  /\ FailImage(c) /\ UNCHANGED file

\* writeImageBytes: the directory is made and the first name chosen.
ChooseName(c) ==
  LET a   == args[c]
      dir == OutputDir(a, setting)
  IN
  /\ pc[c] = "image" /\ ResponseFormat(a) # "b64_json"
  /\ Payload(Current(c)) = "good"
  /\ \E tag \in Tag :
       path' = [path EXCEPT ![c] =
         [dir    |-> IF dir = "" THEN "temp" ELSE dir,
          prefix |-> OutputPrefix(a, setting),
          tag    |-> tag,
          ext    |-> Extension(CanonicalFormat(Current(c))),
          n      |-> 1]]
  /\ Goto(c, "open")
  /\ UNCHANGED <<setting, args, sent, answer, result, at, out, file>>

Overwrites(c) == Overwrite(args[c], setting)
Exists(p)     == p \in DOMAIN file
Me(c)         == <<c, at[c]>>

\* The file is created or, with overwrite, emptied: content and name are this
\* call's, until another one writes.
Opened(c, old) ==
  file' = [p \in DOMAIN file \cup {path[c]} |->
             IF p = path[c]
               THEN [state |-> "empty", by |-> c, image |-> at[c], opened |-> old \cup {Me(c)}]
               ELSE file[p]]

\* Mutant: O_CREATE without O_EXCL.
OpenShared(c) ==
  /\ pc[c] = "open"
  /\ Opened(c, IF Exists(path[c]) THEN file[path[c]].opened ELSE {})
  /\ Goto(c, "write")
  /\ UNCHANGED <<setting, args, sent, answer, result, at, path, out>>

\* os.OpenFile with O_EXCL or with O_TRUNC.
Open(c) ==
  /\ pc[c] = "open" /\ (Overwrites(c) \/ ~Exists(path[c]))
  /\ Opened(c, IF Exists(path[c]) THEN file[path[c]].opened ELSE {})
  /\ Goto(c, "write")
  /\ UNCHANGED <<setting, args, sent, answer, result, at, path, out>>

\* Mutant: one attempt more than the budget.
NameTakenLate(c) ==
  /\ pc[c] = "open" /\ ~Overwrites(c) /\ Exists(path[c])
  /\ IF path[c].n > MaxRetries + 1
       THEN FailImage(c)
       ELSE /\ path' = [path EXCEPT ![c].n = @ + 1]
            /\ UNCHANGED <<pc, reply, setting, args, sent, answer, result, at, out>>
  /\ UNCHANGED file

\* The name is taken: the next suffix, until the budget is used up.
NameTaken(c) ==
  /\ pc[c] = "open" /\ ~Overwrites(c) /\ Exists(path[c])
  /\ IF path[c].n > MaxRetries
       THEN FailImage(c)
       ELSE /\ path' = [path EXCEPT ![c].n = @ + 1]
            /\ UNCHANGED <<pc, reply, setting, args, sent, answer, result, at, out>>
  /\ UNCHANGED file

\* f.Write and f.Close.  A writer that meets the bytes of another one, opened over
\* the same name, covers them or leaves their end behind its own.
Write(c) ==
  LET old == file[path[c]] IN
  /\ pc[c] = "write"
  /\ \E state \in IF old.state = "empty" THEN {"whole"} ELSE {"whole", "mixed"} :
       file' = [file EXCEPT ![path[c]].state = state, ![path[c]].by = c,
                            ![path[c]].image = at[c]]
  /\ Goto(c, "stat")
  /\ UNCHANGED <<setting, args, sent, answer, result, at, path, out>>

\* It fails and leaves what has been written.
WriteFails(c) ==
  LET old == file[path[c]] IN
  /\ pc[c] = "write"
  /\ \E state \in IF old.state = "empty" THEN {"empty", "part"} ELSE {old.state, "mixed"} :
       file' = [file EXCEPT ![path[c]].state = state]
  /\ FailImage(c)

\* MkdirAll, the random part, OpenFile or Stat fails.
DiskFails(c) ==
  /\ \/ pc[c] \in {"open", "stat"}
     \/ pc[c] = "image" /\ ResponseFormat(args[c]) # "b64_json"
                        /\ Payload(Current(c)) = "good"
  /\ FailImage(c) /\ UNCHANGED file

\* Mutant: the payload stays in the reply beside the file.
SavedInline(c) ==
  /\ pc[c] = "stat"
  /\ NextImage(c, Current(c), CanonicalFormat(Current(c)),
       << [index |-> at[c], path |-> path[c], format |-> CanonicalFormat(Current(c))] >>)

\* buildImageFileInfo: the file takes the place of the payload.
Saved(c) ==
  /\ pc[c] = "stat"
  /\ NextImage(c, Cleared(Current(c)), CanonicalFormat(Current(c)),
       << [index |-> at[c], path |-> path[c], format |-> CanonicalFormat(Current(c))] >>)

-----------------------------------------------------------------------------
\* What a call does by itself, and what it waits for.
Handler(c) ==
  \/ Generate(c) \/ Edit(c) \/ Describe(c) \/ Compare(c)
  \/ ModelMissing(c) \/ Post(c)
  \/ UpstreamFails(c) \/ UpstreamDescribes(c) \/ UpstreamDraws(c)
  \/ Inline(c) \/ NothingToSave(c) \/ Undecodable(c) \/ ChooseName(c)
  \/ Open(c) \/ NameTaken(c) \/ Write(c) \/ WriteFails(c) \/ DiskFails(c) \/ Saved(c)

Next == \E c \in Call : Execute(c) \/ Handler(c)

\* A handler runs when it can; the clients of provider and encoder have timeouts,
\* so that a request ends one way or another (openai.go:45-47, encoder.go:26-29).
Spec == Init /\ [][Next]_vars /\ \A c \in Call : WF_vars(Handler(c))

-----------------------------------------------------------------------------
\* PROPERTIES

ImagesTypeOK ==
  /\ setting \in Setting
  /\ pc \in [Call -> {"new", "handler", "provider", "wait", "image", "open", "write",
                      "stat", "done"}]
  /\ reply \in [Call -> {NoReply, "rejected", "failed", "ok"}]
  /\ \A c \in Call :
       /\ args[c] \in Argument[c] \cup {NoArgs}
       /\ reply[c] # NoReply <=> pc[c] = "done"
       /\ sent[c] = NoSent <=> pc[c] \in {"new", "handler"} \/ reply[c] = "rejected"
       /\ Len(result[c]) = Len(answer[c])
       /\ at[c] \in 0..Len(answer[c])
       /\ \A i \in DOMAIN answer[c] : answer[c][i] \in Image
       /\ path[c] \in Path \cup {NoPath}
       /\ pc[c] \in {"open", "write", "stat"} => path[c] \in Path
  /\ \A p \in DOMAIN file : p \in Path /\ file[p] \in File

\* The directory that would be written to is not an absolute one.
RelativeDir(a, s) ==
  a.dir = "relative" \/ (a.tool \in ImageTool /\ a.dir = "absent" /\ s.dir = "relative")

\* What the tools' schemas and the README say is wrong with the arguments,
\* whichever piece of the code is to look at it.  With b64_json the directory is
\* to be ignored (generate.go:61, edit.go:62, README.md:602, 650).
Broken(a, s) ==
  LET given == Cardinality({i \in DOMAIN a.inputs : ~Void(a.inputs[i])})
      wrong == [prompt    |-> a.tool \in ImageTool /\ a.prompt # "text",
                images    |-> \/ given # Len(a.inputs)
                              \/ a.tool \in {"edit", "describe"} /\ given = 0
                              \/ a.tool = "compare" /\ given \notin 2..4,
                input     |-> \E i \in DOMAIN (a.inputs \o a.mask) :
                                ~(a.inputs \o a.mask)[i].good,
                size      |-> \/ a.size = "other"
                              \/ a.size \in {"absent", "notString"} /\ a.aspect = "other",
                format    |-> "other" \in {a.outputFormat, a.responseFormat},
                n         |-> a.n \in {"2", "null"},
                overwrite |-> a.overwrite = "other",
                policy    |-> \/ a.prefix = "dotted"
                              \/ RelativeDir(a, s) /\ a.responseFormat # "b64_json",
                schema    |-> \/ a.extra \/ a.size = "notString" \/ a.n = "fraction"
                              \/ a.aspect = "other" \/ a.responseFormat = "empty"]
  IN  {rule \in DOMAIN wrong : wrong[rule]}

\* What reaches upstream all the same: an asynchronous call is not held against
\* the schema (async.go:216-220), and the vision tools pass on an address, and
\* what they cannot decode (prepare.go:27-31).
Forgiven(a) ==
  (IF a.route = "task" THEN {"schema"} ELSE {})
    \cup (IF a.tool \in VisionTool THEN {"input"} ELSE {})

\* The size the schemas promise: an explicit one wins, then the aspect ratio, and
\* auto leaves it to upstream (generate.go:31, 36).
PromisedSize(a) ==
  CASE a.tool \in VisionTool                -> ""
    [] a.size \in {"1024x1024", "2048x2048"} -> a.size
    [] OTHER -> CASE a.aspect = "16:9" -> "1536x1024"
                  [] a.aspect = "auto" -> ""
                  [] OTHER             -> "1024x1024"

\* A part of the request is the image of its text: its address, its bytes, none for
\* white space alone, or what could not be decoded as it is.
PartOf(part, in) ==
  CASE part = "url"  -> in.form = "url"
    [] part = "data" -> in.good
    [] OTHER         -> part = "junk" /\ ~in.good

\* Schema, submit and handler together, none of which looks at everything, let
\* through exactly what is documented, and make of it the size and the image parts
\* that are documented.  One thing more is refused: a relative directory that
\* b64_json has no use for (output_path.go:116-119).
RequestFollowsArguments ==
  \A c \in Call :
    LET a == args[c] IN
    /\ reply[c] = "rejected" =>
         Broken(a, setting) # {} \/ (RelativeDir(a, setting) /\ a.responseFormat = "b64_json")
    /\ sent[c] # NoSent =>
         /\ Broken(a, setting) \subseteq Forgiven(a)
         /\ sent[c].size = PromisedSize(a)
         /\ Len(sent[c].parts) = Len(a.inputs)
         /\ \A i \in DOMAIN a.inputs : PartOf(sent[c].parts[i], a.inputs[i])

\* The file was opened again, which takes a call that overwrites.
Disputed(c, f) ==
  \E o \in file[f.path].opened \ {<<c, f.index>>} :
    Overwrites(c) \/ (o[1] # Outsider /\ Overwrites(o[1]))

\* A call that does not overwrite never touches a file that was there or that
\* another call made (generate.go:69): a file a call has saved holds the image it
\* was saved for from then on, also when a later image fails the call, and a suffix
\* is passed over only if it is taken.  A call with leave to overwrite empties what
\* it meets (output_path.go:199), and those files are exempt.
FilesKept ==
  /\ \A c \in Call : \A i \in DOMAIN out[c].files :
       LET f == out[c].files[i]
           kept == [state |-> "whole", by |-> c, image |-> f.index,
                    opened |-> {<<c, f.index>>}]
       IN  file[f.path] = kept \/ Disputed(c, f)
  /\ \A p \in Taken :
       file[p].by = Outsider \/ \E o \in file[p].opened :
                                  o[1] # Outsider /\ Overwrites(o[1])
  /\ \A p \in DOMAIN file : p.n > 1 /\ p \notin Taken => [p EXCEPT !.n = @ - 1] \in DOMAIN file

\* A successful reply accounts for every image: with b64_json nothing is written and
\* nothing beyond the limit returned; else what had a payload is in a file, once,
\* and its payload is gone; a format other than the one asked for is never passed
\* over in silence; and no file the call opened is left out (image_result.go:38-73).
ReplyAccounts ==
  \A c \in Call : reply[c] = "ok" /\ args[c].tool \in ImageTool =>
    LET images == answer[c]
        saved  == IF ResponseFormat(args[c]) = "b64_json" THEN {}
                  ELSE {i \in DOMAIN images : Payload(images[i]) # "none"}
    IN
    /\ \A i \in DOMAIN images :
         /\ Cardinality({k \in DOMAIN out[c].files : out[c].files[k].index = i})
              = IF i \in saved THEN 1 ELSE 0
         /\ i \in saved => Payload(result[c][i]) = "none" /\ result[c][i].url # "good"
         /\ i \notin saved => result[c][i] = images[i] /\ ~Exceeds(images[i])
         /\ i \notin out[c].warned /\ args[c].outputFormat # "absent"
               /\ Payload(images[i]) = "good" /\ images[i].magic # "none" =>
              images[i].magic = args[c].outputFormat
    /\ \A p \in DOMAIN file : \A o \in file[p].opened :
         o[1] = c => \E k \in DOMAIN out[c].files : out[c].files[k].path = p

\* Every call that was taken up is answered, whatever becomes of upstream, of the
\* disk and of the names it tries.
EveryCallEnds == \A c \in Call : pc[c] # "new" ~> pc[c] = "done"
=============================================================================
