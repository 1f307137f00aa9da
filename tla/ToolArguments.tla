--------------------------- MODULE ToolArguments ---------------------------
(***************************************************************************)
(* What the image and vision tools make of their arguments: the schema     *)
(* check of service/tool/manager.go, the checks of the handlers in tools/, *)
(* the resolution of size, formats and output policy, and the preparation  *)
(* of input images (image/encoder.go, image/prepare.go).                   *)
(*                                                                         *)
(* Arguments are one record for all tools.  A field has its value, or says *)
(* how the argument is wrong; text is kept only where something is chosen  *)
(* by it.                                                                  *)
(***************************************************************************)
EXTENDS Integers, Sequences

\* The deployment's part: OPENPIC_OUTPUT_DIR, OPENPIC_FILENAME_PREFIX,
\* OPENPIC_OVERWRITE, and whether OPENPIC_IMAGE_MODEL is set.
Settings == [dir        : {"", "site", "relative"},
             prefix     : {"", "site"},
             overwrite  : BOOLEAN,
             imageModel : BOOLEAN]

ImageTool  == {"generate", "edit"}
VisionTool == {"describe", "compare"}

\* An input image: its form, whether white space stands around it, and whether
\* it can be read and decoded.  The empty text decodes to no bytes, and so does
\* white space alone.
Input == {in \in [form   : {"empty", "url", "file", "data", "base64"},
                 spaced : BOOLEAN,
                 good   : BOOLEAN] : in.form = "empty" => in.good}

\* "" is no image for any of the checks; white space alone is one.
Void(in) == in.form = "empty" /\ ~in.spaced

\* The arguments of all tools; what a tool does not have is absent, an empty mask
\* is none, and anything else that is given is extra.
Arguments ==
  {a \in
    [tool           : ImageTool \cup VisionTool,
     route          : {"sync", "task"},    \* tools/call, or submit_image_task
     extra          : BOOLEAN,             \* a parameter the schema does not name
     prompt         : {"absent", "empty", "text"},
     inputs         : Seq(Input),          \* image or images
     mask           : Seq(Input),
     size           : {"absent", "notString", "other", "1024x1024", "2048x2048"},
     aspect         : {"absent", "other", "1:1", "16:9", "auto"},
     outputFormat   : {"absent", "other", "png", "jpeg"},
     responseFormat : {"absent", "empty", "other", "file_path", "url", "b64_json"},
     n              : {"absent", "fraction", "null", "1", "2"},
     overwrite      : {"absent", "null", "other", "true", "false"},
     dir            : {"absent", "relative", "given"},
     prefix         : {"absent", "dotted", "given"}] :
   /\ a.tool = "generate" => a.inputs = << >>
   /\ a.tool \in {"edit", "describe"} => Len(a.inputs) <= 1
   /\ IF a.tool = "edit" THEN Len(a.mask) <= 1 /\ \A i \in DOMAIN a.mask : ~Void(a.mask[i])
                         ELSE a.mask = << >>
   /\ a.tool \in VisionTool =>
        /\ a.route = "sync"
        /\ {a.size, a.aspect, a.outputFormat, a.responseFormat, a.n, a.overwrite, a.dir,
            a.prefix} = {"absent"}}

-----------------------------------------------------------------------------
\* Manager.Execute

\* validateArguments: unknown and missing parameters, types and enums.  A
\* boolean is not checked, null passes for any type, and "" is not in an enum.
SchemaAccepts(a) ==
  /\ ~a.extra
  /\ a.tool \in ImageTool => a.prompt # "absent"
  /\ a.tool # "generate" => a.inputs # << >>
  /\ "other" \notin {a.size, a.aspect, a.outputFormat, a.responseFormat}
  /\ a.responseFormat # "empty"
  /\ a.size # "notString"
  /\ a.n # "fraction"

\* submit_image_task looks at params itself, and its worker calls the handler
\* without the manager.
SubmitAccepts(a) ==
  /\ a.tool \in ImageTool
  /\ a.prompt = "text"
  /\ a.tool = "edit" => a.inputs # << >> /\ ~Void(a.inputs[1])
  /\ a.responseFormat # "other"

Admits(a) == IF a.route = "task" THEN SubmitAccepts(a) ELSE SchemaAccepts(a)

-----------------------------------------------------------------------------
\* The handlers' own checks.

GenerateTakes(a) == a.prompt = "text"
EditTakes(a)     == a.inputs # << >> /\ ~Void(a.inputs[1]) /\ a.prompt = "text"
DescribeTakes(a) == a.inputs # << >> /\ ~Void(a.inputs[1])
CompareTakes(a)  == Len(a.inputs) \in 2..4   \* each is looked at in its turn

Unsupported == "unsupported"

\* Mutant: an aspect ratio is looked at before an explicit size.
AspectFirst(a) ==
  CASE a.aspect = "1:1"  -> "1024x1024"
    [] a.aspect = "16:9" -> "1536x1024"
    [] a.aspect = "auto" -> ""
    [] OTHER -> IF a.size \in {"1024x1024", "2048x2048"} THEN a.size ELSE "1024x1024"

\* resolveImageSize; stringArg gives "" for what is not a string, and "" is
\* what leaves the field out of the request.
ResolveSize(a) ==
  CASE a.size = "other" -> Unsupported
    [] a.size \in {"1024x1024", "2048x2048"} -> a.size
    [] OTHER -> CASE a.aspect \in {"absent", "1:1"} -> "1024x1024"
                  [] a.aspect = "16:9"  -> "1536x1024"
                  [] a.aspect = "auto"  -> ""
                  [] a.aspect = "other" -> Unsupported

\* intArg: an absent n is 1; null, and a fraction cut off below 2, are not.
IntArg(a) == CASE a.n \in {"absent", "1", "fraction"} -> 1
               [] a.n = "null" -> 0
               [] a.n = "2"    -> 2

ResponseFormat(a) ==
  IF a.responseFormat \in {"absent", "empty"} THEN "file_path" ELSE a.responseFormat

\* parseBoolArg, and resolveOutputPolicy for the flag.
Overwrite(a, s) ==
  IF a.overwrite \in {"true", "false"} THEN a.overwrite = "true" ELSE s.overwrite

\* resolveOutputPolicy for the directory; "" becomes the temporary one when a
\* file is written.
OutputDir(a, s) == IF a.dir # "absent" THEN a.dir ELSE s.dir

OutputPrefix(a, s) ==
  IF a.prefix # "absent" THEN a.prefix ELSE IF s.prefix # "" THEN s.prefix ELSE a.tool

\* The checks of generate_image and edit_image up to the output policy.
HandlerResolves(a, s) ==
  /\ ResolveSize(a) # Unsupported
  /\ a.outputFormat # "other"
  /\ a.responseFormat # "other"
  /\ IntArg(a) = 1
  /\ a.overwrite # "other"
  /\ OutputDir(a, s) # "relative"
  /\ OutputPrefix(a, s) # "dotted"

-----------------------------------------------------------------------------
\* Input images

\* DecodeInput trims, then reads, downloads or decodes.
Decodes(in) == in.good

\* PrepareForVision and the part made of its result: an address as it is, or a
\* data URI.  It looks at the untrimmed text, so that anything with white space
\* before it is decoded as the last resort, where a failure is forgiven and the
\* text itself is wrapped into the data URI.
Prepare(in) ==
  CASE in.form = "url" /\ ~in.spaced -> "url"
    [] in.form \in {"file", "data"} /\ ~in.spaced ->
         IF Decodes(in) THEN "data" ELSE "error"
    [] OTHER -> IF Decodes(in) THEN "data" ELSE "junk"
=============================================================================
