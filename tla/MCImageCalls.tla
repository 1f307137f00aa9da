---------------------------- MODULE MCImageCalls ----------------------------
\* ImageCalls with arguments that are right or wrong in one respect, and answers
\* of one or two images.
EXTENDS ImageCalls

CONSTANTS c1, c2, g1

In(form, good)   == [form |-> form, spaced |-> FALSE, good |-> good]
Spaced(in)       == [in EXCEPT !.spaced = TRUE]
Picture          == In("base64", TRUE)

Base(tool) ==
  [tool |-> tool, route |-> "sync", extra |-> FALSE,
   prompt |-> IF tool \in ImageTool THEN "text" ELSE "absent",
   inputs |-> CASE tool = "generate" -> << >>
                [] tool = "compare"  -> << Picture, In("url", TRUE) >>
                [] OTHER             -> << Picture >>,
   mask |-> << >>, size |-> "absent", aspect |-> "absent", outputFormat |-> "absent",
   responseFormat |-> "absent", n |-> "absent", overwrite |-> "absent",
   dir |-> "absent", prefix |-> "absent"]

\* One respect at a time, and those that take two.
Varied(a) ==
  {a} \cup {[a EXCEPT !.extra = TRUE]}
      \cup {[a EXCEPT !.prompt = v] : v \in {"absent", "empty"}}
      \cup {[a EXCEPT !.size = v] : v \in {"notString", "other", "2048x2048"}}
      \cup {[a EXCEPT !.aspect = v] : v \in {"other", "auto", "16:9"}}
      \cup {[a EXCEPT !.size = "1024x1024", !.aspect = v] : v \in {"16:9", "other"}}
      \cup {[a EXCEPT !.outputFormat = v] : v \in {"other", "jpeg"}}
      \cup {[a EXCEPT !.responseFormat = v] : v \in {"empty", "other", "b64_json"}}
      \cup {[a EXCEPT !.n = v] : v \in {"fraction", "null", "2"}}
      \cup {[a EXCEPT !.overwrite = v] : v \in {"null", "other", "true", "false"}}
      \cup {[a EXCEPT !.dir = v] : v \in {"relative", "given"}}
      \cup {[a EXCEPT !.responseFormat = "b64_json", !.dir = v] : v \in {"relative", "given"}}
      \cup {[a EXCEPT !.prefix = v] : v \in {"dotted", "given"}}

Inputs(a) ==
  LET in == {In(form, good) : form \in {"url", "file", "data", "base64"}, good \in BOOLEAN}
  IN  {[a EXCEPT !.inputs[1] = i] : i \in in \cup {Spaced(i) : i \in in}}
        \cup {[a EXCEPT !.inputs = << >>], [a EXCEPT !.inputs[1] = In("empty", TRUE)],
         [a EXCEPT !.inputs[1] = Spaced(In("empty", TRUE))]}

Tasked(S) == S \cup {[a EXCEPT !.route = "task"] : a \in S}

Anything ==
  Tasked(Varied(Base("generate")) \cup Inputs(Base("edit"))
           \cup {[Base("edit") EXCEPT !.mask = << in >>] :
                   in \in {In("file", TRUE), In("file", FALSE), Spaced(In("empty", TRUE))}})
    \cup Inputs(Base("describe")) \cup Inputs(Base("compare"))
    \cup {[Base("compare") EXCEPT !.inputs = << Picture >>]}

Png  == [b64 |-> "good", url |-> "none", magic |-> "png", mime |-> "none", large |-> FALSE]
Answers ==
  {<< >>, << Png >>, << Png, Png >>,
   << [Png EXCEPT !.large = TRUE] >>,
   << [Png EXCEPT !.b64 = "bad"] >>,
   << Png, [Png EXCEPT !.b64 = "none", !.url = "bad"] >>,
   << [Png EXCEPT !.b64 = "none", !.url = "plain", !.magic = "none"] >>,
   << [Png EXCEPT !.b64 = "none", !.url = "good", !.magic = "jpeg", !.mime = "png"] >>,
   << [Png EXCEPT !.b64 = "none", !.url = "good", !.magic = "none", !.mime = "jpeg"] >>}

\* One call with any of these, beside one that does or does not overwrite.
MCArgument == [c \in Call |->
  IF c = c1 THEN Anything
  ELSE {Base("generate"), [Base("generate") EXCEPT !.overwrite = "true"]}]
MCResponse == [c \in Call |-> IF c = c1 THEN Answers ELSE {<< Png, Png >>}]

MCSetting ==
  {[dir |-> "", prefix |-> "", overwrite |-> FALSE, imageModel |-> TRUE],
   [dir |-> "site", prefix |-> "site", overwrite |-> TRUE, imageModel |-> TRUE],
   [dir |-> "relative", prefix |-> "", overwrite |-> FALSE, imageModel |-> FALSE]}
=============================================================================
