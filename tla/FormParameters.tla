--------------------------- MODULE FormParameters ---------------------------
(***************************************************************************)
(* What webclient::submit sends for a form: the parameters of the page     *)
(* (util::extract_parameters), with those the script gives filled in.      *)
(*                                                                         *)
(* A form is the sequence of its tags: controls, and the opening and       *)
(* closing of the elements around them, whose recursive calls are the      *)
(* stack of the fold.  A name is a tuple: <<>> is the empty one, and the   *)
(* coordinates of an image are its name with one more element.             *)
(***************************************************************************)
EXTENDS Naturals, SequencesExt, Functions

Tag(type, name, value) == [type |-> type, name |-> name, value |-> value]
Open == Tag("open", <<>>, <<>>)
Close == Tag("close", <<>>, <<>>)

\* An input or a button that is no image; only the type "submit" matters.
Input(name, value) == Tag("input", name, <<value>>)
SubmitInput(name) == Tag("submit", name, <<"label">>)
Image(name) == Tag("image", name, <<>>)

\* With the values of the selected options.
Select(name, selected) == Tag("select", name, selected)

NoSubmit == 0     \* extract_parameters is called with submit == node

-----------------------------------------------------------------------------
Param(name, value) == <<name, value>>

\* The two coordinates of an image input.
Coordinates(name) == <<Param(Append(name, "x"), ""), Param(Append(name, "y"), "")>>

\* The condition under which an input is stored, i being its place in the form.
Stored(form, i, submit, found) ==
  /\ form[i].name # <<>>
  /\ \/ form[i].type # "submit"
     \/ i = submit
     \/ submit = NoSubmit /\ ~found

\* One child node.  found is a local variable of each call: its value goes into
\* the calls for the children and does not come back.
Visit(form, submit, acc, i) ==
  LET tag == form[i]
      found == Head(acc.found)
  IN  CASE tag.type = "open" -> [acc EXCEPT !.found = <<found>> \o @]
        [] tag.type = "close" -> [acc EXCEPT !.found = Tail(@)]
        [] tag.type = "image" ->
             [acc EXCEPT !.params = @ \o IF tag.name = <<>> THEN <<>>
                                          ELSE Coordinates(tag.name)]
        [] tag.type = "select" ->
             [acc EXCEPT !.params =
                @ \o IF tag.name = <<>> THEN <<>>
                     ELSE [k \in 1..Len(tag.value) |-> Param(tag.name, tag.value[k])]]
        [] tag.type \in {"input", "submit"} ->
             IF Stored(form, i, submit, found)
             THEN [params |-> Append(acc.params, Param(tag.name, tag.value[1])),
                   found |-> <<found \/ tag.type = "submit">> \o Tail(acc.found)]
             ELSE acc

ExtractParameters(form, submit) ==
  FoldLeft(LAMBDA acc, i : Visit(form, submit, acc, i),
           [params |-> <<>>, found |-> <<FALSE>>],
           [i \in 1..Len(form) |-> i]).params

-----------------------------------------------------------------------------
\* A parameter of the page: a given value is used once and then erased.
FillIn(acc, p) ==
  IF p[1] \in DOMAIN acc.left
  THEN [sent |-> Append(acc.sent, Param(p[1], acc.left[p[1]])),
        left |-> Restrict(acc.left, DOMAIN acc.left \ {p[1]})]
  ELSE [acc EXCEPT !.sent = Append(@, p)]

Filled(params, given) ==
  FoldLeft(LAMBDA acc, p : FillIn(acc, p), [sent |-> <<>>, left |-> given], params)

\* What the XPath of a call selects: an expression that is none, no node, a form,
\* a node of the form at the place at, or a submit element outside of any form.
Target(kind, at) == [kind |-> kind, at |-> at]

Submission(error, sent) == [error |-> error, sent |-> sent]

\* webclient::submit up to the request: the error code, or what is sent.
Submit(form, target, given) ==
  LET submit == IF target.kind = "form" THEN NoSubmit ELSE target.at
      filled == Filled(ExtractParameters(form, submit), given)
  IN  CASE target.kind = "invalid" -> Submission("INVALID_XPATH", <<>>)
        [] target.kind = "none" -> Submission("NO_FORM_OR_SUBMIT", <<>>)
        [] target.kind = "outside" -> Submission("SUBMIT_NOT_IN_FORM", <<>>)
        [] target.kind = "node" /\ form[target.at].type # "submit" ->
             Submission("NO_FORM_OR_SUBMIT", <<>>)
        [] OTHER -> IF DOMAIN filled.left # {}
                    THEN Submission("PARAM_MISMATCH", <<>>)
                    ELSE Submission("none", filled.sent)

=============================================================================
