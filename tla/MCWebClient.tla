---------------------------- MODULE MCWebClient ----------------------------
(***************************************************************************)
(* Two requests at a time, one redirect and one retry each; headers and    *)
(* forms that bring out every branch.                                      *)
(***************************************************************************)
EXTENDS WebClient, TLC

CONSTANTS r1, r2

MCSlots == {r1, r2}

\* A session, another one, none at all, one that ends, and the forms the parser is
\* weak on.
MCHeaders ==
  {<<>>,
   <<SetCookie("sid", "1", "some")>>,
   <<SetCookie("sid", "1", "some"), SetCookie("sid", "2", "some"),
     SetCookie("theme", "1", "some")>>,
   <<SetCookie("sid", "2", "none")>>,
   <<SetCookie("sid", "1", "expired")>>,
   <<SetCookie("theme", "", "some"), SetCookie("sid", "1", "some")>>}

\* A login form with two submit elements, and a list with one for every row.
LoginForm == <<Input(<<"user">>, "old"), Open, Input(<<"pass">>, ""), Close,
               SubmitInput(<<"login">>), SubmitInput(<<"cancel">>), Input(<<>>, "")>>
ListForm == <<Open, Input(<<"item">>, "1"), SubmitInput(<<"buy">>), Close,
              Open, Input(<<"item">>, "2"), SubmitInput(<<"sell">>), Close,
              Image(<<"map">>), Select(<<"town">>, <<"north", "south">>)>>

FormTarget == Target("form", 0)
NodeTarget(i) == Target("node", i)

MCCalls ==
  {PlainCall,
   FormCall(LoginForm, FormTarget, <<"user">> :> "new"),
   FormCall(LoginForm, NodeTarget(6), <<"user">> :> "new" @@ <<"pass">> :> "new"),
   FormCall(LoginForm, NodeTarget(1), <<>>),
   FormCall(LoginForm, FormTarget, <<"item">> :> "new"),
   FormCall(ListForm, FormTarget, <<"item">> :> "new"),
   FormCall(ListForm, NodeTarget(7), <<"town">> :> "new" @@ <<"map", "x">> :> "new"),
   FormCall(ListForm, Target("outside", 1), <<>>),
   FormCall(ListForm, Target("none", 1), <<>>),
   FormCall(ListForm, Target("invalid", 1), <<>>)}

Symmetry == Permutations(MCSlots)

=============================================================================
