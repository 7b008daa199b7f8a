----------------------------- MODULE MCBotConfig -----------------------------
(* Two modules; farm has a default for speed, none for mode.               *)
EXTENDS BotConfig

MCModuleOrder == <<"farm", "shared", "trade">>
MCVariableOrder == <<"active", "mode", "speed", "x">>
MCDefaults == <<"farm", "speed">> :> Text("0")

Ref(x) == [sigil |-> "^", text |-> x]
Use(x) == [sigil |-> "$", text |-> x]
MCSettable == {Factor, Active("farm"), <<"farm", "speed">>, <<"shared", "x">>}
MCArguments == {Text("0"), Text("1"), Ref("x"), Text("bad")}

Base(f) == Factor :> Text(f)
MCConfigurations ==
  { Base("2") @@ Active("farm") :> Text("1") @@
      <<"farm", "speed">> :> Text("1") @@ <<"farm", "mode">> :> Ref("x"),
    Base("") @@ <<"farm", "speed">> :> Ref("x") @@ <<"farm", "name">> :> Text("1")
      @@ <<"trade", "mode">> :> Use("x") @@ Active("trade") :> Text("1") }
=============================================================================
