------------------------------- MODULE MCConfig -------------------------------
(* A small instance of Config: every file that is put together from a few       *)
(* prefixes, themes and tables of bindings.                                    *)
EXTENDS Config

StandardConfig ==
  [prefix |-> Key("Char", " ", {"ctrl"}), exit |-> "hold", settings |-> [mouse |-> "on"],
   theme |-> [accent |-> "#7aa2f7", border |-> "#3b4261"], position |-> "bottom",
   keybindings |-> Key("Char", "x", {}) :> "close_pane" @@ Key("Special", "Escape", {}) :> "exit_mode"]

ManyCharacters == {"a", "x", "f", "|"}
ManyFunctionWords == "f" :> 0 @@ "f5" :> 5 @@ "f13" :> 13
SmallSpelling == "A" :> "a" @@ "X" :> "x" @@ "ESC" :> "esc"

\* Two names of one key, a key that is bound by default, keys that mean nothing.
Tables ==
  {<<>>,
   KeyName("none", "x") :> "detach" @@ KeyName("none", "X") :> "zoom_pane",
   KeyName("none", "esc") :> "detach" @@ KeyName("none", "escape") :> "detach",
   KeyName("none", "f") :> "detach" @@ KeyName("alt", "f13") :> "detach"
     @@ KeyName("none", "a") :> "go_to_window",
   KeyName("ctrl", "f5") :> "next_window" @@ KeyName("none", "|") :> "sing"}
Themes == {<<>>, [accent |-> "#ff0000"], [accent |-> "red", border |-> "#ff"], [border |-> "#_cut"]}

\* Everything wrong or right in a file but its bindings, and bindings beside a
\* theme, so that errors come together.
ManyFiles ==
  {RawConfig(p, e, s, t, o, <<>>) :
     p \in {{}, {KeyName("ctrl", "A")}, {KeyName("ctrl", "ab")}}, e \in {{}, {"close"}, {"explode"}},
     s \in {[mouse |-> "off"]}, t \in Themes, o \in {{}, {"left"}}}
  \cup
  {RawConfig({}, e, <<>>, t, o, k) :
     e \in {{}, {"explode"}}, t \in Themes, o \in {{}, {"top"}}, k \in Tables}
=============================================================================
