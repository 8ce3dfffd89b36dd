--------------------------------- MODULE Config ---------------------------------
(***************************************************************************)
(* The configuration in force while its file is edited, removed and        *)
(* spoilt (config/mod.rs), and how a file is checked and completed         *)
(* (config/validate.rs). An optional value is a set of at most one.        *)
(***************************************************************************)
EXTENDS Integers, FiniteSets, TLC

CONSTANTS
  Files,           \* what a readable file may say, a set of RawConfigs
  Defaults,        \* ValidatedConfig::default
  Characters,      \* printable ASCII characters, as far as they are used
  FunctionWords,   \* words of at most three bytes that begin with f, and the
                   \* number that follows, 0 where none does
  Lower,           \* the words that have capitals, and their small spelling
  GoodColours,     \* texts of the form #rrggbb
  CutColours       \* texts of seven bytes where a character lies across a place
                   \* at which parse_hex_color cuts

\* A name in the file is a modifier and a word.
KeyName(modifier, word) == [modifier |-> modifier, word |-> word]
Key(kind, value, modifiers) == [kind |-> kind, value |-> value, modifiers |-> modifiers]

\* RawConfig: the prefix and the exit behaviour, what is taken as it is, the colours
\* of the theme, the position of the status bar, the bindings.
RawConfig(prefix, exit, settings, theme, position, keybindings) ==
  [prefix |-> prefix, exit |-> exit, settings |-> settings, theme |-> theme,
   position |-> position, keybindings |-> keybindings]

\* Option: what the file says, or nothing.
AtMostOne(option) == \A x, y \in option : x = y

ASSUME ConfigAssumption ==
  /\ \A raw \in Files : /\ IsFiniteSet(DOMAIN raw.keybindings)
                        /\ DOMAIN raw.theme \subseteq DOMAIN Defaults.theme
                        /\ DOMAIN raw.settings \subseteq DOMAIN Defaults.settings
                        /\ AtMostOne(raw.prefix) /\ AtMostOne(raw.exit) /\ AtMostOne(raw.position)
  /\ GoodColours \cap CutColours = {}

Missing == "missing"
Unreadable == "unreadable"
Garbled == "garbled"      \* not TOML, or a value of the wrong type

VARIABLES
  file,       \* [kind |-> ...] and, of a readable one, what it says
  config,     \* the ValidatedConfig in force
  source,     \* auxiliary: the kind of the file that was read last
  accepted,   \* auxiliary: what the last file without errors said
  reported,   \* the errors of the file read last, as the places they are at
  panicked    \* whether reading it has panicked

\* Names of its own, so that it can be used beside another component.
configVars == <<file, config, source, accepted, reported, panicked>>

-----------------------------------------------------------------------------
(* Names of keys *)

SpecialNames ==
  "enter" :> "Enter" @@ "return" :> "Enter" @@ "escape" :> "Escape" @@ "esc" :> "Escape"
  @@ "backspace" :> "Backspace" @@ "bs" :> "Backspace" @@ "tab" :> "Tab"
  @@ "up" :> "Up" @@ "down" :> "Down" @@ "left" :> "Left" @@ "right" :> "Right"
  @@ "home" :> "Home" @@ "end" :> "End" @@ "pageup" :> "PageUp" @@ "pgup" :> "PageUp"
  @@ "pagedown" :> "PageDown" @@ "pgdn" :> "PageDown" @@ "delete" :> "Delete"
  @@ "del" :> "Delete" @@ "insert" :> "Insert" @@ "ins" :> "Insert"

\* parse_bare_key: f by itself is taken for a function key without a number.
ParseBareKey(word, modifiers) ==
  CASE word \in DOMAIN SpecialNames -> {Key("Special", SpecialNames[word], modifiers)}
    [] word = "space" -> {Key("Char", " ", modifiers)}
    [] word \in DOMAIN FunctionWords ->
         IF FunctionWords[word] \in 1..12 THEN {Key("F", FunctionWords[word], modifiers)} ELSE {}
    [] word \in Characters \ DOMAIN FunctionWords -> {Key("Char", word, modifiers)}
    [] OTHER -> {}

\* parse_key: capitals do not count, not even of a character by itself. The
\* result is empty for a name that means no key.
ParseKey(name) ==
  ParseBareKey(IF name.word \in DOMAIN Lower THEN Lower[name.word] ELSE name.word,
               {name.modifier} \ {"none"})

\* action_to_command, of which every command but GoToWindow has a name.
Actions ==
  {"split_vertical", "split_horizontal", "close_pane", "zoom_pane", "navigate_left",
   "navigate_down", "navigate_up", "navigate_right", "create_window", "next_window",
   "prev_window", "rename_window", "close_window", "detach", "session_picker",
   "rename_session", "enter_resize_mode", "enter_copy_mode", "resize_left", "resize_down",
   "resize_up", "resize_right", "equalize_splits", "exit_mode"}

-----------------------------------------------------------------------------
(* Validation *)

ExitBehaviors == {"close", "hold", "respawn"}
Positions == {"top", "bottom"}

\* A value or its default.
Over(given, default) == [field \in DOMAIN default |-> IF field \in DOMAIN given THEN given[field]
                                                      ELSE default[field]]
Else(option, default) == IF option = {} THEN default ELSE CHOOSE value \in option : TRUE

\* Mutant: a colour that is none is replaced, and nothing is said of it.
ThemeErrors_Silent(raw) == {}

\* color_field!: a colour that is none is replaced and reported.
ThemeErrors(raw) == {<<"theme", field>> : field \in {f \in DOMAIN raw.theme : raw.theme[f] \notin GoodColours}}
ValidateTheme(raw) ==
  Over([field \in {f \in DOMAIN raw.theme : raw.theme[f] \in GoodColours} |-> raw.theme[field]],
       Defaults.theme)

\* validate_keybindings: one error for each entry whose key or whose action is wrong.
BindingErrors(raw) ==
  {<<"keybindings", name>> : name \in
     {n \in DOMAIN raw.keybindings : ParseKey(n) = {} \/ raw.keybindings[n] \notin Actions}}

\* The entries go into the map in the order of a HashMap, which is any: of two
\* names of one key, either may be the last.
BoundKeys(raw) == UNION {ParseKey(name) : name \in DOMAIN raw.keybindings}
NamesOf(raw, key) == {name \in DOMAIN raw.keybindings : ParseKey(name) = {key}}
Merges(raw) ==
  LET last == {f \in [BoundKeys(raw) -> DOMAIN raw.keybindings] :
                 \A key \in BoundKeys(raw) : f[key] \in NamesOf(raw, key)}
      merged(f) == [key \in BoundKeys(raw) \cup DOMAIN Defaults.keybindings |->
                      IF key \in BoundKeys(raw) THEN raw.keybindings[f[key]]
                      ELSE Defaults.keybindings[key]]
  IN  {merged(f) : f \in last}

\* validate. An unknown position is no error.
Errors(raw) ==
  (IF \E name \in raw.prefix : ParseKey(name) = {} THEN {<<"prefix">>} ELSE {})
  \cup (IF raw.exit \subseteq ExitBehaviors THEN {} ELSE {<<"exit">>})
  \cup ThemeErrors(raw) \cup BindingErrors(raw)
Validated(raw) ==
  {[prefix |-> Else(UNION {ParseKey(name) : name \in raw.prefix}, Defaults.prefix),
    exit |-> Else(raw.exit, Defaults.exit),
    settings |-> Over(raw.settings, Defaults.settings),
    theme |-> ValidateTheme(raw),
    position |-> Else(raw.position \cap Positions, Defaults.position),
    keybindings |-> merged] : merged \in Merges(raw)}

\* parse_hex_color cuts the text at fixed bytes.
Panics(raw) == \E field \in DOMAIN raw.theme : raw.theme[field] \in CutColours

-----------------------------------------------------------------------------
Unread == "unread"
Contents == {[kind |-> kind] : kind \in {Missing, Unreadable, Garbled}}
            \cup {[kind |-> "raw", raw |-> raw] : raw \in Files}

\* load_config_from_str_inner, of the text that was read. The code falls back to
\* the default configuration, after a reload too.
Take ==
  /\ source' = file.kind
  /\ \/ /\ file.kind = Garbled
        /\ config' = Defaults /\ reported' = {} /\ UNCHANGED <<accepted, panicked>>
     \/ /\ file.kind = "raw" /\ ~Panics(file.raw)
        /\ reported' = Errors(file.raw)
        /\ config' \in IF Errors(file.raw) = {} THEN Validated(file.raw) ELSE {Defaults}
        /\ accepted' = IF Errors(file.raw) = {} THEN {file.raw} ELSE accepted
        /\ UNCHANGED panicked
     \/ /\ file.kind = "raw" /\ Panics(file.raw)
        /\ panicked' = TRUE /\ UNCHANGED <<config, accepted, reported>>
  /\ UNCHANGED file

NotRead == file.kind \in {Missing, Unreadable}

ConfigInit ==
  /\ file \in Contents
  /\ config = Defaults /\ source = Unread /\ accepted = {} /\ reported = {} /\ panicked = FALSE

\* load_config, when the program starts.
Load ==
  /\ source = Unread /\ ~panicked
  /\ IF NotRead THEN source' = file.kind /\ UNCHANGED <<file, config, accepted, reported, panicked>>
     ELSE Take

\* reload_config: a file that cannot be read leaves everything as it is.
Reload ==
  /\ source # Unread /\ ~panicked
  /\ IF NotRead THEN UNCHANGED configVars ELSE Take

\* The program ends, by a panic or otherwise.
Exit ==
  /\ source # Unread
  /\ config' = Defaults /\ source' = Unread /\ accepted' = {} /\ reported' = {} /\ panicked' = FALSE
  /\ UNCHANGED file

\* The user edits the file, removes it, or is in the middle of writing it.
Edit ==
  /\ file' \in Contents \ {file}
  /\ UNCHANGED <<config, source, accepted, reported, panicked>>

ConfigNext == Load \/ Reload \/ Exit \/ Edit

ConfigSpec == ConfigInit /\ [][ConfigNext]_configVars
-----------------------------------------------------------------------------
(* Properties.                                                               *)

\* What a file says is in force: each value that is given, and the default of
\* each that is not. Of a key with several names one action is in force; a
\* position that is none is passed over.
Honours(c, raw) ==
  /\ \A name \in raw.prefix : ParseKey(name) = {c.prefix}
  /\ \A exit \in raw.exit : c.exit = exit
  /\ \A field \in DOMAIN c.settings :
       c.settings[field] = IF field \in DOMAIN raw.settings THEN raw.settings[field]
                           ELSE Defaults.settings[field]
  /\ \A field \in DOMAIN c.theme :
       c.theme[field] = IF field \in DOMAIN raw.theme THEN raw.theme[field] ELSE Defaults.theme[field]
  /\ \A position \in raw.position : c.position = position \/ position \notin Positions
  /\ \A name \in DOMAIN raw.keybindings :
       \E same \in DOMAIN raw.keybindings :
         /\ ParseKey(same) = ParseKey(name)
         /\ \A key \in ParseKey(name) :
              key \in DOMAIN c.keybindings /\ c.keybindings[key] = raw.keybindings[same]
  /\ \A key \in DOMAIN Defaults.keybindings :
       (\A name \in DOMAIN raw.keybindings : key \notin ParseKey(name)) =>
         c.keybindings[key] = Defaults.keybindings[key]

\* A file takes effect as a whole or not at all: a file without errors is in force
\* with all it says, and one with errors, of which none goes unreported, leaves
\* nothing of itself in force: what is, is the defaults or all that the last file
\* without errors said. No edit, failed read or reload leaves a mixture of two
\* files, or of a file and the defaults (load_config_from_str_inner, validate).
FileIsHonouredOrRefused ==
  ~panicked =>
    \/ \E raw \in accepted : Honours(config, raw)
    \/ config = Defaults /\ (source = "raw" => reported # {})

=============================================================================
