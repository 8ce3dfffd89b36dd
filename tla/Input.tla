--------------------------------- MODULE Input ---------------------------------
(***************************************************************************)
(* The input of one user: the keyboard's three modes with their timer      *)
(* (input/prefix.rs) and the mouse over a window whose layout changes under *)
(* it (input/mouse.rs). Neither reads a clock or a descriptor: the caller  *)
(* hands over keys, reports and the timer's end, and acts on the answers.  *)
(*                                                                         *)
(* A key is a name. It is told apart by its place among the keys typed, so *)
(* that what becomes of each can be followed.                              *)
(***************************************************************************)
EXTENDS Pointer

CONSTANTS
  Keys,         \* keys that are typed
  PrefixKeys,   \* keys the configuration may choose as the prefix
  Layouts,      \* layouts the window may have
  Places,       \* cells the pointer visits, as <<column, row>>
  UsedButtons,  \* buttons of the mouse that are used
  Held,         \* modifiers held while the mouse is used
  MaxTyped      \* bound of the model: keys typed

ASSUME InputAssumption ==
  /\ PrefixKeys \subseteq Keys
  /\ Places \subseteq Nat \X Nat
  /\ UsedButtons \subseteq Buttons /\ Held \subseteq Modifiers
  /\ MaxTyped \in Nat

\* Command, but for the windows 0 to 9, which are one command.
DefaultBindings ==
  "|" :> "SplitVertical" @@ "-" :> "SplitHorizontal" @@ "x" :> "ClosePane" @@ "z" :> "ZoomPane"
  @@ "h" :> "NavigateLeft" @@ "j" :> "NavigateDown" @@ "k" :> "NavigateUp"
  @@ "l" :> "NavigateRight" @@ "c" :> "CreateWindow" @@ "n" :> "NextWindow"
  @@ "p" :> "PrevWindow" @@ "," :> "RenameWindow" @@ "&" :> "CloseWindow"
  @@ "digit" :> "GoToWindow" @@ "d" :> "Detach" @@ "s" :> "SessionPicker"
  @@ "$" :> "RenameSession" @@ "r" :> "EnterResizeMode" @@ "[" :> "EnterCopyMode"
DefaultResizeBindings ==
  [key \in {"h", "j", "k", "l", "=", "escape"} |->
     CASE key = "h" -> "ResizeLeft" [] key = "j" -> "ResizeDown" [] key = "k" -> "ResizeUp"
       [] key = "l" -> "ResizeRight" [] key = "=" -> "EqualizeSplits" [] OTHER -> "ExitMode"]

Modes == {"Passthrough", "PrefixActive", "ResizeMode"}
NoTimer == 0

VARIABLES
  prefixKey,   \* InputStateMachine::prefix_key
  mode,        \* InputStateMachine::state
  timer,       \* the caller's: the prefix that started the timer that has not ended
  late,        \* auxiliary: a timer has ended after the prefix was used
  typed,       \* auxiliary: the keys typed
  pane,        \* the keys forwarded to the pane, as indices of typed
  spent,       \* auxiliary: the indices of keys used for a command or dropped
  layout,      \* the window's layout, a LayoutTree
  held,        \* the buttons held down
  unseen,      \* auxiliary: a release during this drag was not reported
  dragging     \* MouseState::dragging

keyVars == <<prefixKey, mode, timer, late, typed, pane, spent>>
mouseVars == <<layout, held, unseen, dragging>>
vars == <<keyVars, mouseVars>>

Init ==
  /\ prefixKey \in PrefixKeys
  /\ mode = "Passthrough" /\ timer = NoTimer /\ late = FALSE
  /\ typed = <<>> /\ pane = <<>> /\ spent = {}
  /\ layout \in Layouts /\ held = {} /\ unseen = FALSE /\ dragging = NoDrag

-----------------------------------------------------------------------------
(* The keyboard. *)

\* The place of the key that is being handled.
Place == Len(typed) + 1

\* process_passthrough. The caller starts its timer anew for every prefix.
Forward(key) ==
  /\ mode = "Passthrough" /\ key # prefixKey
  /\ pane' = Append(pane, Place)
  /\ UNCHANGED <<mode, timer, spent>>

StartPrefix(key) ==
  /\ mode = "Passthrough" /\ key = prefixKey
  /\ mode' = "PrefixActive" /\ timer' = Place
  /\ UNCHANGED <<pane, spent>>

\* Mutant: a key without a binding leaves the prefix active.
AfterPrefix_Waits(key) ==
  CASE key \notin DOMAIN DefaultBindings -> "PrefixActive"
    [] DefaultBindings[key] = "EnterResizeMode" -> "ResizeMode"
    [] OTHER -> "Passthrough"

AfterPrefix(key) ==
  IF key \in DOMAIN DefaultBindings /\ DefaultBindings[key] = "EnterResizeMode"
    THEN "ResizeMode" ELSE "Passthrough"

\* process_prefix_active: the prefix and the key behind it are a command, or dropped.
UsePrefix(key) ==
  /\ mode = "PrefixActive"
  /\ mode' = AfterPrefix(key)
  /\ spent' = spent \cup {Place - 1, Place}
  /\ UNCHANGED <<timer, pane>>

\* Mutant: a key without a binding leaves resize mode.
AfterResizeKey_Leaves(key) ==
  IF key \in DOMAIN DefaultResizeBindings /\ DefaultResizeBindings[key] # "ExitMode"
    THEN "ResizeMode" ELSE "Passthrough"

AfterResizeKey(key) ==
  IF key \in DOMAIN DefaultResizeBindings /\ DefaultResizeBindings[key] = "ExitMode"
    THEN "Passthrough" ELSE "ResizeMode"

\* process_resize_mode
ResizeKey(key) ==
  /\ mode = "ResizeMode"
  /\ mode' = AfterResizeKey(key)
  /\ spent' = spent \cup {Place}
  /\ UNCHANGED <<timer, pane>>

\* process_key
ProcessKey(key) ==
  /\ Len(typed) < MaxTyped
  /\ Forward(key) \/ StartPrefix(key) \/ UsePrefix(key) \/ ResizeKey(key)
  /\ typed' = Append(typed, key)
  /\ UNCHANGED <<prefixKey, late, mouseVars>>

\* on_prefix_timeout. It does not ask whether the prefix is still active: the
\* timer's end may have been on its way when the next key was handled.
OnPrefixTimeout ==
  /\ timer # NoTimer
  /\ late' = (late \/ mode # "PrefixActive")
  /\ mode' = "Passthrough"
  /\ pane' = Append(pane, timer)
  /\ timer' = NoTimer
  /\ UNCHANGED <<prefixKey, typed, spent, mouseVars>>

\* The caller stops the timer of a prefix that was used.
StopTimer ==
  /\ timer # NoTimer /\ mode # "PrefixActive"
  /\ timer' = NoTimer
  /\ UNCHANGED <<prefixKey, mode, late, typed, pane, spent, mouseVars>>

-----------------------------------------------------------------------------
(* The mouse. *)

\* The button's number in a report, with the modifiers' bits.
Reported(button, mods) ==
  button + (IF 4 \in mods THEN 4 ELSE 0) + (IF 8 \in mods THEN 8 ELSE 0) + (IF 16 \in mods THEN 16 ELSE 0)

\* A report is read and answered. The row of the status bar is the terminal's.
Report(button, mods, at, final) ==
  LET event == ParseSgr(Reported(button, mods), at[1] + 1, at[2] + 1, final)
      answer == DispatchMouse(event, layout, layout.height + 1, layout.active, FALSE, dragging)
  IN  dragging' = IF event = NoEvent THEN dragging ELSE answer.dragging

\* A drag that is over has no release to miss.
StillUnseen(missed) == unseen' = (dragging' # NoDrag /\ (unseen \/ missed))

PressButton(b, mods, at) ==
  /\ b \notin held
  /\ held' = held \cup {b}
  /\ Report(b, mods, at, "M")
  /\ StillUnseen(FALSE)
  /\ UNCHANGED <<layout, keyVars>>

ReleaseButton(b, mods, at) ==
  /\ b \in held
  /\ held' = held \ {b}
  /\ Report(b, mods, at, "m")
  /\ StillUnseen(FALSE)
  /\ UNCHANGED <<layout, keyVars>>

\* The button comes up where the terminal does not see it.
ReleaseUnseen(b) ==
  /\ b \in held
  /\ held' = held \ {b}
  /\ UNCHANGED dragging
  /\ StillUnseen(TRUE)
  /\ UNCHANGED <<layout, keyVars>>

\* A motion names a button that is held, or 3 where none is.
Motion(b, mods, at) ==
  /\ b \in held \/ (held = {} /\ b = 3)
  /\ Report(32 + b, mods, at, "M")
  /\ StillUnseen(FALSE)
  /\ UNCHANGED <<held, layout, keyVars>>

Wheel(button, mods, at) ==
  /\ Report(button, mods, at, "M")
  /\ StillUnseen(FALSE)
  /\ UNCHANGED <<held, layout, keyVars>>

\* Somebody splits, closes or resizes meanwhile.
Relayout ==
  /\ layout' \in Layouts
  /\ UNCHANGED <<held, unseen, dragging, keyVars>>

Next ==
  \/ \E key \in Keys : ProcessKey(key)
  \/ OnPrefixTimeout
  \/ StopTimer
  \/ \E b \in UsedButtons, mods \in Held, at \in Places :
       PressButton(b, mods, at) \/ ReleaseButton(b, mods, at)
  \/ \E b \in UsedButtons : ReleaseUnseen(b)
  \/ \E b \in UsedButtons \cup {3}, mods \in Held, at \in Places : Motion(b, mods, at)
  \/ \E button \in {64, 65, 128}, mods \in Held, at \in Places : Wheel(button, mods, at)
  \/ Relayout

Spec == Init /\ [][Next]_vars
-----------------------------------------------------------------------------
(* Properties.                                                               *)

\* The prefix that waits for the key behind it is the last key typed.
Waiting == IF mode = "PrefixActive" THEN {Len(typed)} ELSE {}

\* Every key has one fate. It reaches the pane, once and in the order it was typed,
\* or is used or dropped, or is a prefix that waits; only a timer that ends
\* too late makes an exception, and only of a prefix.
KeysHaveOneFate ==
  /\ ToSet(pane) \cup spent \cup Waiting = 1..Len(typed)
  /\ \A i \in 1..Len(typed) :
       i \in spent \cap (ToSet(pane) \cup Waiting) => late /\ typed[i] = prefixKey
  /\ ~late => /\ ToSet(pane) \cap Waiting = {}
              /\ \A i, j \in DOMAIN pane : i < j => pane[i] < pane[j]

\* Resize mode swallows keys until Escape: nothing else that is typed leaves
\* it, and what leaves it otherwise is a timer that ends too late.
OnlyEscapeEndsResizeMode ==
  [][(mode = "ResizeMode" /\ mode' # "ResizeMode") => ProcessKey("escape") \/ (late' /\ pane' # pane)]_vars

\* A border is let go of when the button comes up, wherever the pointer is,
\* whatever modifiers are held and however the layout has changed, unless no
\* release was reported since.
DragsEndWithTheButtons == dragging # NoDrag => held # {} \/ unseen
=============================================================================
