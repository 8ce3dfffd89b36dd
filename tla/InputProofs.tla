------------------------------ MODULE InputProofs ------------------------------
(***************************************************************************)
(* Proofs about Input, for any keys, prefixes, layouts, places and number  *)
(* of keys typed: what becomes of a key, and when a drag ends. At the end, *)
(* about Config, for any files: what is in force of what they say.         *)
(***************************************************************************)
EXTENDS Input, Config, SequenceTheorems, TLAPS

Forwarded == ToSet(pane)

\* The inductive invariant of the keyboard. The timer belongs to the last
\* prefix: while that prefix waits it is the last key and has no fate yet, and
\* afterwards it is spent, so that a late end forwards a key that was used.
KeyTypes ==
  /\ prefixKey \in PrefixKeys /\ mode \in Modes /\ late \in BOOLEAN
  /\ typed \in Seq(Keys) /\ pane \in Seq(Nat)
  /\ timer \in 0..Len(typed)
Timed ==
  /\ timer # NoTimer => typed[timer] = prefixKey
  /\ mode = "PrefixActive" => /\ timer = Len(typed) /\ timer # NoTimer
                              /\ timer \notin spent /\ timer \notin Forwarded
  /\ timer # NoTimer /\ mode # "PrefixActive" => timer \in spent
Fated ==
  /\ Forwarded \cup spent \cup Waiting = 1..Len(typed)
  /\ \A i \in spent \cap Forwarded : late /\ typed[i] = prefixKey
  /\ late \/ \A i, j \in DOMAIN pane : i < j => pane[i] < pane[j]
KeyInv == KeyTypes /\ Timed /\ Fated

-----------------------------------------------------------------------------
\* A key behind the ones forwarded so far: what Append does to them.
LEMMA Forwarding ==
  ASSUME NEW s \in Seq(Nat), NEW x \in Nat, NEW t, t = Append(s, x)
  PROVE  /\ t \in Seq(Nat)
         /\ ToSet(t) = ToSet(s) \cup {x}
         /\ (\A i, j \in DOMAIN s : i < j => s[i] < s[j]) /\ (\A i \in DOMAIN s : s[i] < x)
              => \A i, j \in DOMAIN t : i < j => t[i] < t[j]
<1>1. /\ t \in Seq(Nat) /\ Len(s) \in Nat
      /\ DOMAIN s = 1..Len(s) /\ DOMAIN t = 1..(Len(s) + 1)
      /\ \A i \in 1..Len(s) : t[i] = s[i] /\ s[i] \in Nat
      /\ t[Len(s) + 1] = x
  BY AppendProperties, LenProperties, ElementOfSeq
<1>2. ToSet(t) = ToSet(s) \cup {x}
  BY <1>1 DEF ToSet
<1>3. ASSUME \A i, j \in DOMAIN s : i < j => s[i] < s[j], \A i \in DOMAIN s : s[i] < x,
             NEW i \in 1..(Len(s) + 1), NEW j \in 1..(Len(s) + 1), i < j
      PROVE  t[i] < t[j]
  <2>1. CASE j \in 1..Len(s)
    BY <1>1, <1>3, <2>1
  <2>2. CASE j = Len(s) + 1
    <3>1. i \in 1..Len(s)
      BY <1>1, <1>3, <2>2
    <3> QED
      BY <1>1, <1>3, <2>2, <3>1
  <2> QED
    BY <1>1, <2>1, <2>2
<1> QED
  BY <1>1, <1>2, <1>3

\* One key more is typed: the others stay where they are.
LEMMA Typing ==
  ASSUME NEW s \in Seq(Keys), NEW key \in Keys
  PROVE  /\ Append(s, key) \in Seq(Keys) /\ Len(s) \in Nat
         /\ Len(Append(s, key)) = Len(s) + 1
         /\ Append(s, key)[Len(s) + 1] = key
         /\ \A i \in 1..Len(s) : Append(s, key)[i] = s[i]
BY AppendProperties, LenProperties

\* Nothing has been typed and no timer runs.
LEMMA KeysAtFirst == Init => KeyInv
<1> SUFFICES ASSUME Init PROVE KeyInv
  OBVIOUS
<1>1. typed = <<>> /\ pane = <<>> /\ spent = {} /\ mode = "Passthrough" /\ timer = 0 /\ late = FALSE
      /\ prefixKey \in PrefixKeys
  BY DEF Init, NoTimer
<1>2. Len(typed) = 0 /\ DOMAIN pane = {} /\ typed \in Seq(Keys) /\ pane \in Seq(Nat)
  BY <1>1, EmptySeq
<1>3. Forwarded = {} /\ Waiting = {} /\ 1..Len(typed) = {}
  BY <1>1, <1>2 DEF Forwarded, ToSet, Waiting
<1>4. KeyTypes
  <2>1. late \in BOOLEAN
    BY <1>1
  <2> QED
    BY <1>1, <1>2, <2>1 DEF KeyTypes, Modes
<1>5. Timed
  BY <1>1 DEF Timed, NoTimer
<1>6. Fated
  BY <1>1, <1>2, <1>3 DEF Fated
<1> QED
  BY <1>4, <1>5, <1>6 DEF KeyInv

-----------------------------------------------------------------------------
(* A key. In each mode it has one of four uses. *)

\* Whichever mode a key meets, it gets its fate (process_key).
LEMMA KeyHandled ==
  ASSUME KeyInv, NEW key \in Keys, ProcessKey(key)
  PROVE  KeyInv'
<1> DEFINE n == Len(typed)
<1>1. /\ typed' \in Seq(Keys) /\ n \in Nat /\ Len(typed') = n + 1 /\ Place = n + 1
      /\ typed'[n + 1] = key /\ \A i \in 1..n : typed'[i] = typed[i]
      /\ prefixKey' = prefixKey /\ late' = late
  BY Typing DEF KeyInv, KeyTypes, ProcessKey, Place
<1>2. /\ KeyTypes /\ Timed /\ Fated /\ Forwarded \subseteq 1..n /\ spent \subseteq 1..n
  BY DEF KeyInv, Fated
<1>3. CASE Forward(key)
  <2>1. /\ mode = "Passthrough" /\ mode' = mode /\ timer' = timer /\ spent' = spent
        /\ pane' = Append(pane, n + 1)
    BY <1>1, <1>3 DEF Forward
  <2>2. pane' \in Seq(Nat) /\ Forwarded' = Forwarded \cup {n + 1}
    <3>1. pane \in Seq(Nat) /\ n + 1 \in Nat
      BY <1>1, <1>2 DEF KeyTypes
    <3> QED
      BY <3>1, <2>1, Forwarding DEF Forwarded
  <2>3. late \/ \A i, j \in DOMAIN pane' : i < j => pane'[i] < pane'[j]
    <3>1. \A i \in DOMAIN pane : pane[i] < n + 1
      <4>1. \A i \in DOMAIN pane : pane[i] \in Forwarded
        BY DEF Forwarded, ToSet
      <4>2. n \in Nat /\ Forwarded \subseteq 1..n
        BY <1>1, <1>2
      <4>3. \A x \in 1..n : x < n + 1
        BY <4>2
      <4> QED
        BY <4>1, <4>2, <4>3
    <3> QED
      BY <3>1, <2>1, <1>1, <1>2, Forwarding DEF KeyTypes, Fated
  <2>4. Waiting = {} /\ Waiting' = {}
    BY <2>1 DEF Waiting
  <2>5. KeyTypes'
    BY <1>1, <1>2, <2>1, <2>2 DEF KeyTypes
  <2>6. Timed'
    BY <1>1, <1>2, <2>1 DEF KeyTypes, Timed, NoTimer
  <2>7. Forwarded' \cup spent' \cup Waiting' = 1..Len(typed')
    BY <1>1, <1>2, <2>1, <2>2, <2>4 DEF Fated
  <2>8. \A i \in spent' \cap Forwarded' : late' /\ typed'[i] = prefixKey'
    BY <1>1, <1>2, <2>1, <2>2 DEF Fated
  <2> QED
    BY <1>1, <2>3, <2>5, <2>6, <2>7, <2>8 DEF KeyInv, Fated
<1>4. CASE StartPrefix(key)
  <2>1. /\ mode = "Passthrough" /\ mode' = "PrefixActive" /\ timer' = n + 1 /\ spent' = spent
        /\ pane' = pane /\ key = prefixKey /\ Forwarded' = Forwarded
    BY <1>1, <1>4 DEF StartPrefix, Forwarded
  <2>2. Waiting = {} /\ Waiting' = {n + 1}
    BY <1>1, <2>1 DEF Waiting
  <2>3. KeyTypes'
    BY <1>1, <1>2, <2>1 DEF KeyTypes, Modes
  <2>4. Timed'
    BY <1>1, <1>2, <2>1 DEF Timed, NoTimer
  <2>5. Fated'
    BY <1>1, <1>2, <2>1, <2>2 DEF Fated
  <2> QED
    BY <2>3, <2>4, <2>5 DEF KeyInv
<1>5. CASE UsePrefix(key)
  <2>1. /\ mode = "PrefixActive" /\ mode' = AfterPrefix(key) /\ timer' = timer
        /\ spent' = spent \cup {n, n + 1} /\ pane' = pane /\ Forwarded' = Forwarded
    BY <1>1, <1>5 DEF UsePrefix, Forwarded
  <2>2. mode' \in {"ResizeMode", "Passthrough"}
    BY <2>1 DEF AfterPrefix
  <2>3. Waiting = {n} /\ Waiting' = {} /\ timer = n /\ timer # 0 /\ timer \notin Forwarded
    BY <1>2, <2>1, <2>2 DEF Waiting, Timed, NoTimer
  <2>4. KeyTypes'
    BY <1>1, <1>2, <2>1, <2>2 DEF KeyTypes, Modes
  <2>5. Timed'
    BY <1>1, <1>2, <2>1, <2>2, <2>3 DEF KeyTypes, Timed, NoTimer
  <2>6. Forwarded' \cup spent' \cup Waiting' = 1..Len(typed')
    BY <1>1, <1>2, <2>1, <2>3 DEF Fated, KeyTypes
  <2>7. \A i \in spent' \cap Forwarded' : late' /\ typed'[i] = prefixKey'
    BY <1>1, <1>2, <2>1, <2>3 DEF Fated
  <2> QED
    BY <1>1, <1>2, <2>1, <2>4, <2>5, <2>6, <2>7 DEF KeyInv, Fated
<1>6. CASE ResizeKey(key)
  <2>1. /\ mode = "ResizeMode" /\ mode' = AfterResizeKey(key) /\ timer' = timer
        /\ spent' = spent \cup {n + 1} /\ pane' = pane /\ Forwarded' = Forwarded
    BY <1>1, <1>6 DEF ResizeKey, Forwarded
  <2>2. mode' \in {"ResizeMode", "Passthrough"}
    BY <2>1 DEF AfterResizeKey
  <2>3. Waiting = {} /\ Waiting' = {}
    BY <2>1, <2>2 DEF Waiting
  <2>4. KeyTypes'
    BY <1>1, <1>2, <2>1, <2>2 DEF KeyTypes, Modes
  <2>5. Timed'
    BY <1>1, <1>2, <2>1, <2>2 DEF KeyTypes, Timed, NoTimer
  <2>6. Forwarded' \cup spent' \cup Waiting' = 1..Len(typed')
    BY <1>1, <1>2, <2>1, <2>3 DEF Fated
  <2>7. \A i \in spent' \cap Forwarded' : late' /\ typed'[i] = prefixKey'
    BY <1>1, <1>2, <2>1 DEF Fated
  <2> QED
    BY <1>1, <1>2, <2>1, <2>4, <2>5, <2>6, <2>7 DEF KeyInv, Fated
<1> QED
  BY <1>3, <1>4, <1>5, <1>6 DEF ProcessKey

-----------------------------------------------------------------------------
(* The timer. *)

\* The end of the timer forwards the prefix that started it (on_prefix_timeout).
LEMMA TimerEnded ==
  ASSUME KeyInv, OnPrefixTimeout
  PROVE  KeyInv'
<1> DEFINE n == Len(typed)
<1>1. /\ timer # 0 /\ timer \in 1..n /\ n \in Nat /\ typed' = typed /\ spent' = spent
      /\ prefixKey' = prefixKey /\ mode' = "Passthrough" /\ timer' = 0
      /\ pane' = Append(pane, timer) /\ late' = (late \/ mode # "PrefixActive")
  <2>1. timer \in 0..n /\ n \in Nat
    BY LenProperties DEF KeyInv, KeyTypes
  <2> QED
    BY <2>1 DEF OnPrefixTimeout, NoTimer
<1>2. KeyTypes /\ Timed /\ Fated /\ Forwarded \subseteq 1..n
  BY DEF KeyInv, Fated
<1>3. pane' \in Seq(Nat) /\ Forwarded' = Forwarded \cup {timer} /\ Waiting' = {}
  <2>1. pane \in Seq(Nat) /\ timer \in Nat
    BY <1>1, <1>2 DEF KeyTypes
  <2> QED
    BY <2>1, <1>1, Forwarding DEF Forwarded, Waiting
<1>4. KeyTypes' /\ Timed'
  BY <1>1, <1>2, <1>3 DEF KeyTypes, Timed, NoTimer, Modes
<1>5. CASE mode = "PrefixActive"
  <2>1. timer = n /\ timer \notin spent /\ timer \notin Forwarded /\ Waiting = {n} /\ late' = late
    BY <1>1, <1>2, <1>5 DEF Timed, Waiting, KeyTypes
  <2>2. late \/ \A i, j \in DOMAIN pane' : i < j => pane'[i] < pane'[j]
    <3>1. \A i \in DOMAIN pane : pane[i] < timer
      <4>1. \A i \in DOMAIN pane : pane[i] \in Forwarded
        BY DEF Forwarded, ToSet
      <4>2. \A x \in Forwarded : x \in 1..n /\ x # n
        BY <1>2, <2>1
      <4> QED
        BY <4>1, <4>2, <1>1, <2>1
    <3> QED
      BY <3>1, <1>1, <1>2, Forwarding DEF KeyTypes, Fated
  <2> QED
    BY <1>1, <1>2, <1>3, <1>4, <2>1, <2>2 DEF KeyInv, Fated
<1>6. CASE mode # "PrefixActive"
  <2>1. timer \in spent /\ typed[timer] = prefixKey /\ Waiting = {} /\ late'
    BY <1>1, <1>2, <1>6 DEF Timed, Waiting, NoTimer
  <2> QED
    BY <1>1, <1>2, <1>3, <1>4, <2>1 DEF KeyInv, Fated
<1> QED
  BY <1>5, <1>6

\* Stopping the timer of a prefix that was used forwards nothing.
LEMMA TimerStopped ==
  ASSUME KeyInv, StopTimer
  PROVE  KeyInv'
<1>1. Forwarded' = Forwarded /\ Waiting' = Waiting /\ Len(typed) \in Nat
  BY LenProperties DEF StopTimer, Forwarded, Waiting, KeyInv, KeyTypes
<1> QED
  BY <1>1 DEF StopTimer, KeyInv, KeyTypes, Timed, Fated, NoTimer

\* Nothing else touches the keyboard.
LEMMA KeysUntouched ==
  ASSUME KeyInv, UNCHANGED keyVars
  PROVE  KeyInv'
<1>1. Forwarded' = Forwarded /\ Waiting' = Waiting
  BY DEF keyVars, Forwarded, Waiting
<1> QED
  BY <1>1 DEF keyVars, KeyInv, KeyTypes, Timed, Fated

\* KeyInv is inductive.
LEMMA KeyInvHolds == Spec => []KeyInv
<1>1. KeyInv /\ [Next]_vars => KeyInv'
  <2> SUFFICES ASSUME KeyInv, [Next]_vars PROVE KeyInv'
    OBVIOUS
  <2>1. CASE \E key \in Keys : ProcessKey(key)
    BY <2>1, KeyHandled
  <2>2. CASE OnPrefixTimeout
    BY <2>2, TimerEnded
  <2>3. CASE StopTimer
    BY <2>3, TimerStopped
  <2>4. CASE UNCHANGED keyVars
    BY <2>4, KeysUntouched
  <2>5. UNCHANGED vars => UNCHANGED keyVars
    BY DEF vars
  <2> QED
    BY <2>1, <2>2, <2>3, <2>4, <2>5
    DEF Next, PressButton, ReleaseButton, ReleaseUnseen, Motion, Wheel, Relayout
<1> QED
  BY <1>1, KeysAtFirst, PTL DEF Spec

\* However keys and the timer interleave, each key reaches the pane once and in
\* its place or is used or dropped, and only a timer that ends too late forwards
\* a prefix that was already used (process_key, on_prefix_timeout).
THEOREM KeysAlwaysHaveOneFate == Spec => []KeysHaveOneFate
<1>1. KeyInv => KeysHaveOneFate
  <2> SUFFICES ASSUME KeyInv PROVE KeysHaveOneFate
    OBVIOUS
  <2>1. ToSet(pane) = Forwarded
    BY DEF Forwarded
  <2>2. Waiting \cap (spent \cup Forwarded) = {}
    BY DEF KeyInv, Timed, Waiting
  <2> QED
    BY <2>1, <2>2 DEF KeyInv, Fated, KeysHaveOneFate
<1> QED
  BY <1>1, KeyInvHolds, PTL

\* Only Escape, or a timer that ends too late, takes the keyboard out of resize
\* mode (process_resize_mode, on_prefix_timeout).
THEOREM OnlyEscapeLeaves == Spec => OnlyEscapeEndsResizeMode
<1> DEFINE A == (mode = "ResizeMode" /\ mode' # "ResizeMode")
                  => ProcessKey("escape") \/ (late' /\ pane' # pane)
<1>1. KeyInv /\ [Next]_vars => A
  <2> SUFFICES ASSUME KeyInv, [Next]_vars, mode = "ResizeMode", mode' # "ResizeMode"
               PROVE  ProcessKey("escape") \/ (late' /\ pane' # pane)
    OBVIOUS
  <2>1. ASSUME NEW key \in Keys, ProcessKey(key) PROVE key = "escape"
    <3>1. ResizeKey(key)
      BY <2>1 DEF ProcessKey, Forward, StartPrefix, UsePrefix
    <3>2. key \in DOMAIN DefaultResizeBindings /\ DefaultResizeBindings[key] = "ExitMode"
      BY <3>1 DEF ResizeKey, AfterResizeKey
    <3> QED
      BY <3>2 DEF DefaultResizeBindings
  <2>2. CASE OnPrefixTimeout
    <3>1. Len(typed) \in Nat /\ timer \in Nat /\ pane \in Seq(Nat)
      <4>1. Len(typed) \in Nat /\ timer \in 0..Len(typed) /\ pane \in Seq(Nat)
        BY LenProperties DEF KeyInv, KeyTypes
      <4> QED
        BY <4>1
    <3>4. late' /\ pane' = Append(pane, timer)
      BY <2>2 DEF OnPrefixTimeout
    <3>2. Len(pane') = Len(pane) + 1 /\ Len(pane) \in Nat
      BY <3>1, <3>4, AppendProperties, LenProperties
    <3>3. pane' # pane
      BY <3>2
    <3> QED
      BY <3>3, <3>4
  <2>3. ~ StopTimer /\ ~ UNCHANGED keyVars /\ ~ UNCHANGED vars
    BY DEF StopTimer, keyVars, vars
  <2> QED
    BY <2>1, <2>2, <2>3
    DEF Next, PressButton, ReleaseButton, ReleaseUnseen, Motion, Wheel, Relayout
<1>2. [][A]_vars => OnlyEscapeEndsResizeMode
  BY DEF OnlyEscapeEndsResizeMode
<1> QED
  BY <1>1, <1>2, KeyInvHolds, PTL DEF Spec
-----------------------------------------------------------------------------
(* The mouse. *)

\* Stripping the modifiers' bits gives back the button, the wheel or the motion.
LEMMA Stripped ==
  ASSUME NEW n \in {0, 1, 2, 35, 64, 65, 128}, NEW mods \in Modifiers
  PROVE  BaseOf(Reported(n, mods)) = n
<1>1. PICK s \in {0, 4, 8, 12, 16, 20, 24, 28} : Reported(n, mods) = n + s
  BY DEF Reported
<1>2. \A m \in {0, 1, 2, 35, 64, 65, 128} : \A t \in {0, 4, 8, 12, 16, 20, 24, 28} :
        BaseOf(m + t) = m
  BY DEF BaseOf, Bit
<1> QED
  BY <1>1, <1>2

\* The pointer is on one of three things.
LEMMA Targets ==
  ASSUME NEW l, NEW x, NEW y, NEW height
  PROVE  HitTest(l, x, y, height).kind \in {"StatusBar", "Pane", "Border"}
<1>1. /\ NoTarget.kind = "StatusBar"
      /\ \A id : OnPane(id).kind = "Pane"
      /\ \A dir, at : OnBorder(dir, at).kind = "Border"
  BY DEF NoTarget, OnPane, OnBorder
<1> QED
  BY <1>1 DEF HitTest

\* A release ends a drag, and only a press begins one.
LEMMA Dispatched ==
  ASSUME NEW event, NEW l, NEW height, NEW active, NEW drag,
         event.kind = "Release" \/ (event.kind # "Press" /\ drag = NoDrag)
  PROVE  DispatchMouse(event, l, height, active, FALSE, drag).dragging = NoDrag
<1>1. \A action, d : Answer(action, d).dragging = d
  BY DEF Answer
<1>2. CASE drag # NoDrag
  BY <1>1, <1>2 DEF DispatchMouse
<1>3. CASE drag = NoDrag /\ event.kind \in {"Release", "Move"}
  BY <1>1, <1>3 DEF DispatchMouse
<1>4. CASE drag = NoDrag /\ event.kind \notin {"Release", "Move"}
  <2> DEFINE target == HitTest(l, event.col, event.row, height)
  <2>1. DispatchMouse(event, l, height, active, FALSE, drag) = OnTarget(event, target, active, FALSE)
    BY <1>4 DEF DispatchMouse
  <2>2. target.kind \in {"StatusBar", "Pane", "Border"}
    BY Targets
  <2> HIDE DEF target
  <2>3. event.kind # "Press" => OnTarget(event, target, active, FALSE).dragging = NoDrag
    BY <1>1, <2>2 DEF OnTarget
  <2> QED
    BY <2>1, <2>3, <1>4
<1> QED
  BY <1>2, <1>3, <1>4

\* The same where no drag is under way.
LEMMA Started ==
  ASSUME NEW event, event.kind # "Press", NEW l, NEW height, NEW active
  PROVE  DispatchMouse(event, l, height, active, FALSE, NoDrag).dragging = NoDrag
BY Dispatched

\* A report of the wheel or of a motion begins no drag.
LEMMA NoneBegun ==
  ASSUME NEW n, NEW mods, NEW at, BaseOf(Reported(n, mods)) \in Nat,
         BaseOf(Reported(n, mods)) >= 32, Report(n, mods, at, "M")
  PROVE  dragging = NoDrag => dragging' = NoDrag
<1>1. PICK e : e = ParseSgr(Reported(n, mods), at[1] + 1, at[2] + 1, "M")
  OBVIOUS
<1>2. e.kind # "Press"
  BY <1>1 DEF ParseSgr, NoEvent
<1>3. DispatchMouse(e, layout, layout.height + 1, layout.active, FALSE, NoDrag).dragging = NoDrag
  BY <1>2, Started
<1>4. dragging' = IF e = NoEvent THEN dragging
                  ELSE DispatchMouse(e, layout, layout.height + 1, layout.active, FALSE, dragging).dragging
  BY <1>1 DEF Report
<1> QED
  BY <1>3, <1>4

\* No drag is under way at the start.
LEMMA DragsAtFirst == Init => DragsEndWithTheButtons
BY DEF Init, DragsEndWithTheButtons

\* Each report, each release that goes unseen and each new layout keeps the property
\* (dispatch_mouse).
LEMMA DragsKept ==
  ASSUME DragsEndWithTheButtons, [Next]_vars
  PROVE  DragsEndWithTheButtons'
<1> USE DEF DragsEndWithTheButtons
<1>1. UsedButtons \subseteq {0, 1, 2} /\ Held \subseteq Modifiers
  BY InputAssumption DEF Buttons
<1>2. CASE \E b \in UsedButtons, mods \in Held, at \in Places : PressButton(b, mods, at)
  BY <1>2 DEF PressButton
<1>3. ASSUME NEW b \in UsedButtons, NEW mods \in Held, NEW at \in Places, ReleaseButton(b, mods, at)
      PROVE  dragging' = NoDrag
  <2> DEFINE event == ParseSgr(Reported(b, mods), at[1] + 1, at[2] + 1, "m")
  <2>1. BaseOf(Reported(b, mods)) = b /\ b \in {0, 1, 2}
    BY <1>1, Stripped
  <2>2. event.kind = "Release"
    BY <2>1 DEF ParseSgr
  <2>3. event # NoEvent
    BY <2>2 DEF NoEvent
  <2> HIDE DEF event
  <2>4. dragging' = DispatchMouse(event, layout, layout.height + 1, layout.active, FALSE, dragging).dragging
    BY <1>3, <2>3 DEF ReleaseButton, Report, event
  <2> QED
    BY <2>2, <2>4, Dispatched
<1>4. CASE \E b \in UsedButtons : ReleaseUnseen(b)
  BY <1>4 DEF ReleaseUnseen, StillUnseen
<1>5. ASSUME NEW b \in UsedButtons \cup {3}, NEW mods \in Held, NEW at \in Places, Motion(b, mods, at)
      PROVE  dragging' # NoDrag => held' # {} \/ unseen'
  <2>1. CASE held # {}
    BY <1>5, <2>1 DEF Motion
  <2>2. CASE held = {} /\ dragging # NoDrag
    BY <1>5, <2>2 DEF Motion, StillUnseen
  <2>3. CASE held = {} /\ dragging = NoDrag
    <3>1. b = 3 /\ 32 + b = 35
      BY <1>5, <2>3 DEF Motion
    <3>2. Report(35, mods, at, "M")
      BY <1>5, <3>1 DEF Motion
    <3>3. BaseOf(Reported(35, mods)) = 35
      BY <1>1, Stripped
    <3> QED
      BY <2>3, <3>2, <3>3, NoneBegun
  <2> QED
    BY <2>1, <2>2, <2>3
<1>6. ASSUME NEW wheel \in {64, 65, 128}, NEW mods \in Held, NEW at \in Places, Wheel(wheel, mods, at)
      PROVE  dragging' # NoDrag => held' # {} \/ unseen'
  <2>1. CASE dragging # NoDrag
    BY <1>6, <2>1 DEF Wheel, StillUnseen
  <2>2. CASE dragging = NoDrag
    <3>1. Report(wheel, mods, at, "M")
      BY <1>6 DEF Wheel
    <3>2. BaseOf(Reported(wheel, mods)) = wheel
      BY <1>1, Stripped
    <3>3. BaseOf(Reported(wheel, mods)) \in Nat /\ BaseOf(Reported(wheel, mods)) >= 32
      BY <3>2
    <3> QED
      BY <2>2, <3>1, <3>3, NoneBegun
  <2> QED
    BY <2>1, <2>2
<1>7. CASE UNCHANGED <<held, unseen, dragging>>
  BY <1>7
<1>8. /\ Relayout => UNCHANGED <<held, unseen, dragging>>
      /\ OnPrefixTimeout => UNCHANGED <<held, unseen, dragging>>
      /\ StopTimer => UNCHANGED <<held, unseen, dragging>>
      /\ UNCHANGED vars => UNCHANGED <<held, unseen, dragging>>
      /\ \A key \in Keys : ProcessKey(key) => UNCHANGED <<held, unseen, dragging>>
  BY DEF Relayout, OnPrefixTimeout, StopTimer, ProcessKey, vars, mouseVars
<1> QED
  BY <1>2, <1>3, <1>4, <1>5, <1>6, <1>7, <1>8 DEF Next

\* However often the layout changes and whatever is pressed meanwhile, a border
\* is dragged only while a button is down, or when a release was not reported
\* (dispatch_mouse, MouseState).
THEOREM DragsAlwaysEnd == Spec => []DragsEndWithTheButtons
BY DragsAtFirst, DragsKept, PTL DEF Spec

-----------------------------------------------------------------------------
(***************************************************************************)
(* The configuration, which shares no state with the input.                *)
(***************************************************************************)

\* A name means one key or none (parse_key).
LEMMA OneKey ==
  ASSUME NEW name
  PROVE  ParseKey(name) = {} \/ \E key : ParseKey(name) = {key}
<1> DEFINE word == IF name.word \in DOMAIN Lower THEN Lower[name.word] ELSE name.word
           modifiers == {name.modifier} \ {"none"}
<1>1. ParseKey(name) = ParseBareKey(word, modifiers)
  BY DEF ParseKey
<1> HIDE DEF word, modifiers
<1>2. ParseBareKey(word, modifiers) = {} \/ \E key : ParseBareKey(word, modifiers) = {key}
  <2> DEFINE special == Key("Special", SpecialNames[word], modifiers)
             blank == Key("Char", " ", modifiers)
             number == Key("F", FunctionWords[word], modifiers)
             one == Key("Char", word, modifiers)
  <2>1. \/ ParseBareKey(word, modifiers) = {special}
        \/ ParseBareKey(word, modifiers) = {blank}
        \/ ParseBareKey(word, modifiers) = {number}
        \/ ParseBareKey(word, modifiers) = {one}
        \/ ParseBareKey(word, modifiers) = {}
    <3> HIDE DEF special, blank, number, one
    <3> DEFINE names == DOMAIN SpecialNames
               words == DOMAIN FunctionWords
               fits == FunctionWords[word] \in 1..12
    <3>1. ParseBareKey(word, modifiers) =
            CASE word \in names -> {special}
              [] word = "space" -> {blank}
              [] word \in words -> IF fits THEN {number} ELSE {}
              [] word \in Characters \ words -> {one}
              [] OTHER -> {}
      BY DEF ParseBareKey, special, blank, number, one
    <3> HIDE DEF names, words, fits
    <3> QED
      BY <3>1
  <2> QED
    BY <2>1
<1> QED
  BY <1>1, <1>2

\* What an optional value stands for.
LEMMA Given ==
  ASSUME NEW option, NEW default, NEW value, option = {value}
  PROVE  Else(option, default) = value
BY DEF Else

\* A file without errors is in force as a whole (validate).
LEMMA ValidatedHonours ==
  ASSUME NEW raw \in Files, Errors(raw) = {}, NEW c \in Validated(raw)
  PROVE  Honours(c, raw)
<1>1. PICK merged \in Merges(raw) :
        c = [prefix |-> Else(UNION {ParseKey(name) : name \in raw.prefix}, Defaults.prefix),
             exit |-> Else(raw.exit, Defaults.exit),
             settings |-> Over(raw.settings, Defaults.settings),
             theme |-> ValidateTheme(raw),
             position |-> Else(raw.position \cap Positions, Defaults.position),
             keybindings |-> merged]
  BY DEF Validated
<1>2. /\ c.prefix = Else(UNION {ParseKey(name) : name \in raw.prefix}, Defaults.prefix)
      /\ c.exit = Else(raw.exit, Defaults.exit)
      /\ c.settings = Over(raw.settings, Defaults.settings)
      /\ c.theme = ValidateTheme(raw)
      /\ c.position = Else(raw.position \cap Positions, Defaults.position)
      /\ c.keybindings = merged
  BY <1>1
<1>3. /\ AtMostOne(raw.prefix) /\ AtMostOne(raw.exit) /\ AtMostOne(raw.position)
      /\ DOMAIN raw.theme \subseteq DOMAIN Defaults.theme
  BY ConfigAssumption
<1>4. /\ \A name \in raw.prefix : ParseKey(name) # {}
      /\ ThemeErrors(raw) = {} /\ BindingErrors(raw) = {}
  BY DEF Errors
<1>5. \A name \in raw.prefix : ParseKey(name) = {c.prefix}
  <2> SUFFICES ASSUME NEW name \in raw.prefix PROVE ParseKey(name) = {c.prefix}
    OBVIOUS
  <2>1. PICK key : ParseKey(name) = {key}
    BY <1>4, OneKey
  <2>2. UNION {ParseKey(other) : other \in raw.prefix} = {key}
    <3>1. \A other \in raw.prefix : other = name
      BY <1>3 DEF AtMostOne
    <3> QED
      BY <2>1, <3>1
  <2> DEFINE keys == UNION {ParseKey(other) : other \in raw.prefix}
  <2>3. c.prefix = Else(keys, Defaults.prefix) /\ keys = {key}
    BY <1>2, <2>2
  <2> HIDE DEF keys
  <2> QED
    BY <2>1, <2>3, Given
<1>6. \A exit \in raw.exit : c.exit = exit
  <2> SUFFICES ASSUME NEW exit \in raw.exit PROVE c.exit = exit
    OBVIOUS
  <2>1. raw.exit = {exit}
    BY <1>3 DEF AtMostOne
  <2> QED
    BY <1>2, <2>1, Given
<1>7. \A field \in DOMAIN c.settings :
        c.settings[field] = IF field \in DOMAIN raw.settings THEN raw.settings[field]
                            ELSE Defaults.settings[field]
  BY <1>2 DEF Over
<1>8. \A field \in DOMAIN c.theme :
        c.theme[field] = IF field \in DOMAIN raw.theme THEN raw.theme[field] ELSE Defaults.theme[field]
  <2>1. \A field \in DOMAIN raw.theme : raw.theme[field] \in GoodColours
    BY <1>4 DEF ThemeErrors
  <2>2. {f \in DOMAIN raw.theme : raw.theme[f] \in GoodColours} = DOMAIN raw.theme
    BY <2>1
  <2>3. ValidateTheme(raw) = Over([field \in DOMAIN raw.theme |-> raw.theme[field]], Defaults.theme)
    BY <2>2 DEF ValidateTheme
  <2> QED
    BY <1>2, <2>3 DEF Over
<1>9. \A position \in raw.position : c.position = position \/ position \notin Positions
  <2> SUFFICES ASSUME NEW position \in raw.position, position \in Positions PROVE c.position = position
    OBVIOUS
  <2>1. raw.position \cap Positions = {position}
    BY <1>3 DEF AtMostOne
  <2> QED
    BY <1>2, <2>1, Given
<1>10. PICK last \in [BoundKeys(raw) -> DOMAIN raw.keybindings] :
         /\ \A key \in BoundKeys(raw) : last[key] \in NamesOf(raw, key)
         /\ c.keybindings = [key \in BoundKeys(raw) \cup DOMAIN Defaults.keybindings |->
                               IF key \in BoundKeys(raw) THEN raw.keybindings[last[key]]
                               ELSE Defaults.keybindings[key]]
  <2>1. c.keybindings = merged /\ merged \in Merges(raw)
    BY <1>2
  <2> QED
    BY <2>1 DEF Merges
<1>11. \A name \in DOMAIN raw.keybindings :
         \E same \in DOMAIN raw.keybindings :
           /\ ParseKey(same) = ParseKey(name)
           /\ \A key \in ParseKey(name) :
                key \in DOMAIN c.keybindings /\ c.keybindings[key] = raw.keybindings[same]
  <2> SUFFICES ASSUME NEW name \in DOMAIN raw.keybindings
               PROVE  \E same \in DOMAIN raw.keybindings :
                        /\ ParseKey(same) = ParseKey(name)
                        /\ \A key \in ParseKey(name) :
                             key \in DOMAIN c.keybindings /\ c.keybindings[key] = raw.keybindings[same]
    OBVIOUS
  <2>1. ParseKey(name) # {}
    BY <1>4 DEF BindingErrors
  <2>2. PICK key : ParseKey(name) = {key}
    BY <2>1, OneKey
  <2>3. key \in BoundKeys(raw)
    BY <2>2 DEF BoundKeys
  <2>4. last[key] \in DOMAIN raw.keybindings /\ ParseKey(last[key]) = {key}
    BY <1>10, <2>3 DEF NamesOf
  <2> QED
    BY <1>10, <2>2, <2>3, <2>4
<1>12. \A key \in DOMAIN Defaults.keybindings :
         (\A name \in DOMAIN raw.keybindings : key \notin ParseKey(name)) =>
           c.keybindings[key] = Defaults.keybindings[key]
  BY <1>10 DEF BoundKeys
<1> QED
  BY <1>5, <1>6, <1>7, <1>8, <1>9, <1>11, <1>12 DEF Honours

\* The file is one a user can write.
Sources == file \in Contents

\* Reading a text puts all of it in force or none (load_config_from_str_inner).
LEMMA TakenAsAWhole ==
  ASSUME Sources, ~panicked, Take
  PROVE  FileIsHonouredOrRefused'
<1>1. source' = file.kind
  BY DEF Take
<1>2. CASE file.kind = Garbled
  <2>1. config' = Defaults /\ source' # "raw"
    BY <1>1, <1>2 DEF Take, Garbled
  <2> QED
    BY <2>1 DEF FileIsHonouredOrRefused
<1>3. CASE file.kind = "raw" /\ ~Panics(file.raw)
  <2>1. file.raw \in Files
    BY <1>3 DEF Sources, Contents, Missing, Unreadable, Garbled
  <2>2. /\ reported' = Errors(file.raw)
        /\ config' \in IF Errors(file.raw) = {} THEN Validated(file.raw) ELSE {Defaults}
        /\ accepted' = IF Errors(file.raw) = {} THEN {file.raw} ELSE accepted
    BY <1>3 DEF Take, Garbled
  <2>3. CASE Errors(file.raw) = {}
    <3>1. Honours(config', file.raw)
      BY <2>1, <2>2, <2>3, ValidatedHonours
    <3>2. file.raw \in accepted'
      BY <2>2, <2>3
    <3> QED
      BY <3>1, <3>2 DEF FileIsHonouredOrRefused
  <2>4. CASE Errors(file.raw) # {}
    BY <2>2, <2>4 DEF FileIsHonouredOrRefused
  <2> QED
    BY <2>3, <2>4
<1>4. CASE file.kind = "raw" /\ Panics(file.raw)
  BY <1>4 DEF Take, Garbled, FileIsHonouredOrRefused
<1> QED
  BY <1>2, <1>3, <1>4 DEF Take

\* Every file, whatever it says and whenever it is read, takes effect as a whole
\* or not at all, and an error is never passed over (load_config, reload_config).
THEOREM FilesAreHonouredOrRefused == ConfigSpec => []FileIsHonouredOrRefused
<1> DEFINE Fresh == source = Unread => config = Defaults
           Inv == Sources /\ Fresh /\ FileIsHonouredOrRefused
<1>1. ConfigInit => Inv
  BY DEF ConfigInit, Sources, Unread, FileIsHonouredOrRefused
<1>2. Inv /\ [ConfigNext]_configVars => Inv'
  <2> SUFFICES ASSUME Inv, [ConfigNext]_configVars PROVE Inv'
    OBVIOUS
  <2>1. CASE UNCHANGED <<config, source, accepted, reported, panicked>> /\ file' \in Contents
    BY <2>1 DEF Sources, FileIsHonouredOrRefused
  <2>2. ASSUME Take, ~panicked PROVE Inv'
    <3>1. Sources' /\ Fresh'
      BY <2>2 DEF Take, Sources, Unread, Garbled
    <3> QED
      BY <2>2, <3>1, TakenAsAWhole
  <2>3. CASE Load
    <3>1. CASE NotRead
      <4>1. /\ source' = file.kind /\ file.kind # "raw" /\ file.kind # Unread
            /\ config' = Defaults /\ file' = file
        BY <2>3, <3>1 DEF Load, NotRead, Unread, Missing, Unreadable
      <4> QED
        BY <4>1 DEF Sources, FileIsHonouredOrRefused
    <3>2. CASE ~NotRead
      BY <2>2, <2>3, <3>2 DEF Load
    <3> QED
      BY <3>1, <3>2
  <2>4. CASE Reload
    <3>1. CASE NotRead
      BY <2>1, <2>4, <3>1 DEF Reload, configVars, Sources
    <3>2. CASE ~NotRead
      BY <2>2, <2>4, <3>2 DEF Reload
    <3> QED
      BY <3>1, <3>2
  <2>5. CASE Exit
    BY <2>5 DEF Exit, Sources, FileIsHonouredOrRefused, Unread
  <2>6. CASE Edit
    BY <2>1, <2>6 DEF Edit
  <2>7. CASE UNCHANGED configVars
    BY <2>1, <2>7 DEF configVars, Sources
  <2> QED
    BY <2>3, <2>4, <2>5, <2>6, <2>7 DEF ConfigNext
<1>3. Inv => FileIsHonouredOrRefused
  OBVIOUS
<1> QED
  BY <1>1, <1>2, <1>3, PTL DEF ConfigSpec
================================================================================
