----------------------------- MODULE SessionProofs -----------------------------
(***************************************************************************)
(* Proofs about Session, for any number of windows and panes: the list of  *)
(* windows and the active index, whatever the layouts hold, and with the   *)
(* lemmas of LayoutProofs the panes every window has.                      *)
(***************************************************************************)
EXTENDS Session, LayoutProofs

Windows(L) == [id : WindowIds, layout : L, pane_count : Nat]

\* A list of windows, for some set of layouts.
IsWindowList == \E L : windows \in Seq(Windows(L))

Distinct == \A i, j \in DOMAIN windows : windows[i].id = windows[j].id => i = j

\* The inductive invariant: ActiveWindowExists needs the length of the list to
\* be a number, the place of a name in it to be one place, and, for the window
\* added to a session that has lost its last one, the index that was left.
Indexed ==
  /\ IsWindowList
  /\ Distinct
  /\ active_window_index \in Nat
  /\ ActiveWindowExists
  /\ windows = <<>> => active_window_index = 0

-----------------------------------------------------------------------------
\* What remove_window leaves of a list: every element but one, in order.
LEMMA Removed ==
  ASSUME NEW S, NEW s \in Seq(S), NEW k \in 1..Len(s)
  PROVE  /\ RemoveAt(s, k) \in Seq(S)
         /\ Len(RemoveAt(s, k)) = Len(s) - 1
         /\ \A i \in 1..(Len(s) - 1) : RemoveAt(s, k)[i] = IF i < k THEN s[i] ELSE s[i + 1]
<1> DEFINE front == SubSeq(s, 1, k - 1)
           back == SubSeq(s, k + 1, Len(s))
<1>1. Len(s) \in Nat /\ \A i \in 1..Len(s) : s[i] \in S
  BY LenProperties, ElementOfSeq
<1>2. /\ front \in Seq(S) /\ Len(front) = k - 1
      /\ \A i \in 1..(k - 1) : front[i] = s[i]
  <2>1. 1 \in Int /\ k - 1 \in Int /\ \A i \in 1..(k - 1) : s[i] \in S
    BY <1>1
  <2>2. /\ front \in Seq(S)
        /\ Len(front) = IF 1 <= k - 1 THEN (k - 1) - 1 + 1 ELSE 0
        /\ \A i \in 1..((k - 1) - 1 + 1) : front[i] = s[1 + i - 1]
    BY <2>1, SubSeqProperties
  <2> QED
    BY <2>2, <1>1
<1>3. /\ back \in Seq(S) /\ Len(back) = Len(s) - k
      /\ \A i \in 1..(Len(s) - k) : back[i] = s[k + i]
  <2>1. k + 1 \in Int /\ Len(s) \in Int /\ \A i \in (k + 1)..Len(s) : s[i] \in S
    BY <1>1
  <2>2. /\ back \in Seq(S)
        /\ Len(back) = IF k + 1 <= Len(s) THEN Len(s) - (k + 1) + 1 ELSE 0
        /\ \A i \in 1..(Len(s) - (k + 1) + 1) : back[i] = s[(k + 1) + i - 1]
    BY <2>1, SubSeqProperties
  <2> QED
    BY <2>2, <1>1
<1>4. /\ front \o back \in Seq(S)
      /\ Len(front \o back) = Len(front) + Len(back)
      /\ \A i \in 1..(Len(front) + Len(back)) : (front \o back)[i] =
           IF i <= Len(front) THEN front[i] ELSE back[i - Len(front)]
  BY <1>2, <1>3, ConcatProperties
<1>5. RemoveAt(s, k) = front \o back
  BY DEF RemoveAt
<1> HIDE DEF front, back
<1>6. ASSUME NEW i \in 1..(Len(s) - 1)
      PROVE  (front \o back)[i] = IF i < k THEN s[i] ELSE s[i + 1]
  <2>1. CASE i < k
    BY <2>1, <1>1, <1>2, <1>3, <1>4
  <2>2. CASE ~(i < k)
    <3>1. i - (k - 1) \in 1..(Len(s) - k) /\ k + (i - (k - 1)) = i + 1
      BY <2>2, <1>1
    <3>2. back[i - (k - 1)] = s[i + 1]
      BY <3>1, <1>3
    <3> QED
      BY <2>2, <3>2, <1>1, <1>2, <1>3, <1>4
  <2> QED
    BY <2>1, <2>2
<1>7. Len(front \o back) = Len(s) - 1
  BY <1>1, <1>2, <1>3, <1>4
<1> DEFINE rest == front \o back
<1>8. /\ rest \in Seq(S)
      /\ Len(rest) = Len(s) - 1
      /\ \A i \in 1..(Len(s) - 1) : rest[i] = IF i < k THEN s[i] ELSE s[i + 1]
  BY <1>4, <1>6, <1>7
<1>9. RemoveAt(s, k) = rest
  BY <1>5
<1> HIDE DEF rest
<1> QED
  BY <1>8, <1>9

\* Elements and length of the list of windows.
LEMMA List ==
  ASSUME NEW L, windows \in Seq(Windows(L))
  PROVE  /\ Len(windows) \in Nat
         /\ DOMAIN windows = 1..Len(windows)
         /\ \A i \in 1..Len(windows) : windows[i] \in Windows(L)
         /\ windows = <<>> <=> Len(windows) = 0
BY LenProperties, ElementOfSeq, EmptySeq

\* Position finds the one place of a name.
LEMMA Placed ==
  ASSUME Indexed, NEW id \in Names
  PROVE  Position(id) \in DOMAIN windows /\ windows[Position(id)].id = id
BY DEF Names, Position

-----------------------------------------------------------------------------
\* Replacing a window's layout and count changes no name, no length and no other window.
LEMMA Replaced ==
  ASSUME Indexed, NEW i \in DOMAIN windows, NEW lay, NEW n \in Nat, Edit(i, lay, n)
  PROVE  /\ Indexed'
         /\ DOMAIN windows' = DOMAIN windows
         /\ windows'[i].layout = lay /\ windows'[i].pane_count = n
         /\ \A j \in DOMAIN windows \ {i} : windows'[j] = windows[j]
<1>1. PICK L : windows \in Seq(Windows(L))
  BY DEF Indexed, IsWindowList
<1> DEFINE M == L \cup {lay}
           new == [id |-> windows[i].id, layout |-> lay, pane_count |-> n]
<1>2. /\ Len(windows) \in Nat
      /\ DOMAIN windows = 1..Len(windows)
      /\ \A j \in 1..Len(windows) : windows[j] \in Windows(L)
  BY <1>1, List
<1>3. new \in Windows(M) /\ Windows(L) \subseteq Windows(M)
  BY <1>2 DEF Windows
<1>4. windows \in Seq(Windows(M))
  BY <1>1, <1>3, SeqMonotonic
<1>5. windows' = [windows EXCEPT ![i] = new] /\ i \in 1..Len(windows)
      /\ active_window_index' = active_window_index
  BY <1>2 DEF Edit
<1>6. new.id = windows[i].id /\ new.layout = lay /\ new.pane_count = n
  OBVIOUS
<1> HIDE DEF M, new
<1>7. /\ windows' \in Seq(Windows(M))
      /\ Len(windows') = Len(windows)
      /\ \A j \in 1..Len(windows) : windows'[j] = IF j = i THEN new ELSE windows[j]
  BY <1>3, <1>4, <1>5, ExceptSeq
<1>8. DOMAIN windows' = DOMAIN windows
  BY <1>7, <1>2, LenProperties
<1>9. \A j \in DOMAIN windows : windows'[j].id = windows[j].id
  BY <1>2, <1>6, <1>7
<1>10. Distinct'
  BY <1>8, <1>9 DEF Indexed, Distinct
<1>11. windows # <<>> /\ windows' # <<>>
  BY <1>5, <1>7, <1>2, EmptySeq, LenProperties
<1>12. ActiveWindowExists'
  BY <1>5, <1>11, <1>7 DEF Indexed, ActiveWindowExists
<1>13. Indexed'
  BY <1>5, <1>7, <1>10, <1>11, <1>12 DEF Indexed, IsWindowList
<1> QED
  BY <1>2, <1>5, <1>6, <1>7, <1>8, <1>13

\* After a removal at k the list is the old one without k, and names stay distinct.
LEMMA Rest ==
  ASSUME Indexed, NEW id \in WindowIds, RemoveWindow(id)
  PROVE  /\ Position(id) \in 1..Len(windows)
         /\ windows[Position(id)].id = id
         /\ Len(windows) \in Nat
         /\ IsWindowList'
         /\ DOMAIN windows' = 1..Len(windows')
         /\ Len(windows') = Len(windows) - 1
         /\ \A i \in 1..Len(windows') :
              windows'[i] = IF i < Position(id) THEN windows[i] ELSE windows[i + 1]
         /\ windows' = <<>> <=> Len(windows') = 0
<1>1. PICK L : windows \in Seq(Windows(L))
  BY DEF Indexed, IsWindowList
<1> DEFINE k == Position(id)
<1>2. Len(windows) \in Nat /\ DOMAIN windows = 1..Len(windows)
  BY <1>1, List
<1>3. k \in 1..Len(windows) /\ windows[k].id = id
  BY <1>2, Placed DEF RemoveWindow
<1>4. windows' = RemoveAt(windows, k)
  BY DEF RemoveWindow
<1> HIDE DEF k
<1>5. /\ windows' \in Seq(Windows(L))
      /\ Len(windows') = Len(windows) - 1
      /\ \A i \in 1..(Len(windows) - 1) :
           windows'[i] = IF i < k THEN windows[i] ELSE windows[i + 1]
  BY <1>1, <1>3, <1>4, Removed
<1>6. DOMAIN windows' = 1..Len(windows') /\ (windows' = <<>> <=> Len(windows') = 0)
  BY <1>5, LenProperties, EmptySeq
<1>7. IsWindowList'
  BY <1>5 DEF IsWindowList
<1> QED
  BY <1>2, <1>3, <1>5, <1>6, <1>7 DEF k

\* A removal keeps the invariant.
LEMMA RemovalKeepsIndexed ==
  ASSUME Indexed, NEW id \in WindowIds, RemoveWindow(id)
  PROVE  Indexed'
<1> DEFINE k == Position(id)
           len == Len(windows)
<1>1. /\ k \in 1..len /\ len \in Nat /\ IsWindowList'
      /\ DOMAIN windows' = 1..Len(windows') /\ Len(windows') = len - 1
      /\ \A i \in 1..Len(windows') :
           windows'[i] = IF i < k THEN windows[i] ELSE windows[i + 1]
      /\ windows' = <<>> <=> Len(windows') = 0
  BY Rest
<1>2. DOMAIN windows = 1..len
  BY List DEF Indexed, IsWindowList
<1>3. active_window_index' = Reindexed(k - 1, len - 1, active_window_index)
  BY DEF RemoveWindow
<1>4. active_window_index \in Nat /\ (windows # <<>> => active_window_index < len)
  BY DEF Indexed, ActiveWindowExists
<1>5. windows # <<>>
  BY <1>1, <1>2
<1> HIDE DEF k, len
<1>6. Distinct'
  <2> SUFFICES ASSUME NEW i \in 1..Len(windows'), NEW j \in 1..Len(windows'),
                      windows'[i].id = windows'[j].id
               PROVE  i = j
    BY <1>1 DEF Distinct
  <2> DEFINE From(n) == IF n < k THEN n ELSE n + 1
  <2>1. \A n \in 1..Len(windows') : From(n) \in DOMAIN windows /\ windows'[n] = windows[From(n)]
    BY <1>1, <1>2
  <2>2. From(i) = From(j)
    BY <2>1 DEF Indexed, Distinct
  <2> QED
    BY <2>2, <1>1
<1>7. /\ active_window_index' \in Nat
      /\ len - 1 > 0 => active_window_index' < len - 1
      /\ len - 1 = 0 => active_window_index' = 0
  BY <1>1, <1>3, <1>4, <1>5 DEF Reindexed
<1>8. ActiveWindowExists'
  BY <1>1, <1>7 DEF ActiveWindowExists
<1> QED
  BY <1>1, <1>6, <1>7, <1>8 DEF Indexed

\* A new window goes to the end under a name of its own.
LEMMA AdditionKeepsIndexed ==
  ASSUME Indexed, NEW id \in WindowIds, NEW pane \in PaneIds, NEW size \in Sizes,
         AddWindow(id, pane, size)
  PROVE  /\ Indexed'
         /\ Len(windows) \in Nat /\ DOMAIN windows = 1..Len(windows)
         /\ DOMAIN windows' = 1..(Len(windows) + 1)
         /\ \A i \in DOMAIN windows : windows'[i] = windows[i]
         /\ windows'[Len(windows) + 1] = Window(id, WithDimensions(pane, size[1], size[2]))
<1>1. PICK L : windows \in Seq(Windows(L))
  BY DEF Indexed, IsWindowList
<1> DEFINE lay == WithDimensions(pane, size[1], size[2])
           M == L \cup {lay}
           new == Window(id, lay)
           len == Len(windows)
<1>2. /\ len \in Nat /\ DOMAIN windows = 1..len
      /\ windows = <<>> <=> len = 0
  BY <1>1, List
<1>3. new \in Windows(M) /\ Windows(L) \subseteq Windows(M) /\ new.id = id
  BY DEF Windows, Window
<1>4. windows \in Seq(Windows(M))
  BY <1>1, <1>3, SeqMonotonic
<1>5. windows' = Append(windows, new) /\ active_window_index' = active_window_index
      /\ \A i \in DOMAIN windows : windows[i].id # id
  BY DEF AddWindow, Names
<1> HIDE DEF lay, M, new, len
<1>6. /\ windows' \in Seq(Windows(M)) /\ Len(windows') = len + 1
      /\ \A i \in 1..len : windows'[i] = windows[i]
      /\ windows'[len + 1] = new
  BY <1>3, <1>4, <1>5, AppendProperties DEF len
<1>7. DOMAIN windows' = 1..(len + 1)
  BY <1>6, LenProperties
<1>8. Distinct'
  BY <1>2, <1>3, <1>5, <1>6, <1>7 DEF Indexed, Distinct
<1>9. active_window_index < len + 1 /\ active_window_index \in Nat
  <2>1. CASE windows = <<>>
    BY <2>1, <1>2 DEF Indexed
  <2>2. CASE windows # <<>>
    BY <2>2, <1>2 DEF Indexed, ActiveWindowExists, len
  <2> QED
    BY <2>1, <2>2
<1>10. windows' # <<>>
  BY <1>5, <1>4, <1>3, AppendProperties
<1>11. Indexed'
  BY <1>5, <1>6, <1>8, <1>9, <1>10 DEF Indexed, IsWindowList, ActiveWindowExists
<1> QED
  BY <1>2, <1>6, <1>7, <1>11 DEF len, lay, new

\* Every way to choose the active window by an index stays inside the list.
LEMMA MovesKeepIndexed ==
  ASSUME Indexed, UNCHANGED windows, windows # <<>>,
         active_window_index' \in Nat, active_window_index' < Len(windows)
  PROVE  Indexed'
BY DEF Indexed, IsWindowList, Distinct, ActiveWindowExists

\* The list of windows and the active index after any step.
LEMMA StepKeepsIndexed ==
  ASSUME Indexed, [Next]_vars
  PROVE  Indexed'
<1> DEFINE len == Len(windows)
<1>1. /\ len \in Nat /\ DOMAIN windows = 1..len
      /\ windows = <<>> <=> len = 0
  BY List DEF Indexed, IsWindowList
<1>2. active_window_index \in Nat /\ (windows # <<>> => active_window_index + 1 \in DOMAIN windows)
  BY <1>1 DEF Indexed, ActiveWindowExists
<1>3. \A i \in DOMAIN windows : windows[i].pane_count \in Nat
  BY List DEF Indexed, IsWindowList, Windows
<1> HIDE DEF len
<1>4. ASSUME NEW id \in WindowIds, NEW pane \in PaneIds, NEW size \in Sizes,
             AddWindow(id, pane, size)
      PROVE  Indexed'
  BY <1>4, AdditionKeepsIndexed
<1>5. ASSUME NEW id \in WindowIds, RemoveWindow(id)
      PROVE  Indexed'
  BY <1>5, RemovalKeepsIndexed
<1>6. ASSUME NEW index \in 0..Cardinality(WindowIds), SwitchWindow(index)
      PROVE  Indexed'
  <2>1. index \in Nat /\ index < Len(windows)
    BY <1>6, <1>1 DEF SwitchWindow, len
  <2> QED
    BY <2>1, <1>6, <1>1, MovesKeepIndexed DEF SwitchWindow, len
<1>7. ASSUME NextWindow
      PROVE  Indexed'
  <2>1. len > 0
    BY <1>7, <1>1 DEF NextWindow
  <2>2. (active_window_index + 1) % len \in Nat /\ (active_window_index + 1) % len < len
    BY <2>1, <1>1, <1>2
  <2> QED
    BY <2>2, <1>7, MovesKeepIndexed DEF NextWindow, len
<1>8. ASSUME PrevWindow
      PROVE  Indexed'
  <2>1. len > 0 /\ active_window_index < len
    BY <1>8, <1>1, <1>2 DEF PrevWindow
  <2>2. active_window_index' \in Nat /\ active_window_index' < len
    BY <2>1, <1>1, <1>2, <1>8 DEF PrevWindow, len
  <2> QED
    BY <2>2, <1>8, MovesKeepIndexed DEF PrevWindow, len
<1>9. ASSUME NEW dir \in Directions, NEW ratio \in Ratios, NEW new \in PaneIds,
             SplitActive(dir, ratio, new)
      PROVE  Indexed'
  <2>1. active_window_index + 1 \in DOMAIN windows
    BY <1>9, <1>2 DEF SplitActive
  <2>2. Active.pane_count + 1 \in Nat
    BY <2>1, <1>3 DEF Active
  <2> QED
    BY <2>1, <2>2, <1>9, Replaced DEF SplitActive
<1>10. ASSUME NEW i \in DOMAIN windows, NEW pane \in PaneIds, CloseOneOfMany(i, pane)
       PROVE  Indexed'
  <2>1. windows[i].pane_count - 1 \in Nat
    BY <1>10, <1>3 DEF CloseOneOfMany
  <2> QED
    BY <2>1, <1>10, Replaced DEF CloseOneOfMany
<1>11. ASSUME NEW i \in DOMAIN windows, NEW pane \in PaneIds, CloseLast(i, pane)
       PROVE  Indexed'
  <2>1. 0 \in Nat
    OBVIOUS
  <2> QED
    BY <2>1, <1>11, Replaced DEF CloseLast
<1>12. ASSUME NEW dir \in Directions, Navigate(dir)
       PROVE  Indexed'
  <2>1. active_window_index + 1 \in DOMAIN windows
    BY <1>12, <1>2 DEF Navigate
  <2>2. Active.pane_count \in Nat
    BY <2>1, <1>3 DEF Active
  <2> QED
    BY <2>1, <2>2, <1>12, Replaced DEF Navigate
<1>13. ASSUME NEW i \in DOMAIN windows, NEW size \in Sizes, ResizeWindow(i, size)
       PROVE  Indexed'
  BY <1>13, <1>3, Replaced DEF ResizeWindow
<1>14. ASSUME UNCHANGED vars
       PROVE  Indexed'
  BY <1>14 DEF vars, Indexed, IsWindowList, Distinct, ActiveWindowExists
<1> QED
  BY <1>4, <1>5, <1>6, <1>7, <1>8, <1>9, <1>10, <1>11, <1>12, <1>13, <1>14 DEF Next

\* A session starts with one window and looks at it.
LEMMA InitIndexed == Init => Indexed
<1> SUFFICES ASSUME Init PROVE Indexed
  OBVIOUS
<1>1. PICK id \in WindowIds, pane \in PaneIds, size \in Sizes :
        windows = <<Window(id, WithDimensions(pane, size[1], size[2]))>>
  BY DEF Init
<1> DEFINE lay == WithDimensions(pane, size[1], size[2])
<1>2. Window(id, lay) \in Windows({lay})
  BY DEF Windows, Window
<1>3. windows = <<Window(id, lay)>> /\ active_window_index = 0
  BY <1>1 DEF Init
<1> HIDE DEF lay
<1>4. windows \in Seq(Windows({lay})) /\ Len(windows) = 1 /\ DOMAIN windows = {1}
  BY <1>2, <1>3
<1>5. windows # <<>>
  BY <1>3
<1> QED
  BY <1>3, <1>4, <1>5 DEF Indexed, IsWindowList, Distinct, ActiveWindowExists

-----------------------------------------------------------------------------
(* The panes of the windows. *)

\* A window whose layout is a tree with as many panes as it counts, or with the
\* one it no longer counts.
Counted(layout, n) ==
  /\ ProperLayout(layout)
  /\ \/ n = Cardinality(Ids(layout.root))
     \/ n = 0 /\ Cardinality(Ids(layout.root)) = 1

Panes(i) == Ids(windows[i].layout.root)

\* The inductive invariant: WindowsOwnTheirPanes needs the layouts to be trees, which
\* splitting and closing find their panes in.
Owned ==
  /\ \A i \in DOMAIN windows : Counted(windows[i].layout, windows[i].pane_count)
  /\ \A i, j \in DOMAIN windows : i # j => Panes(i) \cap Panes(j) = {}

\* A window that gets a counted layout without the panes of any other window.
LEMMA EditKeepsOwned ==
  ASSUME Indexed, Owned, NEW i \in DOMAIN windows, NEW lay, NEW n \in Nat, Edit(i, lay, n),
         Counted(lay, n),
         \A j \in DOMAIN windows \ {i} : Ids(lay.root) \cap Panes(j) = {}
  PROVE  Owned'
<1>1. /\ DOMAIN windows' = DOMAIN windows
      /\ windows'[i].layout = lay /\ windows'[i].pane_count = n
      /\ \A j \in DOMAIN windows \ {i} : windows'[j] = windows[j]
  BY Replaced
<1>2. \A j \in DOMAIN windows' : Counted(windows'[j].layout, windows'[j].pane_count)
  BY <1>1 DEF Owned
<1>3. \A j, k \in DOMAIN windows' : j # k => Panes(j)' \cap Panes(k)' = {}
  <2>1. Panes(i)' = Ids(lay.root) /\ \A j \in DOMAIN windows \ {i} : Panes(j)' = Panes(j)
    BY <1>1 DEF Panes
  <2> QED
    BY <1>1, <2>1 DEF Owned
<1> QED
  BY <1>2, <1>3 DEF Owned

\* Removing a window takes no pane to another one.
LEMMA RemovalKeepsOwned ==
  ASSUME Indexed, Owned, NEW id \in WindowIds, RemoveWindow(id)
  PROVE  Owned'
<1> DEFINE k == Position(id)
           From(n) == IF n < k THEN n ELSE n + 1
<1>1. /\ k \in 1..Len(windows) /\ Len(windows) \in Nat
      /\ DOMAIN windows' = 1..Len(windows') /\ Len(windows') = Len(windows) - 1
      /\ \A i \in 1..Len(windows') :
           windows'[i] = IF i < k THEN windows[i] ELSE windows[i + 1]
  BY Rest
<1>2. DOMAIN windows = 1..Len(windows)
  BY List DEF Indexed, IsWindowList
<1> HIDE DEF k
<1>3. \A n \in DOMAIN windows' : From(n) \in DOMAIN windows /\ windows'[n] = windows[From(n)]
  BY <1>1, <1>2
<1>4. \A n, m \in DOMAIN windows' : n # m => From(n) # From(m)
  BY <1>1
<1> HIDE DEF From
<1>5. \A n \in DOMAIN windows' : Panes(n)' = Panes(From(n))
  BY <1>3 DEF Panes
<1> QED
  BY <1>3, <1>4, <1>5 DEF Owned

\* A new window's pane is nobody's.
LEMMA AdditionKeepsOwned ==
  ASSUME Indexed, Owned, NEW id \in WindowIds, NEW pane \in PaneIds, NEW size \in Sizes,
         AddWindow(id, pane, size)
  PROVE  Owned'
<1> PICK last \in Nat : last = Len(windows) + 1
  BY AdditionKeepsIndexed
<1> PICK lay : lay = WithDimensions(pane, size[1], size[2])
  OBVIOUS
<1>1. /\ Len(windows) \in Nat /\ DOMAIN windows = 1..Len(windows)
      /\ DOMAIN windows' = 1..last
      /\ \A i \in DOMAIN windows : windows'[i] = windows[i]
      /\ windows'[last] = Window(id, lay)
  BY AdditionKeepsIndexed
<1>2. pane \notin Used
  BY DEF AddWindow
<1>3. ProperLayout(lay) /\ Ids(lay.root) = {pane}
  <2>1. size[1] \in Nat /\ size[2] \in Nat
    BY SessionAssumption
  <2> QED
    BY <2>1, OnePane
<1>4. windows'[last].layout = lay /\ windows'[last].pane_count = 1
  BY <1>1 DEF Window
<1>5. DOMAIN windows' = DOMAIN windows \cup {last} /\ last \notin DOMAIN windows
  BY <1>1
<1>6. Counted(lay, 1)
  BY <1>3, FS_Singleton DEF Counted
<1>7. /\ Panes(last)' = {pane}
      /\ \A i \in DOMAIN windows : Panes(i)' = Panes(i) /\ pane \notin Panes(i)
  <2>1. Panes(last)' = {pane}
    BY <1>3, <1>4 DEF Panes
  <2>2. \A i \in DOMAIN windows : Panes(i)' = Panes(i)
    BY <1>1 DEF Panes
  <2>3. \A i \in DOMAIN windows : pane \notin Panes(i)
    BY <1>2 DEF Panes, Used
  <2> QED
    BY <2>1, <2>2, <2>3
<1>8. \A i \in DOMAIN windows' : Counted(windows'[i].layout, windows'[i].pane_count)
  BY <1>1, <1>4, <1>5, <1>6 DEF Owned
<1>9. \A i, j \in DOMAIN windows' : i # j => Panes(i)' \cap Panes(j)' = {}
  BY <1>5, <1>7 DEF Owned
<1> QED
  BY <1>8, <1>9 DEF Owned

\* The active window's split gives it a pane nobody has.
LEMMA SplitKeepsOwned ==
  ASSUME Indexed, Owned, NEW i \in DOMAIN windows, NEW dir \in Directions, NEW ratio \in Ratios,
         NEW new \in PaneIds, new \notin Used, windows[i].pane_count > 0,
         Edit(i, SplitPane(windows[i].layout, windows[i].layout.active, dir, ratio, new),
              windows[i].pane_count + 1)
  PROVE  Owned'
<1> DEFINE l == windows[i].layout
           lay == SplitPane(l, l.active, dir, ratio, new)
           n == windows[i].pane_count
<1>1. ProperLayout(l) /\ n = Cardinality(Ids(l.root)) /\ IsFiniteSet(Ids(l.root)) /\ l.active \in Ids(l.root)
  BY DEF Owned, Counted, ProperLayout, Proper
<1>2. new \notin Ids(l.root) /\ \A j \in DOMAIN windows : new \notin Panes(j)
  BY DEF Used, Panes
<1>3. ratio \in 0..Unit
  BY SessionAssumption
<1> HIDE DEF l
<1>4. ProperLayout(lay) /\ Ids(lay.root) = Ids(l.root) \cup {new}
  <2> PICK a \in Ids(l.root) : a = l.active
    BY <1>1
  <2>1. ProperLayout(SplitPane(l, a, dir, ratio, new))
    BY <1>1, <1>2, <1>3, SplitLayout
  <2>2. Ids(SplitPane(l, a, dir, ratio, new).root) = Ids(l.root) \cup {new}
    <3> PICK x : x = l
      OBVIOUS
    <3>1. ProperLayout(x) /\ a \in Ids(x.root) /\ new \notin Ids(x.root)
      BY <1>1, <1>2
    <3>2. \A id : id \in Ids(SplitPane(x, a, dir, ratio, new).root) <=> id \in Ids(x.root) \/ id = new
      BY ONLY <1>3, <3>1, dir \in Directions, SplitPanes
    <3> QED
      BY <3>2
  <2> QED
    BY <2>1, <2>2
<1>5. Edit(i, lay, n + 1)
  BY DEF l
<1> HIDE DEF lay, n
<1>6. Cardinality(Ids(lay.root)) = n + 1 /\ n \in Nat
  <2>1. Cardinality(Ids(l.root) \cup {new}) = n + 1
    BY ONLY <1>1, <1>2, FS_AddElement
  <2>2. n \in Nat
    BY ONLY <1>1, FS_CardinalityType
  <2> QED
    BY <1>4, <2>1, <2>2
<1>7. \A j \in DOMAIN windows \ {i} : Ids(lay.root) \cap Panes(j) = {}
  BY <1>2, <1>4 DEF Owned, Panes, l
<1>8. n + 1 \in Nat /\ Counted(lay, n + 1)
  BY <1>4, <1>6 DEF Counted
<1> QED
  BY <1>5, <1>7, <1>8, EditKeepsOwned

\* Closing one of several panes takes one from the tree and one from the count.
LEMMA CloseKeepsOwned ==
  ASSUME Indexed, Owned, NEW i \in DOMAIN windows, NEW pane, CloseOneOfMany(i, pane)
  PROVE  Owned'
<1> DEFINE l == windows[i].layout
           lay == ClosePane(l, pane)
           n == windows[i].pane_count
<1>1. ProperLayout(l) /\ n = Cardinality(Ids(l.root)) /\ IsFiniteSet(Ids(l.root))
  BY DEF CloseOneOfMany, Owned, Counted, ProperLayout, Proper
<1>2. CanClose(l, pane) /\ pane \in Ids(l.root) /\ n > 1 /\ Edit(i, lay, n - 1)
  BY DEF CloseOneOfMany, CanClose
<1>3. Panes(i) = Ids(l.root)
  BY DEF Panes
<1> HIDE DEF l, n
<1>4. ProperLayout(lay) /\ Ids(lay.root) = Ids(l.root) \ {pane}
  BY <1>1, <1>2, CloseLayout
<1> HIDE DEF lay
<1>5. Cardinality(Ids(lay.root)) = n - 1 /\ n \in Nat
  <2>1. Cardinality(Ids(l.root) \ {pane}) = n - 1
    BY ONLY <1>1, <1>2, FS_RemoveElement
  <2>2. n \in Nat
    BY ONLY <1>1, FS_CardinalityType
  <2> QED
    BY <1>4, <2>1, <2>2
<1>6. \A j \in DOMAIN windows \ {i} : Ids(lay.root) \cap Panes(j) = {}
  BY <1>3, <1>4 DEF Owned
<1>7. n - 1 \in Nat /\ Counted(lay, n - 1)
  BY <1>2, <1>4, <1>5 DEF Counted
<1> QED
  BY <1>2, <1>6, <1>7, EditKeepsOwned

\* Moving to a neighbour and resizing leave the tree as it is.
LEMMA SameTreeKeepsOwned ==
  ASSUME Indexed, Owned, NEW i \in DOMAIN windows, NEW lay, Edit(i, lay, windows[i].pane_count),
         ProperLayout(lay), lay.root = windows[i].layout.root
  PROVE  Owned'
<1>1. /\ \/ windows[i].pane_count = Cardinality(Ids(lay.root))
         \/ windows[i].pane_count = 0 /\ Cardinality(Ids(lay.root)) = 1
      /\ IsFiniteSet(Ids(lay.root))
  BY DEF Owned, Counted, ProperLayout, Proper
<1>2. windows[i].pane_count \in Nat
  BY <1>1, FS_CardinalityType
<1>3. \A j \in DOMAIN windows \ {i} : Ids(lay.root) \cap Panes(j) = {}
  BY DEF Owned, Panes
<1> QED
  BY <1>1, <1>2, <1>3, EditKeepsOwned DEF Counted

\* The last pane is no longer counted.
LEMMA CloseLastKeepsOwned ==
  ASSUME Indexed, Owned, NEW i \in DOMAIN windows, NEW pane, CloseLast(i, pane)
  PROVE  Owned'
<1> DEFINE lay == windows[i].layout
<1>1. /\ ProperLayout(lay) /\ Cardinality(Ids(lay.root)) = 1
      /\ Edit(i, lay, 0)
  BY DEF CloseLast, Owned, Counted
<1>2. \A j \in DOMAIN windows \ {i} : Ids(lay.root) \cap Panes(j) = {}
  BY DEF Owned, Panes
<1> HIDE DEF lay
<1>3. 0 \in Nat /\ Counted(lay, 0)
  BY <1>1 DEF Counted
<1> QED
  BY <1>1, <1>2, <1>3, EditKeepsOwned

\* Navigation moves the selection within one window.
LEMMA NavigateKeepsOwned ==
  ASSUME Indexed, Owned, NEW i \in DOMAIN windows, NEW dir,
         Edit(i, [windows[i].layout EXCEPT !.active = Neighbour(windows[i].layout, @, dir)],
              windows[i].pane_count)
  PROVE  Owned'
<1> DEFINE l == windows[i].layout
           to == Neighbour(l, l.active, dir)
           lay == [l EXCEPT !.active = to]
<1>1. ProperLayout(l) /\ l.active \in Ids(l.root)
  BY DEF Owned, Counted, ProperLayout
<1>2. Edit(i, lay, windows[i].pane_count)
  OBVIOUS
<1> HIDE DEF l
<1>3. to \in Ids(l.root)
  BY <1>1, NeighbourIsPane
<1> HIDE DEF to
<1>4. lay = LayoutTree(l.root, to, l.zoomed, l.width, l.height)
  BY <1>1, Rebuilt
<1> HIDE DEF lay
<1>5. ProperLayout(lay) /\ lay.root = l.root
  BY <1>1, <1>3, <1>4 DEF ProperLayout, LayoutTree
<1> QED
  BY <1>2, <1>5, SameTreeKeepsOwned DEF l

\* A new size moves no pane.
LEMMA ResizeKeepsOwned ==
  ASSUME Indexed, Owned, NEW i \in DOMAIN windows, NEW size \in Sizes, ResizeWindow(i, size)
  PROVE  Owned'
<1> DEFINE l == windows[i].layout
           w == size[1]
           h == size[2]
           lay == [l EXCEPT !.width = w, !.height = h]
<1>1. ProperLayout(l)
  BY DEF Owned, Counted
<1>2. Edit(i, lay, windows[i].pane_count)
  BY DEF ResizeWindow
<1>3. w \in Nat /\ h \in Nat
  BY SessionAssumption
<1>4. l \in [root : {l.root}, active : {l.active}, zoomed : {l.zoomed}, width : {l.width}, height : {l.height}]
  BY <1>1 DEF ProperLayout, LayoutTree
<1> HIDE DEF l, w, h
<1>5. lay \in [root : {l.root}, active : {l.active}, zoomed : {l.zoomed}, width : {w}, height : {h}]
  BY <1>4
<1> HIDE DEF lay
<1>6. lay = LayoutTree(l.root, l.active, l.zoomed, w, h)
  BY <1>5, Parts
<1>7. ProperLayout(lay) /\ lay.root = l.root
  BY <1>1, <1>3, <1>6 DEF ProperLayout, LayoutTree
<1> QED
  BY <1>2, <1>7, SameTreeKeepsOwned DEF l

\* Owned is kept by every step.
LEMMA StepKeepsOwned ==
  ASSUME Indexed, Owned, [Next]_vars
  PROVE  Owned'
<1>1. windows # <<>> => active_window_index + 1 \in DOMAIN windows
  <2>1. Len(windows) \in Nat /\ DOMAIN windows = 1..Len(windows)
    BY List DEF Indexed, IsWindowList
  <2> QED
    BY <2>1 DEF Indexed, ActiveWindowExists
<1>2. ASSUME NEW id \in WindowIds, NEW pane \in PaneIds, NEW size \in Sizes,
             AddWindow(id, pane, size)
      PROVE  Owned'
  BY <1>2, AdditionKeepsOwned
<1>3. ASSUME NEW id \in WindowIds, RemoveWindow(id)
      PROVE  Owned'
  BY <1>3, RemovalKeepsOwned
<1>4. ASSUME UNCHANGED windows
      PROVE  Owned'
  BY <1>4 DEF Owned, Panes
<1>5. ASSUME NEW dir \in Directions, NEW ratio \in Ratios, NEW new \in PaneIds,
             SplitActive(dir, ratio, new)
      PROVE  Owned'
  BY <1>1, <1>5, SplitKeepsOwned DEF SplitActive, Active
<1>6. ASSUME NEW i \in DOMAIN windows, NEW pane \in PaneIds, CloseOneOfMany(i, pane)
      PROVE  Owned'
  BY <1>6, CloseKeepsOwned
<1>7. ASSUME NEW i \in DOMAIN windows, NEW pane \in PaneIds, CloseLast(i, pane)
      PROVE  Owned'
  BY <1>7, CloseLastKeepsOwned
<1>8. ASSUME NEW dir \in Directions, Navigate(dir)
      PROVE  Owned'
  BY <1>1, <1>8, NavigateKeepsOwned DEF Navigate, Active
<1>9. ASSUME NEW i \in DOMAIN windows, NEW size \in Sizes, ResizeWindow(i, size)
      PROVE  Owned'
  BY <1>9, ResizeKeepsOwned
<1> QED
  BY <1>2, <1>3, <1>4, <1>5, <1>6, <1>7, <1>8, <1>9
     DEF Next, SwitchWindow, NextWindow, PrevWindow, vars

\* The first window holds the first pane.
LEMMA InitOwned == Init => Owned
<1> SUFFICES ASSUME Init PROVE Owned
  OBVIOUS
<1>1. PICK id \in WindowIds, pane \in PaneIds, size \in Sizes :
        windows = <<Window(id, WithDimensions(pane, size[1], size[2]))>>
  BY DEF Init
<1> DEFINE lay == WithDimensions(pane, size[1], size[2])
<1>2. size[1] \in Nat /\ size[2] \in Nat
  BY SessionAssumption
<1>3. ProperLayout(lay) /\ Ids(lay.root) = {pane}
  BY <1>2, OnePane
<1> HIDE DEF lay
<1>4. DOMAIN windows = {1} /\ windows[1].layout = lay /\ windows[1].pane_count = 1
  BY <1>1 DEF Window, lay
<1>5. Counted(lay, 1)
  BY <1>3, FS_Singleton DEF Counted
<1> QED
  BY <1>4, <1>5 DEF Owned

-----------------------------------------------------------------------------
(* The theorems. *)

\* active_window never indexes past the end of the list, whatever windows were
\* added, removed, emptied or switched to (session.rs, "active_window_index <
\* windows.len() is maintained by all mutating methods").
THEOREM ActiveWindowAlwaysExists == Spec => []ActiveWindowExists
<1>1. Indexed => ActiveWindowExists
  BY DEF Indexed
<1> QED
  BY <1>1, InitIndexed, StepKeepsIndexed, PTL DEF Spec

\* Removing a window leaves the view on the window it was on, or takes it to
\* the next one, or else to the last (remove_window's promise).
THEOREM ViewAlwaysKept == Spec => ViewIsKept
<1>1. ASSUME Indexed, NEW id \in WindowIds, RemoveWindow(id), windows' # <<>>
      PROVE  LET seen == windows'[active_window_index' + 1].id
             IN  CASE id # Active.id -> seen = Active.id
                   [] id = Active.id /\ active_window_index + 1 < Len(windows) ->
                        seen = windows[active_window_index + 2].id
                   [] OTHER -> seen = windows'[Len(windows')].id
  <2> DEFINE k == Position(id)
             len == Len(windows)
             a == active_window_index
             b == active_window_index'
  <2>1. /\ k \in 1..len /\ windows[k].id = id /\ len \in Nat
        /\ Len(windows') = len - 1
        /\ \A i \in 1..Len(windows') :
             windows'[i] = IF i < k THEN windows[i] ELSE windows[i + 1]
        /\ windows' = <<>> <=> Len(windows') = 0
    BY <1>1, Rest
  <2>2. DOMAIN windows = 1..len /\ (windows = <<>> <=> len = 0)
    BY <1>1, List DEF Indexed, IsWindowList
  <2>3. a \in Nat /\ a + 1 \in 1..len
    BY <1>1, <2>1, <2>2 DEF Indexed, ActiveWindowExists
  <2>4. b = Reindexed(k - 1, len - 1, a)
    BY <1>1 DEF RemoveWindow
  <2>5. len - 1 > 0
    BY <1>1, <2>1
  <2>6. id = Active.id <=> k = a + 1
    BY <1>1, <2>1, <2>2, <2>3 DEF Indexed, Distinct, Active
  <2> HIDE DEF k, len, a, b
  <2>7. CASE k < a + 1
    <3>1. b = a - 1 /\ b + 1 \in 1..(len - 1) /\ ~(b + 1 < k) /\ b + 2 = a + 1
      BY <2>1, <2>3, <2>4, <2>5, <2>7 DEF Reindexed
    <3>2. windows'[b + 1] = windows[a + 1]
      BY <3>1, <2>1
    <3> QED
      BY <3>2, <2>6, <2>7, <2>3, <2>1 DEF Active, a, b
  <2>8. CASE k > a + 1
    <3>1. b = a /\ b + 1 \in 1..(len - 1) /\ b + 1 < k
      BY <2>1, <2>3, <2>4, <2>5, <2>8 DEF Reindexed
    <3>2. windows'[b + 1] = windows[a + 1]
      BY <3>1, <2>1
    <3> QED
      BY <3>2, <2>6, <2>8, <2>3, <2>1 DEF Active, a, b
  <2>9. CASE k = a + 1 /\ a + 1 < len
    <3>1. b = a /\ b + 1 \in 1..(len - 1) /\ ~(b + 1 < k) /\ (b + 1) + 1 = a + 2
      BY <2>1, <2>3, <2>4, <2>5, <2>9 DEF Reindexed
    <3>2. windows'[b + 1] = windows[(b + 1) + 1]
      BY <3>1, <2>1
    <3>3. windows'[b + 1] = windows[a + 2]
      BY <3>1, <3>2
    <3> QED
      BY <3>3, <2>6, <2>9 DEF a, b, len
  <2>10. CASE k = a + 1 /\ ~(a + 1 < len)
    <3>1. b = len - 2
      BY <2>1, <2>3, <2>4, <2>5, <2>10 DEF Reindexed
    <3>2. b + 1 = Len(windows')
      BY <3>1, <2>1
    <3> QED
      BY <3>2, <2>6, <2>10 DEF a, b, len
  <2> QED
    BY <2>1, <2>3, <2>7, <2>8, <2>9, <2>10
<1>2. Indexed /\ [Next]_vars =>
        [\A id \in WindowIds : (RemoveWindow(id) /\ windows' # <<>>) =>
           LET seen == windows'[active_window_index' + 1].id
           IN  CASE id # Active.id -> seen = Active.id
                 [] id = Active.id /\ active_window_index + 1 < Len(windows) ->
                      seen = windows[active_window_index + 2].id
                 [] OTHER -> seen = windows'[Len(windows')].id]_vars
  BY <1>1
<1> QED
  BY <1>2, InitIndexed, StepKeepsIndexed, PTL DEF Spec, ViewIsKept

\* Whatever is split, closed, navigated and resized, in any windows: the count by
\* which close_pane decides that a window is empty is the number of panes in its
\* tree, or none when the last was closed, its active pane is in the tree, and no pane is in two windows (Window::split,
\* Window::close_pane, Session::handle_window_empty).
THEOREM WindowsAlwaysOwnTheirPanes == Spec => []WindowsOwnTheirPanes
<1>1. Owned => WindowsOwnTheirPanes
  BY DEF Owned, Panes, Counted, ProperLayout, WindowsOwnTheirPanes
<1> QED
  BY <1>1, InitIndexed, StepKeepsIndexed, InitOwned, StepKeepsOwned, PTL DEF Spec
===============================================================================
