-------------------------------- MODULE Session --------------------------------
(***************************************************************************)
(* A session: its list of windows and the index of the active one          *)
(* (session.rs), each window a LayoutTree with a count of its panes        *)
(* (window.rs). A window whose last pane was closed is the caller's to     *)
(* remove, with handle_window_empty, as the two files document; it may do  *)
(* other things first, but does not split that window. Ids of windows and  *)
(* panes are the caller's and fresh. Windows are numbered from zero, as in *)
(* the code.                                                               *)
(***************************************************************************)
EXTENDS Layout

CONSTANTS
  WindowIds,   \* identifiers of windows
  PaneIds,     \* identifiers of panes
  Sizes,       \* sizes of a window, as <<columns, rows>>
  Ratios       \* ratios of a split

ASSUME SessionAssumption ==
  /\ NoPane \notin PaneIds
  /\ Sizes \subseteq Nat \X Nat
  /\ Ratios \subseteq 0..Unit

VARIABLES
  windows,              \* Vec<Window>
  active_window_index

vars == <<windows, active_window_index>>

Window(id, layout) == [id |-> id, layout |-> layout, pane_count |-> 1]

Used == UNION {Ids(windows[i].layout.root) : i \in DOMAIN windows}
Names == {windows[i].id : i \in DOMAIN windows}
Position(id) == CHOOSE i \in DOMAIN windows : windows[i].id = id

\* active_window
Active == windows[active_window_index + 1]

Init ==
  /\ \E id \in WindowIds, pane \in PaneIds, size \in Sizes :
       windows = <<Window(id, WithDimensions(pane, size[1], size[2]))>>
  /\ active_window_index = 0

AddWindow(id, pane, size) ==
  /\ id \notin Names /\ pane \notin Used
  /\ windows' = Append(windows, Window(id, WithDimensions(pane, size[1], size[2])))
  /\ UNCHANGED active_window_index

\* Mutant: the index is clamped and never shifted.
Reindexed_ClampsOnly(pos, left, index) ==
  IF left > 0 /\ index >= left THEN left - 1 ELSE index

\* Where remove_window leaves the index when the window at pos (from zero) is
\* gone and so many are left.
Reindexed(pos, left, index) ==
  CASE left = 0 -> index
    [] left > 0 /\ index >= left -> left - 1
    [] left > 0 /\ index < left /\ pos < index -> index - 1
    [] OTHER -> index

\* remove_window, and handle_window_empty, which is no more than that.
RemoveWindow(id) ==
  /\ id \in Names
  /\ windows' = RemoveAt(windows, Position(id))
  /\ active_window_index' =
       Reindexed(Position(id) - 1, Len(windows) - 1, active_window_index)

\* Mutant: an index past the end is accepted.
SwitchWindow_AnyIndex(index) ==
  /\ active_window_index' = index
  /\ UNCHANGED windows

SwitchWindow(index) ==
  /\ index < Len(windows)
  /\ active_window_index' = index
  /\ UNCHANGED windows

NextWindow ==
  /\ windows # <<>>
  /\ active_window_index' = (active_window_index + 1) % Len(windows)
  /\ UNCHANGED windows

PrevWindow ==
  /\ windows # <<>>
  /\ active_window_index' =
       IF active_window_index = 0 THEN Len(windows) - 1 ELSE active_window_index - 1
  /\ UNCHANGED windows

-----------------------------------------------------------------------------
(* The active window's own operations (active_window_mut).                   *)

\* Window i gets another layout and another count of panes.
Edit(i, layout, pane_count) ==
  /\ windows' = [windows EXCEPT ![i] =
       [id |-> windows[i].id, layout |-> layout, pane_count |-> pane_count]]
  /\ UNCHANGED active_window_index

\* Window::split_active. The caller leaves a window alone that it is to remove.
SplitActive(dir, ratio, new) ==
  /\ windows # <<>>
  /\ Active.pane_count > 0
  /\ new \notin Used
  /\ CanSplit(Active.layout, Active.layout.active, dir, ratio)
  /\ Edit(active_window_index + 1,
          SplitPane(Active.layout, Active.layout.active, dir, ratio, new), Active.pane_count + 1)

\* Mutant: the count is not kept.
CloseOneOfMany_KeepsCount(i, pane) ==
  /\ windows[i].pane_count > 1 /\ CanClose(windows[i].layout, pane)
  /\ Edit(i, ClosePane(windows[i].layout, pane), windows[i].pane_count)

\* PaneClosed: the window has other panes.
CloseOneOfMany(i, pane) ==
  /\ windows[i].pane_count > 1
  /\ CanClose(windows[i].layout, pane)
  /\ Edit(i, ClosePane(windows[i].layout, pane), windows[i].pane_count - 1)

\* WindowEmpty: the last pane stays in the tree, the count does not.
CloseLast(i, pane) ==
  /\ windows[i].pane_count = 1
  /\ pane \in Ids(windows[i].layout.root)
  /\ Edit(i, windows[i].layout, 0)

Navigate(dir) ==
  /\ windows # <<>>
  /\ Edit(active_window_index + 1,
          [Active.layout EXCEPT !.active = Neighbour(Active.layout, @, dir)], Active.pane_count)

ResizeWindow(i, size) ==
  /\ Edit(i, [windows[i].layout EXCEPT !.width = size[1], !.height = size[2]],
          windows[i].pane_count)

Next ==
  \/ \E id \in WindowIds, pane \in PaneIds, size \in Sizes : AddWindow(id, pane, size)
  \/ \E id \in WindowIds : RemoveWindow(id)
  \/ \E index \in 0..Cardinality(WindowIds) : SwitchWindow(index)
  \/ NextWindow
  \/ PrevWindow
  \/ \E dir \in Directions, ratio \in Ratios, new \in PaneIds : SplitActive(dir, ratio, new)
  \/ \E i \in DOMAIN windows, pane \in PaneIds : CloseOneOfMany(i, pane) \/ CloseLast(i, pane)
  \/ \E dir \in Directions : Navigate(dir)
  \/ \E i \in DOMAIN windows, size \in Sizes : ResizeWindow(i, size)

Spec == Init /\ [][Next]_vars

-----------------------------------------------------------------------------
(* Properties.                                                               *)

\* "active_window_index < windows.len() is maintained by all mutating methods"
\* as long as there is a window: active_window never indexes past the end,
\* whatever is removed before, at or after the active window.
ActiveWindowExists == windows # <<>> => active_window_index < Len(windows)

\* The count with which close_pane decides that a window is empty is the
\* number of panes in its tree, or none where the last one was closed and the
\* window waits to be removed; the pane it takes keys for is one of them, and no
\* other window has any of them.
WindowsOwnTheirPanes ==
  \A i \in DOMAIN windows :
    LET panes == Ids(windows[i].layout.root)
    IN  /\ \/ windows[i].pane_count = Cardinality(panes)
           \/ windows[i].pane_count = 0 /\ Cardinality(panes) = 1
        /\ windows[i].layout.active \in panes
        /\ \A j \in DOMAIN windows \ {i} : panes \cap Ids(windows[j].layout.root) = {}

\* A window that is removed takes no other window's place: whoever looks at a
\* window goes on looking at it when another one goes away, and at the next
\* one, or else the last, when that very window does.
ViewIsKept ==
  [][\A id \in WindowIds : (RemoveWindow(id) /\ windows' # <<>>) =>
        LET seen == windows'[active_window_index' + 1].id
        IN  CASE id # Active.id -> seen = Active.id
              [] id = Active.id /\ active_window_index + 1 < Len(windows) ->
                   seen = windows[active_window_index + 2].id
              [] OTHER -> seen = windows'[Len(windows')].id]_vars
=============================================================================
