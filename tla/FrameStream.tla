---------------------------- MODULE FrameStream -----------------------------
(***************************************************************************)
(* What the server promises somebody who watches a pane: the screen shows  *)
(* whole frames of that pane, in the order the pane went through them,     *)
(* possibly skipping some and never a mixture of two.  The promise ends    *)
(* when the viewer is told that, or finds that, a frame was not delivered. *)
(***************************************************************************)
EXTENDS Sequences, SequencesExt

CONSTANTS
  Frames,  \* the frames a pane may show
  Empty    \* what the pane and the screen show at first

VARIABLES
  source,  \* the frame the pane shows now
  pipe,    \* whole frames on their way to the viewer, oldest first
  shown,   \* the frame on the viewer's screen
  intact   \* nothing was lost on the way

vars == <<source, pipe, shown, intact>>

Init ==
  /\ source = Empty /\ shown = Empty
  /\ pipe = <<>>
  /\ intact = TRUE

\* The newest frame the viewer was sent.
Newest == IF pipe = <<>> THEN shown ELSE Last(pipe)

Change == source' \in Frames /\ UNCHANGED <<pipe, shown, intact>>

\* The current frame is sent.
Take == pipe' = Append(pipe, source) /\ UNCHANGED <<source, shown, intact>>

\* A viewer joins: a greeting that shows nothing new, then the current frame.
Attach ==
  /\ pipe' = pipe \o <<Newest, source>>
  /\ UNCHANGED <<source, shown, intact>>

Show ==
  /\ pipe # <<>>
  /\ shown' = Head(pipe)
  /\ pipe' = Tail(pipe)
  /\ UNCHANGED <<source, intact>>

\* From here on nothing is promised.
Lose == intact' = FALSE

Next == Lose \/ (intact /\ (Change \/ Take \/ Attach \/ Show))

Spec == Init /\ [][Next]_vars
=============================================================================
