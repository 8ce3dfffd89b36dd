--------------------------- MODULE ClientMirrors ----------------------------
(***************************************************************************)
(* The session actor implements FrameStream for each of its clients: a     *)
(* channel of diffs is as good as a channel of whole frames.  The frames   *)
(* in the abstract pipe are what the screen will show after each message   *)
(* of the channel.  The screen shows one pane, as main.rs sets it up.      *)
(***************************************************************************)
EXTENDS SessionActor

CONSTANT Viewer  \* the client whose screen is compared, any of them

ASSUME ViewerAssumption == Viewer \in Clients

ThePane == CHOOSE p \in Panes : TRUE

Whole ==
  [i \in 1..Len(outbox[Viewer]) |->
     RenderAll(screen[Viewer], SubSeq(outbox[Viewer], 1, i)).cells]

Stream == INSTANCE FrameStream
  WITH Frames <- [Cells -> Values],
       Empty <- BlankFrame.cells,
       source <- terminal[ThePane].cells,
       pipe <- Whole,
       shown <- screen[Viewer].cells,
       intact <- Viewer \notin dropped \cup bypassed

\* The viewer's screen moves through whole frames of the pane, in order, for as
\* long as the viewer missed nothing (compute_diff, try_send, render_diff).
ViewerMirrorsThePane == Stream!Spec

\* When the child writes no more, a client that stays and missed nothing shows in
\* the end what the pane shows, whatever has become of the other clients: one
\* whose writer has failed stays registered and holds nobody up
\* (handle_render_tick, in_process_output_writer).
ViewerCatchesUp ==
  []<>(phase # "drain") =>
    (<>[](/\ source[ThePane] = "closed" /\ phase # "stopped"
          /\ Viewer \in clients \ (dropped \cup bypassed))
       => <>[](screen[Viewer].cells = terminal[ThePane].cells))

\* Once the inbox holds the disconnect of a registered client its writer runs dry
\* and ends, whatever is queued before it: its Sender is let go by then and by
\* nobody kept (handle_client_disconnected, in_process_output_writer).
WriterEndsWithItsClient ==
  /\ Viewer \in clients
  /\ ClientDisconnected(Viewer) \in Range(inbox)
  ~> writer[Viewer] = "exited"
=============================================================================
