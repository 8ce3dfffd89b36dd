---------------------------- MODULE SessionActor ----------------------------
(***************************************************************************)
(* The session actor (actor/mod.rs) with its bounded inbox, one bounded    *)
(* channel to each client, and the output writer at the end of each        *)
(* channel (teamucks/src/client.rs).                                       *)
(*                                                                         *)
(* The program's senders are main.rs, which registers a client, the input  *)
(* readers and the PTY readers: they append to the inbox while it has room *)
(* and block otherwise.  No task of the program sends ClientDisconnected,  *)
(* HostResize or Shutdown yet; they belong to the actor's interface, and   *)
(* the model has a caller who may send them, as the actor's tests do.      *)
(*                                                                         *)
(* A handler is one step; the writers and the senders run between          *)
(* handlers.  A writer that frees a slot in the middle of a handler is the *)
(* same behaviour as one that frees it just before.                        *)
(***************************************************************************)
EXTENDS Frames

CONSTANTS
  Clients,         \* client ids; ClientId::next never hands one out twice
  NoClient,        \* Option::None of focused_client
  PaneIds,         \* the ids a message may name
  Panes,           \* the ids in the actor's pane map
  Visible,         \* the panes of the active window's layout, in its order
  ActivePane,      \* the active window's active pane
  InputKinds,      \* the kinds of ClientMessage the clients send
  Signals,         \* of HostResize and Shutdown, what a caller may send
  InboxCapacity,   \* slots of the SessionMsg channel (main.rs: 512)
  ClientCapacity   \* slots of a client's channel (main.rs: 64)

ASSUME ActorAssumption ==
  /\ NoClient \notin Clients
  /\ Clients \cap PaneIds = {}
  /\ Panes \subseteq PaneIds /\ IsFiniteSet(Panes)
  /\ ActivePane \in PaneIds
  /\ Visible \in Seq(Panes)
  /\ InputKinds \subseteq {"KeyEvent", "Other"}
  /\ Signals \subseteq {"HostResize", "Shutdown"}
  /\ InboxCapacity \in Nat \ {0}
  /\ ClientCapacity \in Nat \ {0}

VARIABLES
  phase,        \* where the event loop is: "drain", "wait" or "stopped"
  tickDue,      \* the render interval has elapsed
  inbox,        \* the SessionMsg channel
  clients,      \* the registered clients
  focused,      \* focused_client
  terminal,     \* what each pane's emulator shows
  lastFrame,    \* each pane's last_frame
  dirty,        \* dirty_panes
  layoutDirty,  \* layout_dirty
  outbox,       \* each client's ServerMessage channel
  writer,       \* each client's output writer: "running" or "exited"
  screen,       \* the host terminal each writer paints
  source,       \* environment: how far each client and PTY reader has come
  dropped,      \* auxiliary: clients that try_send or their writer failed
  bypassed,     \* auxiliary: clients that another's full frame left behind
  typists       \* auxiliary: whose keys the active pane got, in turn

actorVars == <<phase, tickDue, clients, focused, terminal, lastFrame, dirty,
               layoutDirty>>
clientVars == <<outbox, writer, screen>>
auxVars == <<dropped, bypassed, typists>>
vars == <<actorVars, inbox, clientVars, source, auxVars>>

-----------------------------------------------------------------------------
\* The variants of SessionMsg.
NewClient(c) == [type |-> "NewClient", id |-> c]
ClientInput(c, kind) == [type |-> "ClientInput", id |-> c, message |-> kind]
ClientDisconnected(c) == [type |-> "ClientDisconnected", id |-> c]
PtyOutput(p, chunk) == [type |-> "PtyOutput", pane |-> p, data |-> chunk]
PaneDied(p) == [type |-> "PaneDied", pane |-> p]
Signal(s) == [type |-> s]
Shutdown == Signal("Shutdown")

SessionMsg ==
  {NewClient(c) : c \in Clients}
    \cup {ClientInput(c, k) : c \in Clients, k \in InputKinds}
    \cup {ClientDisconnected(c) : c \in Clients}
    \cup {PtyOutput(p, d) : p \in PaneIds, d \in Chunks}
    \cup {PaneDied(p) : p \in PaneIds}
    \cup {Signal(s) : s \in Signals}

TypeOK ==
  /\ phase \in {"drain", "wait", "stopped"}
  /\ tickDue \in BOOLEAN
  /\ inbox \in Seq(SessionMsg) /\ Len(inbox) <= InboxCapacity
  /\ clients \subseteq Clients
  /\ focused \in Clients \cup {NoClient}
  /\ terminal \in [Panes -> Frame]
  /\ lastFrame \in [Panes -> Frame \cup {NoFrame}]
  /\ dirty \subseteq Panes
  /\ layoutDirty \in BOOLEAN
  /\ outbox \in [Clients -> Seq(ServerMessage)]
  /\ \A c \in Clients : Len(outbox[c]) <= ClientCapacity
  /\ writer \in [Clients -> {"running", "exited"}]
  /\ screen \in [Clients -> Frame]
  /\ source \in [Clients \cup PaneIds -> {"new", "open", "closed"}]
  /\ dropped \subseteq Clients
  /\ bypassed \subseteq Clients
  /\ typists \in Seq(Clients)

\* A client's reader exists once it connects, a pane's from the start.
Init ==
  /\ phase = "drain" /\ tickDue = TRUE
  /\ inbox = <<>>
  /\ clients = {} /\ focused = NoClient
  /\ terminal = [p \in Panes |-> BlankFrame]
  /\ lastFrame = [p \in Panes |-> NoFrame]
  /\ dirty = {} /\ layoutDirty = FALSE
  /\ outbox = [c \in Clients |-> <<>>]
  /\ writer = [c \in Clients |-> "running"]
  /\ screen = [c \in Clients |-> BlankFrame]
  /\ source = [s \in Clients \cup PaneIds |-> IF s \in Clients THEN "new"
                                                               ELSE "open"]
  /\ dropped = {} /\ bypassed = {} /\ typists = <<>>

-----------------------------------------------------------------------------
(***************************************************************************)
(* The senders.                                                            *)
(***************************************************************************)
\* Sender::send: waits for a slot, fails once the actor has gone.
Send(msg) ==
  /\ phase # "stopped"
  /\ Len(inbox) < InboxCapacity
  /\ inbox' = Append(inbox, msg)
  /\ UNCHANGED <<actorVars, clientVars, auxVars>>

Move(s, from, to) ==
  /\ source[s] = from
  /\ source' = [source EXCEPT ![s] = to]

Connect(c) == Move(c, "new", "open") /\ Send(NewClient(c))
SendInput(c, kind) ==
  source[c] = "open" /\ Send(ClientInput(c, kind)) /\ UNCHANGED source

\* EOF, a read error or a closed inbox, or main.rs aborts the reader: it ends
\* and tells nobody, so the client stays registered.  Where the clients send no
\* input at all (InputKinds is empty) a reader that ends cannot be told from
\* one that goes on.
EndInput(c) ==
  /\ InputKinds # {}
  /\ Move(c, "open", "closed")
  /\ UNCHANGED <<actorVars, inbox, clientVars, auxVars>>

\* pty_reader: output until EOF or an error, then PaneDied and nothing more.
ReadPty(p, chunk) ==
  source[p] = "open" /\ Send(PtyOutput(p, chunk)) /\ UNCHANGED source
EndPty(p) == Move(p, "open", "closed") /\ Send(PaneDied(p))

\* What only a caller of the actor sends.  It announces a client that is in the
\* registry or on its way there, be its reader running or not, and does not
\* repeat itself while the message waits; the rest would only fill the inbox.
Announce(c) ==
  /\ c \in clients \/ NewClient(c) \in Range(inbox)
  /\ ClientDisconnected(c) \notin Range(inbox)
  /\ Send(ClientDisconnected(c)) /\ UNCHANGED source
Raise(signal) == Send(Signal(signal)) /\ UNCHANGED source

-----------------------------------------------------------------------------
(***************************************************************************)
(* The client channels.                                                    *)
(***************************************************************************)
Room(c) ==
  IF writer[c] = "running" THEN ClientCapacity - Len(outbox[c]) ELSE 0

\* How many of n messages sent in a row with try_send get through to c.
Sent(c, n) == IF n <= Room(c) THEN n ELSE Room(c)

\* Client c's channel after try_send of each of msgs.
TrySend(c, msgs) == outbox[c] \o SubSeq(msgs, 1, Sent(c, Len(msgs)))

-----------------------------------------------------------------------------
(***************************************************************************)
(* The handlers: what dispatch does with the message it took.              *)
(***************************************************************************)
\* The panes a joining client is shown.
Greeted == Range(Visible)

\* Mutant: a joining client is not sent what the panes show.
Greeting_NoFrames == <<Handshake>>

Greeting ==
  <<Handshake>> \o [i \in 1..Len(Visible) |-> FullFrame(terminal[Visible[i]])]

\* Pane::full_frame resets last_frame, so what a pane had changed since the
\* last diff reaches nobody but the client that is joining.
Absorbed ==
  \E p \in Greeted : /\ lastFrame[p] # NoFrame
                     /\ lastFrame[p].cells # terminal[p].cells

\* Mutant: a joining client takes the focus.
HandleNewClient_TakesFocus(c) ==
  /\ focused' = c
  /\ clients' = clients \cup {c}
  /\ UNCHANGED <<terminal, lastFrame, dirty, layoutDirty, outbox, auxVars>>

HandleNewClient(c) ==
  /\ focused' = IF focused = NoClient THEN c ELSE focused
  /\ clients' = clients \cup {c}
  /\ outbox' = [outbox EXCEPT ![c] = TrySend(c, Greeting)]
  /\ lastFrame' = [p \in Panes |-> IF p \in Greeted THEN terminal[p]
                                                    ELSE lastFrame[p]]
  /\ dropped' = IF Sent(c, Len(Greeting)) < Len(Greeting)
                THEN dropped \cup {c} ELSE dropped
  /\ bypassed' = IF Absorbed THEN bypassed \cup (clients \ {c}) ELSE bypassed
  /\ UNCHANGED <<terminal, dirty, layoutDirty, typists>>

\* Only a KeyEvent does anything yet, and only the focused client's keys go to
\* the active pane, if there is one.
HandleClientInput(c, kind) ==
  /\ typists' = IF /\ focused = c
                   /\ kind = "KeyEvent"
                   /\ ActivePane \in Panes
                   /\ typists = <<>> \/ Last(typists) # c
                THEN Append(typists, c)
                ELSE typists
  /\ UNCHANGED <<clients, focused, terminal, lastFrame, dirty, layoutDirty,
                 outbox, dropped, bypassed>>

\* Mutant: the focus is not passed on.
HandleClientDisconnected_KeepsFocus(c) ==
  /\ clients' = clients \ {c}
  /\ UNCHANGED <<focused, terminal, lastFrame, dirty, layoutDirty, outbox,
                 auxVars>>

\* Mutant: only the focused client is looked for.
HandleClientDisconnected_FocusedOnly(c) ==
  /\ clients' = IF focused = c THEN clients \ {c} ELSE clients
  /\ IF focused = c
     THEN focused' \in (IF clients' = {} THEN {NoClient} ELSE clients')
     ELSE focused' = focused
  /\ UNCHANGED <<terminal, lastFrame, dirty, layoutDirty, outbox, auxVars>>

\* keys().next() of a hash map: any of the remaining clients.
HandleClientDisconnected(c) ==
  /\ clients' = clients \ {c}
  /\ IF focused = c
     THEN focused' \in (IF clients' = {} THEN {NoClient} ELSE clients')
     ELSE focused' = focused
  /\ UNCHANGED <<terminal, lastFrame, dirty, layoutDirty, outbox, auxVars>>

\* Mutant: the pane is fed and not marked dirty.
HandlePtyOutput_NotMarked(p, chunk) ==
  /\ terminal' = IF p \in Panes
                 THEN [terminal EXCEPT ![p] = Feed(@, chunk)]
                 ELSE terminal
  /\ UNCHANGED <<clients, focused, lastFrame, dirty, layoutDirty, outbox,
                 auxVars>>

HandlePtyOutput(p, chunk) ==
  /\ terminal' = IF p \in Panes
                 THEN [terminal EXCEPT ![p] = Feed(@, chunk)]
                 ELSE terminal
  /\ dirty' = dirty \cup ({p} \cap Panes)
  /\ UNCHANGED <<clients, focused, lastFrame, layoutDirty, outbox, auxVars>>

\* A stub in the code: the pane stays in the map.
HandlePaneDied ==
  UNCHANGED <<clients, focused, terminal, lastFrame, dirty, layoutDirty,
              outbox, auxVars>>

HandleHostResize ==
  /\ layoutDirty' = TRUE
  /\ UNCHANGED <<clients, focused, terminal, lastFrame, dirty, outbox, auxVars>>

HandleShutdown ==
  UNCHANGED <<clients, focused, terminal, lastFrame, dirty, layoutDirty,
              outbox, auxVars>>

Dispatch(msg) ==
  \/ msg.type = "NewClient" /\ HandleNewClient(msg.id)
  \/ msg.type = "ClientInput" /\ HandleClientInput(msg.id, msg.message)
  \/ msg.type = "ClientDisconnected" /\ HandleClientDisconnected(msg.id)
  \/ msg.type = "PtyOutput" /\ HandlePtyOutput(msg.pane, msg.data)
  \/ msg.type = "PaneDied" /\ HandlePaneDied
  \/ msg.type = "HostResize" /\ HandleHostResize
  \/ msg.type = "Shutdown" /\ HandleShutdown

-----------------------------------------------------------------------------
(***************************************************************************)
(* The event loop.                                                         *)
(***************************************************************************)
\* try_recv in the drain phase, or the recv branch of select!.  After either
\* the loop drains; a Shutdown ends it and closes the inbox.
Receive ==
  /\ phase \in {"drain", "wait"}
  /\ inbox # <<>>
  /\ Dispatch(Head(inbox))
  /\ IF Head(inbox).type = "Shutdown"
     THEN phase' = "stopped" /\ inbox' = <<>>
     ELSE phase' = "drain" /\ inbox' = Tail(inbox)
  /\ UNCHANGED <<tickDue, writer, screen, source>>

\* TryRecvError::Empty ends the drain phase.
Drained ==
  /\ phase = "drain"
  /\ inbox = <<>>
  /\ phase' = "wait"
  /\ UNCHANGED <<tickDue, clients, focused, terminal, lastFrame, dirty,
                 layoutDirty, inbox, clientVars, source, auxVars>>

\* MissedTickBehavior::Skip: ticks that nobody waited for are one tick.
TimerFires ==
  /\ phase # "stopped"
  /\ ~tickDue
  /\ tickDue' = TRUE
  /\ UNCHANGED <<phase, clients, focused, terminal, lastFrame, dirty,
                 layoutDirty, inbox, clientVars, source, auxVars>>

\* The diffs of the panes of order, computed one after the other.
Diffs(order) ==
  [i \in 1..Len(order) |-> ComputeDiff(lastFrame[order[i]], terminal[order[i]])]

\* Mutant: a tick without clients leaves the dirty set alone.
RenderTick_NeedsClients ==
  /\ phase = "wait"
  /\ tickDue
  /\ phase' = "drain" /\ tickDue' = FALSE
  /\ clients # {} => dirty' = {}
  /\ clients = {} => dirty' = dirty
  /\ UNCHANGED <<clients, focused, terminal, lastFrame, layoutDirty, inbox,
                 clientVars, source, auxVars>>

\* Mutant: the broadcast ends with the first client that cannot be sent to.
RenderTick_UntilOneFails ==
  /\ phase = "wait"
  /\ tickDue
  /\ phase' = "drain" /\ tickDue' = FALSE
  /\ layoutDirty' = FALSE
  /\ dirty' = {}
  /\ lastFrame' = [p \in Panes |-> IF p \in dirty THEN terminal[p]
                                                  ELSE lastFrame[p]]
  /\ LET failing == {c \in clients : Room(c) < Cardinality(dirty)}
     IN  \E order \in SetToSeqs(dirty) :
           /\ outbox' = [c \in Clients |-> IF c \in clients /\ failing = {}
                                           THEN TrySend(c, Diffs(order))
                                           ELSE outbox[c]]
           /\ dropped' = dropped \cup failing
  /\ UNCHANGED <<clients, focused, terminal, inbox, writer, screen, source,
                 bypassed, typists>>

\* handle_render_tick: draining the hash set gives the panes in any order.
RenderTick ==
  /\ phase = "wait"
  /\ tickDue
  /\ phase' = "drain" /\ tickDue' = FALSE
  /\ layoutDirty' = FALSE
  /\ dirty' = {}
  /\ lastFrame' = [p \in Panes |-> IF p \in dirty THEN terminal[p]
                                                  ELSE lastFrame[p]]
  /\ \E order \in SetToSeqs(dirty) :
       /\ outbox' = [c \in Clients |-> IF c \in clients
                                       THEN TrySend(c, Diffs(order))
                                       ELSE outbox[c]]
       /\ dropped' = dropped
                       \cup {c \in clients : Sent(c, Len(order)) < Len(order)}
  /\ UNCHANGED <<clients, focused, terminal, inbox, writer, screen, source,
                 bypassed, typists>>

-----------------------------------------------------------------------------
(***************************************************************************)
(* The output writers.                                                     *)
(***************************************************************************)
WriterPaints(c) ==
  /\ writer[c] = "running"
  /\ outbox[c] # <<>>
  /\ screen' = [screen EXCEPT ![c] = Render(@, Head(outbox[c]))]
  /\ outbox' = [outbox EXCEPT ![c] = Tail(@)]
  /\ UNCHANGED <<actorVars, inbox, writer, source, auxVars>>

\* The sending half lives in the registry, or in the NewClient on its way.
SenderDropped(c) ==
  /\ source[c] # "new"
  /\ c \notin clients \/ phase = "stopped"
  /\ NewClient(c) \notin Range(inbox)

\* recv() returned None: the channel is closed and empty.
WriterEnds(c) ==
  /\ writer[c] = "running"
  /\ outbox[c] = <<>>
  /\ SenderDropped(c)
  /\ writer' = [writer EXCEPT ![c] = "exited"]
  /\ UNCHANGED <<actorVars, inbox, outbox, screen, source, auxVars>>

\* A write error (a handshake writes nothing): the writer exits, its receiver
\* is dropped, nobody is told.
WriterFails(c) ==
  /\ writer[c] = "running"
  /\ outbox[c] # <<>>
  /\ Head(outbox[c]) # Handshake
  /\ writer' = [writer EXCEPT ![c] = "exited"]
  /\ outbox' = [outbox EXCEPT ![c] = <<>>]
  /\ dropped' = dropped \cup {c}
  /\ UNCHANGED <<actorVars, inbox, screen, source, bypassed, typists>>

-----------------------------------------------------------------------------
Senders ==
  \/ \E c \in Clients : Connect(c) \/ EndInput(c)
  \/ \E c \in Clients, kind \in InputKinds : SendInput(c, kind)
  \/ \E p \in PaneIds, chunk \in Chunks : ReadPty(p, chunk)
  \/ \E p \in PaneIds : EndPty(p)

Callers ==
  \/ \E c \in Clients : Announce(c)
  \/ \E signal \in Signals : Raise(signal)

Writers == \E c \in Clients : WriterPaints(c) \/ WriterEnds(c) \/ WriterFails(c)

Next ==
  \/ Receive \/ Drained \/ TimerFires \/ RenderTick
  \/ Senders \/ Callers \/ Writers

Spec == Init /\ [][Next]_vars

\* The runtime polls the actor's task, the interval and the writers as long as
\* they can run.  select! polls its ready branches in random order, so the
\* tick branch is not passed over for ever.  No sender and no caller has to
\* send.
Fairness ==
  /\ WF_vars(Receive \/ Drained)
  /\ WF_vars(TimerFires)
  /\ SF_vars(RenderTick)
  /\ \A c \in Clients : WF_vars(WriterPaints(c)) /\ WF_vars(WriterEnds(c))

FairSpec == Spec /\ Fairness

-----------------------------------------------------------------------------
(***************************************************************************)
(* Properties.                                                             *)
(***************************************************************************)
\* Somebody has the focus exactly when somebody is registered, and it is one who
\* is: keys are never steered by a client whose disconnect has been handled
\* (handle_new_client, handle_client_disconnected).
FocusIsRegistered ==
  /\ focused \in clients \cup {NoClient}
  /\ focused = NoClient <=> clients = {}

\* The keyboard changes hands only when the disconnect of its holder has been
\* handled, so the keys of two registered clients never mix in a pane; a holder
\* whose reader has ended in silence keeps it (handle_client_input).
OneTypistAtATime ==
  \A i \in 1..Len(typists) - 1 : typists[i] \notin clients

\* Why OneTypistAtATime holds, the first part: a client is announced once, and
\* before that it is not registered and has not typed.
Registered(c) ==
  /\ \A i, j \in 1..Len(inbox) :
       inbox[i] = NewClient(c) /\ inbox[j] = NewClient(c) => i = j
  /\ NewClient(c) \in Range(inbox) => c \notin clients \cup Range(typists)
  /\ source[c] = "new" => /\ c \notin clients \cup Range(typists)
                          /\ NewClient(c) \notin Range(inbox)

Registration == \A c \in Clients : Registered(c)

\* The second part: of those who typed, only the last may still be registered,
\* and then it holds the focus.
LastTypistHasFocus ==
  \A i \in 1..Len(typists) :
    typists[i] \in clients => i = Len(typists) /\ focused = typists[i]

\* Nothing a pane shows is forgotten: outside the dirty set the last frame sent
\* is the current one (handle_pty_output, handle_render_tick, full_frame).
CleanPanesAreSent ==
  \A p \in Panes \ dirty :
    \/ lastFrame[p] = terminal[p]
    \/ lastFrame[p] = NoFrame /\ terminal[p] = BlankFrame

\* A client that missed nothing rebuilds, from what is on its screen and what
\* is in its channel, exactly the cells of the last frame: the diffs of
\* render/diff.rs compose.  The screen shows one pane, as main.rs sets it up.
InStep ==
  \A c \in clients \ (dropped \cup bypassed), p \in Panes :
    RenderAll(screen[c], outbox[c]).cells = lastFrame[p].cells

\* As long as the drain phase ends now and then, every change is painted or
\* the actor stops: messages that come in between do not put it off for ever
\* (run: select! picks among its ready branches).
ChangesArePainted ==
  []<>(phase # "drain") =>
    \A p \in Panes : (p \in dirty) ~> (p \notin dirty \/ phase = "stopped")
=============================================================================
