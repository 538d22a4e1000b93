------------------------------- MODULE Session -------------------------------
(***************************************************************************)
(* One live session of the daemon (session.rs, struct Session) and every   *)
(* thread that works on it at once:                                        *)
(*                                                                         *)
(*   - one connection task per attached client (handle_attach, lib.rs),    *)
(*     which attaches once, then focuses, types, resizes, detaches, and at *)
(*     last disconnects;                                                   *)
(*   - the tasks that call close(): a Kill or Stop request;                *)
(*   - the tasks of a control-plane Resize request;                        *)
(*   - the thread that waits for the child process;                        *)
(*   - the parser thread, which broadcasts the PTY's output.               *)
(*                                                                         *)
(* Every field of Session has a mutex (or is atomic) of its own, and most  *)
(* operations take several of them one after the other.  One action here   *)
(* is one such critical section, so that all interleavings the locks allow *)
(* are behaviours.  A section that holds one mutex while it takes another  *)
(* is split only where somebody can get in between.                        *)
(*                                                                         *)
(* A definition named Mistake... is a plausible wrong form of the one that *)
(* follows it; no action uses it, the runs must tell the two apart.        *)
(***************************************************************************)
EXTENDS Naturals, FiniteSets

CONSTANTS Clients,       \* the connections that attach to this session
          FrameClients,  \* those that attach with AttachMode::Frame
          Resizers,      \* connections that send a control-plane Resize
          Closers,       \* tasks that call close()
          Sizes,         \* terminal sizes
          MaxOps,        \* bound: commands a client sends after its attach
          MaxOutput,     \* bound: batches of output the parser thread handles
          Nobody         \* no client: Option::None

Parser == "parser"   \* as the holder of event_lock
Free   == "free"     \* nobody holds the lock
Gone   == "gone"     \* pty_writer was taken

ASSUME SessionAssumption ==
    /\ FrameClients \subseteq Clients
    /\ Clients \cap {Nobody, Parser, Free, Gone} = {}
    /\ Clients \cap Resizers = {}
    /\ Sizes # {}
    /\ MaxOps \in Nat /\ MaxOutput \in Nat

BytesClients == Clients \ FrameClients
Procs == Clients \cup Resizers

VARIABLES
    \* the fields of Session
    attached,    \* keys of attached_clients
    size,        \* AttachedClient width and height, per client
    shown,       \* AttachedClient.attached, per client
    active,      \* active_client_id
    pty,         \* the size the PTY has
    width,       \* Session.width   (the size it was taken from)
    height,      \* Session.height  (the size it was taken from)
    screen,      \* the size of the vt100 screen
    out,         \* batches appended to the scrollback and to the screen
    exited, closed,
    killed,      \* child_killer was taken and used
    writer,      \* who holds pty_writer; "gone" once it was taken
    master,      \* pty_master is Some
    eventLock,   \* who holds event_lock
    dropping,    \* the parser thread holds attached_clients, removing clients
    \* the world
    alive,       \* the child process runs
    \* the threads
    pc, op, sz,  \* of each connection: where it is, in what, with which size
    ops,         \* commands a client has sent
    kpc,         \* of each closer
    wpc,         \* of the exit waiter
    ppc,         \* of the parser thread
    overflowed,  \* the parser thread's overflowed_clients
    tookActive,  \* ... and its removed_active
    \* what the clients were sent
    stream,      \* the last batch in the client's snapshot or queue
    told,        \* how the client's queue was ended
    recent       \* history: the last client to attach, focus or type, unless the
                 \* PTY refused its size

clientVars == <<attached, size, shown, active, recent>>
sizeVars   == <<pty, width, height, screen>>
lifeVars   == <<exited, closed, killed, alive>>
ptyVars    == <<writer, master>>
connVars   == <<pc, op, sz, ops>>
parserVars == <<out, eventLock, dropping, ppc, overflowed, tookActive>>
sentVars   == <<stream, told>>
vars == <<clientVars, sizeVars, lifeVars, ptyVars, connVars, kpc, wpc,
          parserVars, sentVars>>

Init ==
    /\ attached = {}
    /\ shown = [c \in Clients |-> FALSE]
    /\ active = Nobody
    /\ \E s \in Sizes : pty = s /\ width = s /\ height = s /\ screen = s
    /\ size = [c \in Clients |-> pty]
    /\ out = 0
    /\ exited = FALSE /\ closed = FALSE /\ killed = FALSE /\ alive = TRUE
    /\ writer = Free /\ master = TRUE
    /\ eventLock = Free /\ dropping = FALSE
    /\ pc = [p \in Procs |-> "start"]
    /\ op = [p \in Procs |-> "none"]
    /\ sz = [p \in Procs |-> pty]
    /\ ops = [c \in Clients |-> 0]
    /\ kpc = [k \in Closers |-> "flag"]
    /\ wpc = "wait"
    /\ ppc = "idle" /\ overflowed = {} /\ tookActive = FALSE
    /\ stream = [c \in Clients |-> 0]
    /\ told = [c \in Clients |-> "open"]
    /\ recent = Nobody

\* A connection goes on to its next section; between operations it has none ...
Goto(p, label) ==
    /\ pc' = [pc EXCEPT ![p] = label]
    /\ op' = IF label \in {"idle", "gone"} THEN [op EXCEPT ![p] = "none"] ELSE op

\* ... until it begins one.
Begin(p, o, label) == /\ pc' = [pc EXCEPT ![p] = label]
                      /\ op' = [op EXCEPT ![p] = o]

-----------------------------------------------------------------------------
(* attach()                                                                *)

\* Both flags are checked before any lock is taken.
AttachCheck(c) ==
    /\ pc[c] = "start"
    /\ Goto(c, IF exited \/ closed THEN "gone" ELSE "lock")
    /\ UNCHANGED <<clientVars, sizeVars, lifeVars, ptyVars, sz, ops, kpc, wpc,
                   parserVars, sentVars>>

MistakeNoEventLock(c) == UNCHANGED eventLock
TakeEventLock(c) == eventLock = Free /\ eventLock' = c

AttachLock(c, s) ==
    /\ pc[c] = "lock"
    /\ TakeEventLock(c)
    /\ Begin(c, "attach", "open")
    /\ sz' = [sz EXCEPT ![c] = s]
    /\ UNCHANGED <<clientVars, sizeVars, lifeVars, ptyVars, ops, kpc, wpc, out,
                   dropping, ppc, overflowed, tookActive, sentVars>>

\* The initial event: the scrollback, or the screen as a frame.
AttachSnapshot(c) ==
    /\ pc[c] = "snapshot"
    /\ stream' = [stream EXCEPT ![c] = out]
    /\ Goto(c, "insert")
    /\ UNCHANGED <<clientVars, sizeVars, lifeVars, ptyVars, sz, ops, kpc, wpc,
                   parserVars, told>>

\* Nothing is checked again here: exited and closed may be set by now.
AttachInsert(c) ==
    /\ pc[c] = "insert"
    /\ ~dropping
    /\ attached' = attached \cup {c}
    /\ size' = [size EXCEPT ![c] = sz[c]]
    /\ shown' = [shown EXCEPT ![c] = TRUE]
    /\ active' = c
    /\ recent' = c
    /\ eventLock' = Free
    /\ Goto(c, "idle")
    /\ UNCHANGED <<sizeVars, lifeVars, ptyVars, sz, ops, kpc, wpc, out,
                   dropping, ppc, overflowed, tookActive, sentVars>>

-----------------------------------------------------------------------------
(* resize_pty(): ensure_open() and four critical sections, on behalf of    *)
(* attach, focus, input, resize and of the control-plane Resize.           *)

\* The operation ends with an error, which only attach does not survive.
Refuse(p) ==
    /\ Goto(p, IF op[p] \in {"attach", "control"} THEN "gone" ELSE "idle")
    /\ eventLock' = IF op[p] = "attach" THEN Free ELSE eventLock
    /\ UNCHANGED <<attached, size, shown, active, sizeVars, lifeVars, ptyVars, sz,
                   ops, kpc, wpc, out, dropping, ppc, overflowed, tookActive, sentVars>>

\* The session is closed, or its master was taken.
ResizeRefused(p) ==
    /\ \/ pc[p] = "open" /\ closed
       \/ pc[p] = "master" /\ ~master
    /\ Refuse(p)
    /\ UNCHANGED recent

\* Nothing keeps the session open from here on.
ResizeOpen(p) ==
    /\ pc[p] = "open"
    /\ ~closed
    /\ Goto(p, "master")
    /\ UNCHANGED <<clientVars, sizeVars, lifeVars, ptyVars, sz, ops, kpc, wpc,
                   parserVars, sentVars>>

\* The PTY does not take the size, and nobody's notes change: the recent client,
\* if it was the one that asked, goes without.
ResizeFails(p) ==
    /\ pc[p] = "master"
    /\ master
    /\ Refuse(p)
    /\ recent' = IF recent = p THEN Nobody ELSE recent

ResizeMaster(p) ==
    /\ pc[p] = "master"
    /\ master
    /\ pty' = sz[p]
    /\ Goto(p, "width")
    /\ UNCHANGED <<clientVars, width, height, screen, lifeVars, ptyVars, sz,
                   ops, kpc, wpc, parserVars, sentVars>>

ResizeWidth(p) ==
    /\ pc[p] = "width"
    /\ width' = sz[p]
    /\ Goto(p, "height")
    /\ UNCHANGED <<clientVars, pty, height, screen, lifeVars, ptyVars, sz, ops,
                   kpc, wpc, parserVars, sentVars>>

ResizeHeight(p) ==
    /\ pc[p] = "height"
    /\ height' = sz[p]
    /\ Goto(p, "screen")
    /\ UNCHANGED <<clientVars, pty, width, screen, lifeVars, ptyVars, sz, ops,
                   kpc, wpc, parserVars, sentVars>>

\* What the caller of resize_pty does next.
AfterResize(o) == CASE o = "attach"  -> "snapshot"
                    [] o = "input"   -> "write"
                    [] o = "control" -> "gone"
                    [] OTHER         -> "idle"

ResizeScreen(p) ==
    /\ pc[p] = "screen"
    /\ screen' = sz[p]
    /\ Goto(p, AfterResize(op[p]))
    /\ UNCHANGED <<clientVars, pty, width, height, lifeVars, ptyVars, sz, ops,
                   kpc, wpc, parserVars, sentVars>>

\* A Resize request outside an attach: whoever is active, no client's size.
ControlResize(r, s) ==
    /\ pc[r] = "start"
    /\ sz' = [sz EXCEPT ![r] = s]
    /\ Begin(r, "control", "open")
    /\ UNCHANGED <<clientVars, sizeVars, lifeVars, ptyVars, ops, kpc, wpc,
                   parserVars, sentVars>>

-----------------------------------------------------------------------------
(* The commands of an attached client.  "idle" is the read loop of         *)
(* handle_attach; an operation that fails returns there.                   *)

Command(c) == /\ pc[c] = "idle" /\ ops[c] < MaxOps
              /\ ops' = [ops EXCEPT ![c] = @ + 1]

\* The client is not in the map any more, and focus_client or input_client fails;
\* or the session is closed, and resize_client does.
CommandFails(c) ==
    /\ Command(c)
    /\ \/ c \notin attached /\ ~dropping
       \/ closed
    /\ UNCHANGED <<clientVars, sizeVars, lifeVars, ptyVars, pc, op, sz, kpc, wpc,
                   parserVars, sentVars>>

\* focus_client() and input_client(): client_size and mark_client_attached.
\* (They lock the map twice; only the client's own connection changes what they
\* read, and a removal in between is an error either way.)
Focus(c, o) ==
    /\ Command(c)
    /\ ~dropping
    /\ c \in attached
    /\ shown' = [shown EXCEPT ![c] = TRUE]
    /\ sz' = [sz EXCEPT ![c] = size[c]]
    /\ Begin(c, o, "activate")
    /\ UNCHANGED <<attached, size, active, recent, sizeVars, lifeVars, ptyVars, kpc,
                   wpc, parserVars, sentVars>>

MistakeNoResizeOnFocus == "idle"
MistakeLoseTheThread == "none"
AfterActivate == "open"

FocusActivate(c) ==
    /\ pc[c] = "activate"
    /\ active' = c
    /\ recent' = c
    /\ Goto(c, AfterActivate)
    /\ UNCHANGED <<attached, size, shown, sizeVars, lifeVars, ptyVars, sz, ops,
                   kpc, wpc, parserVars, sentVars>>

\* write_input(): the writer's mutex is held while the PTY takes the bytes.
WriteRefused(c) ==
    /\ \/ pc[c] = "write" /\ closed
       \/ pc[c] = "locking" /\ writer = Gone
    /\ Goto(c, "idle")
    /\ UNCHANGED <<clientVars, sizeVars, lifeVars, ptyVars, sz, ops, kpc, wpc,
                   parserVars, sentVars>>

WriteOpen(c) ==
    /\ pc[c] = "write"
    /\ ~closed
    /\ Goto(c, "locking")
    /\ UNCHANGED <<clientVars, sizeVars, lifeVars, ptyVars, sz, ops, kpc, wpc,
                   parserVars, sentVars>>

WriteBegin(c) ==
    /\ pc[c] = "locking"
    /\ writer = Free
    /\ writer' = c
    /\ Goto(c, "writing")
    /\ UNCHANGED <<clientVars, sizeVars, lifeVars, master, sz, ops, kpc, wpc,
                   parserVars, sentVars>>

\* The child reads its input, or ...
WriteDone(c) ==
    /\ pc[c] = "writing"
    /\ alive
    /\ writer' = Free
    /\ Goto(c, "idle")
    /\ UNCHANGED <<clientVars, sizeVars, lifeVars, master, sz, ops, kpc, wpc,
                   parserVars, sentVars>>

\* ... is dead, and the write fails.
WriteFailed(c) ==
    /\ pc[c] = "writing"
    /\ ~alive
    /\ writer' = Free
    /\ Goto(c, "idle")
    /\ UNCHANGED <<clientVars, sizeVars, lifeVars, master, sz, ops, kpc, wpc,
                   parserVars, sentVars>>

\* resize_client(): stores the size; a client that had detached becomes active.
Resize(c, s) ==
    /\ Command(c)
    /\ ~closed
    /\ sz' = [sz EXCEPT ![c] = s]
    /\ Begin(c, "resize", "store")
    /\ UNCHANGED <<clientVars, sizeVars, lifeVars, ptyVars, kpc, wpc, parserVars,
                   sentVars>>

ResizeStore(c) ==
    /\ pc[c] = "store" /\ ~dropping
    /\ IF c \in attached
         THEN /\ size' = [size EXCEPT ![c] = sz[c]]
              /\ shown' = [shown EXCEPT ![c] = TRUE]
              /\ Goto(c, IF shown[c] THEN "compare" ELSE "claim")
         ELSE Goto(c, "idle") /\ UNCHANGED <<size, shown>>
    /\ UNCHANGED <<attached, active, recent, sizeVars, lifeVars, ptyVars, sz, ops,
                   kpc, wpc, parserVars, sentVars>>

ResizeClaim(c) ==
    /\ pc[c] = "claim"
    /\ active' = c
    /\ recent' = c
    /\ Goto(c, "compare")
    /\ UNCHANGED <<attached, size, shown, sizeVars, lifeVars, ptyVars, sz, ops,
                   kpc, wpc, parserVars, sentVars>>

ResizeCompare(c) ==
    /\ pc[c] = "compare"
    /\ Goto(c, IF active = c THEN "open" ELSE "idle")
    /\ UNCHANGED <<clientVars, sizeVars, lifeVars, ptyVars, sz, ops, kpc, wpc,
                   parserVars, sentVars>>

\* detach(): a bytes client stays in the map as an observer.
Detach(c) ==
    /\ Command(c)
    /\ ~dropping
    /\ IF c \in FrameClients
         THEN attached' = attached \ {c} /\ UNCHANGED shown
         ELSE shown' = [shown EXCEPT ![c] = FALSE] /\ UNCHANGED attached
    /\ Begin(c, "detach", "release")
    /\ UNCHANGED <<size, active, recent, sizeVars, lifeVars, ptyVars, sz, kpc, wpc,
                   parserVars, sentVars>>

\* disconnect(): the peer hung up or broke the protocol, a write to it failed,
\* or its queue was ended and the writer task is done.
Disconnect(c) ==
    /\ pc[c] = "idle"
    /\ ~dropping
    /\ attached' = attached \ {c}
    /\ Begin(c, "disconnect", "release")
    /\ UNCHANGED <<size, shown, active, recent, sizeVars, lifeVars, ptyVars, sz, ops,
                   kpc, wpc, parserVars, sentVars>>

\* Where detach() and disconnect() return to: the connection of a bytes client
\* outlives its detach.
MistakeNeverGone(c) == IF c \in BytesClients THEN "idle" ELSE "gone"
AfterRelease(c) == IF op[c] = "detach" /\ c \in BytesClients THEN "idle" ELSE "gone"

\* Both end by giving up the active role, in two critical sections.
MistakeKeepActive(c) == TRUE
NotActive(c) == active # c

ReleaseCheck(c) ==
    /\ pc[c] = "release"
    /\ Goto(c, IF NotActive(c) THEN AfterRelease(c) ELSE "clear")
    /\ UNCHANGED <<clientVars, sizeVars, lifeVars, ptyVars, sz, ops, kpc, wpc,
                   parserVars, sentVars>>

ReleaseClear(c) ==
    /\ pc[c] = "clear"
    /\ active' = Nobody
    /\ Goto(c, AfterRelease(c))
    /\ UNCHANGED <<attached, size, shown, recent, sizeVars, lifeVars, ptyVars, sz,
                   ops, kpc, wpc, parserVars, sentVars>>

-----------------------------------------------------------------------------
(* The end of the session.                                                 *)

\* attached.drain(): every client is sent an exit and forgotten.
MistakeDrainKeepsClients == UNCHANGED attached
ForgetClients == attached' = {}

DrainClients ==
    /\ ~dropping
    /\ told' = [c \in Clients |-> IF c \in attached THEN "exit" ELSE told[c]]
    /\ ForgetClients
    /\ active' = Nobody
    /\ UNCHANGED <<size, shown, recent, stream>>

\* close(), section by section.
CloseFlag(k) ==
    /\ kpc[k] = "flag"
    /\ closed' = TRUE
    /\ kpc' = [kpc EXCEPT ![k] = "kill"]
    /\ UNCHANGED <<clientVars, sizeVars, exited, killed, alive, ptyVars, connVars,
                   wpc, parserVars, sentVars>>

MistakeNoKill == UNCHANGED killed
Kill == killed' = TRUE

CloseKill(k) ==
    /\ kpc[k] = "kill"
    /\ Kill
    /\ kpc' = [kpc EXCEPT ![k] = "writer"]
    /\ UNCHANGED <<clientVars, sizeVars, exited, closed, alive, ptyVars, connVars,
                   wpc, parserVars, sentVars>>

\* The writer can be taken only when no input is being written.
CloseWriter(k) ==
    /\ kpc[k] = "writer"
    /\ writer \in {Free, Gone}
    /\ writer' = Gone
    /\ kpc' = [kpc EXCEPT ![k] = "master"]
    /\ UNCHANGED <<clientVars, sizeVars, lifeVars, master, connVars, wpc,
                   parserVars, sentVars>>

CloseMaster(k) ==
    /\ kpc[k] = "master"
    /\ master' = FALSE
    /\ kpc' = [kpc EXCEPT ![k] = "drain"]
    /\ UNCHANGED <<clientVars, sizeVars, lifeVars, writer, connVars, wpc,
                   parserVars, sentVars>>

CloseDrain(k) ==
    /\ kpc[k] = "drain"
    /\ DrainClients
    /\ kpc' = [kpc EXCEPT ![k] = "done"]
    /\ UNCHANGED <<sizeVars, lifeVars, ptyVars, connVars, wpc, parserVars>>

\* The child exits by itself, or because it was killed.
ChildExit ==
    /\ alive
    /\ alive' = FALSE
    /\ UNCHANGED <<clientVars, sizeVars, exited, closed, killed, ptyVars, connVars,
                   kpc, wpc, parserVars, sentVars>>

\* The exit waiter: stores the exit code and the flag ...
WaiterReap ==
    /\ wpc = "wait"
    /\ ~alive
    /\ exited' = TRUE
    /\ wpc' = "drain"
    /\ UNCHANGED <<clientVars, sizeVars, closed, killed, alive, ptyVars, connVars,
                   kpc, parserVars, sentVars>>

\* ... then tells the clients, and the daemon (exit_tx).
WaiterDrain ==
    /\ wpc = "drain"
    /\ DrainClients
    /\ wpc' = "done"
    /\ UNCHANGED <<sizeVars, lifeVars, ptyVars, connVars, kpc, parserVars>>

-----------------------------------------------------------------------------
(* The parser thread.                                                      *)

\* A batch goes to the scrollback and the screen, under event_lock ...
ParserAppend ==
    /\ ppc = "idle" /\ out < MaxOutput
    /\ eventLock = Free
    /\ eventLock' = Parser
    /\ out' = out + 1
    /\ ppc' = "push"
    /\ UNCHANGED <<clientVars, sizeVars, lifeVars, ptyVars, connVars, kpc, wpc,
                   dropping, overflowed, tookActive, sentVars>>

\* ... and to the clients, but for the bytes clients whose queue is full.
ParserPush(full) ==
    /\ ppc = "push" /\ ~dropping
    /\ full \subseteq attached \cap BytesClients
    /\ stream' = [c \in Clients |-> IF c \in attached \ full THEN out ELSE stream[c]]
    /\ overflowed' = full
    /\ IF full = {}
         THEN ppc' = "idle" /\ eventLock' = Free
         ELSE ppc' = "remove" /\ UNCHANGED eventLock
    /\ UNCHANGED <<clientVars, sizeVars, lifeVars, ptyVars, connVars, kpc, wpc, out,
                   dropping, tookActive, told>>

\* Those are removed, once the map is locked again.
ParserRemove ==
    /\ ppc = "remove"
    /\ dropping' = TRUE
    /\ ppc' = "drop"
    /\ UNCHANGED <<clientVars, sizeVars, lifeVars, ptyVars, connVars, kpc, wpc, out,
                   eventLock, overflowed, tookActive, sentVars>>

ParserDrop(c) ==
    /\ ppc = "drop" /\ c \in overflowed
    /\ overflowed' = overflowed \ {c}
    /\ IF c \in attached
         THEN /\ attached' = attached \ {c}
              /\ told' = [told EXCEPT ![c] = "cut"]
              /\ tookActive' = (tookActive \/ active = c)
         ELSE UNCHANGED <<attached, told, tookActive>>
    /\ UNCHANGED <<size, shown, active, recent, sizeVars, lifeVars, ptyVars, connVars,
                   kpc, wpc, out, eventLock, dropping, ppc, stream>>

ParserDropDone ==
    /\ ppc = "drop" /\ overflowed = {}
    /\ active' = IF tookActive THEN Nobody ELSE active
    /\ tookActive' = FALSE
    /\ dropping' = FALSE
    /\ eventLock' = Free
    /\ ppc' = "idle"
    /\ UNCHANGED <<attached, size, shown, recent, sizeVars, lifeVars, ptyVars,
                   connVars, kpc, wpc, out, overflowed, sentVars>>

\* The PTY has no more output.  A last frame may be broadcast, without
\* event_lock; it shows no new batch.
ParserEof ==
    /\ ppc = "idle" /\ eventLock = Free
    /\ exited' = TRUE
    /\ ppc' = "done"
    /\ UNCHANGED <<clientVars, sizeVars, closed, killed, alive, ptyVars, connVars,
                   kpc, wpc, out, eventLock, dropping, overflowed, tookActive, sentVars>>

-----------------------------------------------------------------------------
ResizePty(p) == \/ ResizeRefused(p) \/ ResizeOpen(p) \/ ResizeFails(p) \/ ResizeMaster(p)
                \/ ResizeWidth(p) \/ ResizeHeight(p) \/ ResizeScreen(p)

\* The steps a connection takes by itself, once it has begun an operation.
Proceed(c) == \/ \E s \in Sizes : AttachLock(c, s)
              \/ AttachSnapshot(c) \/ AttachInsert(c)
              \/ FocusActivate(c)
              \/ WriteRefused(c) \/ WriteOpen(c) \/ WriteBegin(c) \/ WriteFailed(c)
              \/ ResizeStore(c) \/ ResizeClaim(c) \/ ResizeCompare(c)
              \/ ReleaseCheck(c) \/ ReleaseClear(c)

\* What its peer asks of it.
Request(c) == \/ AttachCheck(c)
              \/ CommandFails(c)
              \/ Focus(c, "focus") \/ Focus(c, "input")
              \/ \E s \in Sizes : Resize(c, s)
              \/ Detach(c)
              \/ Disconnect(c)

Close(k) == CloseFlag(k) \/ CloseKill(k) \/ CloseWriter(k) \/ CloseMaster(k) \/ CloseDrain(k)

Waiter == WaiterReap \/ WaiterDrain

ParserStep == \/ \E full \in SUBSET BytesClients : ParserPush(full)
              \/ ParserRemove
              \/ \E c \in Clients : ParserDrop(c)
              \/ ParserDropDone

\* Everything has come to an end.
Finished ==
    /\ \A p \in Procs : pc[p] = "gone"
    /\ \A k \in Closers : kpc[k] = "done"
    /\ wpc = "done" /\ ppc = "done"

Next == \/ \E c \in Clients : Request(c) \/ Proceed(c) \/ WriteDone(c)
        \/ \E p \in Procs : ResizePty(p)
        \/ \E r \in Resizers, s \in Sizes : ControlResize(r, s)
        \/ \E k \in Closers : Close(k)
        \/ ChildExit \/ Waiter
        \/ ParserAppend \/ ParserStep \/ ParserEof
        \/ Finished /\ UNCHANGED vars

Spec == Init /\ [][Next]_vars

\* A thread in the middle of an operation goes on; a killed child dies; the
\* connection of a client whose queue was ended is closed by its writer task.
\* Nothing obliges a peer to send commands, a child to read its input or to
\* exit, or the session to be closed.
Fairness ==
    /\ \A c \in Clients : /\ WF_vars(Proceed(c))
                          /\ WF_vars(told[c] # "open" /\ Disconnect(c))
    /\ \A p \in Procs : WF_vars(ResizePty(p))
    /\ \A k \in Closers : WF_vars(Close(k) /\ kpc[k] # "flag")
    /\ WF_vars(killed /\ ChildExit)
    /\ WF_vars(Waiter)
    /\ WF_vars(ParserStep)

FairSpec == Spec /\ Fairness

-----------------------------------------------------------------------------
(* Properties.                                                             *)

Labels == {"start", "lock", "open", "master", "width", "height", "screen", "snapshot",
           "insert", "idle", "activate", "write", "locking", "writing", "store",
           "claim", "compare", "release", "clear", "gone"}

TypeOK ==
    /\ attached \in SUBSET Clients
    /\ size \in [Clients -> Sizes]
    /\ shown \in [Clients -> BOOLEAN]
    /\ active \in Clients \cup {Nobody}
    /\ {pty, width, height, screen} \subseteq Sizes
    /\ out \in Nat
    /\ exited \in BOOLEAN /\ closed \in BOOLEAN /\ killed \in BOOLEAN /\ alive \in BOOLEAN
    /\ master \in BOOLEAN /\ dropping \in BOOLEAN /\ tookActive \in BOOLEAN
    /\ writer \in Clients \cup {Free, Gone}
    /\ eventLock \in Clients \cup {Free, Parser}
    /\ pc \in [Procs -> Labels]
    /\ op \in [Procs -> {"none", "attach", "control", "focus", "input", "resize",
                         "detach", "disconnect"}]
    /\ sz \in [Procs -> Sizes]
    /\ ops \in [Clients -> Nat]
    /\ kpc \in [Closers -> {"flag", "kill", "writer", "master", "drain", "done"}]
    /\ wpc \in {"wait", "drain", "done"}
    /\ ppc \in {"idle", "push", "remove", "drop", "done"}
    /\ overflowed \in SUBSET Clients
    /\ stream \in [Clients -> Nat]
    /\ told \in [Clients -> {"open", "exit", "cut"}]
    /\ recent \in Clients \cup {Nobody}

\* A connection that has ended is no longer in the map and never holds the
\* active role, whoever focused, broadcast or drained while it went
\* (the last thing handle_attach does is disconnect() or detach()).
GoneIsForgotten ==
    \A c \in Clients : pc[c] = "gone" => c \notin attached /\ active # c

\* The batches a client that keeps up has been handed, at this moment.
Handed == IF ppc = "push" THEN out - 1 ELSE out

\* A client in the map has been handed, in its snapshot or in its queue, every
\* batch so far, unless the parser thread is about to remove it: an attach
\* neither misses nor repeats what is broadcast while it goes on, because the
\* snapshot and the insertion are made under the same event_lock as the
\* scrollback and the broadcast.
NothingMissed ==
    \A c \in attached : c \in overflowed \/ stream[c] = Handed

\* A queue is ended once, and with that the session is through with the client:
\* no more batches, no second exit, no way back into the map.
EndIsFinal ==
    [][\A c \in Clients : told[c] # "open" =>
          told'[c] = told[c] /\ stream'[c] = stream[c] /\ c \notin attached']_vars

\* A child that does not read its input keeps a connection blocked.
InputBlocked == \E c \in Clients : pc[c] = "writing"

\* The connection task of a client that was told of the session's end comes to
\* its end, also when it is blocked writing input at that moment.
ExitedLeave == \A c \in Clients : told[c] = "exit" ~> pc[c] = "gone"

\* The active role may outlive its holder's place in the map (a client removed
\* while it focuses takes the role nevertheless), but only until its connection
\* has noticed that its queue was ended.
GhostIsCleared ==
    active \notin attached \cup {Nobody}
        ~> active \in attached \cup {Nobody} \/ InputBlocked

\* close() comes to its end although it has to take the writer from a
\* connection that may be blocked writing input nobody reads: it kills the
\* child before it asks for the writer.
CloseCompletes == \A k \in Closers : kpc[k] = "kill" ~> kpc[k] = "done"

\* Who is in the middle of an operation on the clients: a connection, or the
\* parser thread while it removes overflowed clients.
Busy == {p \in Procs : pc[p] \notin {"start", "lock", "idle", "gone"}}
        \cup {t \in {Parser} : ppc = "drop"}

\* At most one of them is at a time.  Closers, the exit waiter and the rest of the
\* parser thread still interleave with it.
OneAtATime == \A t, u \in Busy : t = u

\* Nobody is in the middle of an operation.
Settled == /\ \A p \in Procs : pc[p] \in {"start", "idle", "gone"}
           /\ ppc # "drop"

\* The PTY, and the session's notes of its size, have the size of the client
\* that attached, focused or typed last, whenever no operation is under way (and
\* the PTY did not refuse that size: the session then keeps the one before).
RecentSizeOnPty ==
    Settled /\ ~closed /\ recent \in attached /\ shown[recent]
        => {pty, width, height, screen} = {size[recent]}

\* That client is the active one, too, so that it is resized as it asks.
RecentOwnsSize ==
    /\ RecentSizeOnPty
    /\ Settled /\ recent \in attached /\ shown[recent] => active = recent

\* When the session has exited, or was closed, and everybody was told, nobody is
\* left in the map.
AllToldOfTheEnd ==
    (wpc = "done" \/ \E k \in Closers : kpc[k] = "done") => attached = {}

=============================================================================
