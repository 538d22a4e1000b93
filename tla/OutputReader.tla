---------------------------- MODULE OutputReader ----------------------------
(***************************************************************************)
(* The output side of a session (session.rs): the reader thread that fills *)
(* the staging buffer, the parser thread that takes it in batches, keeps   *)
(* the scrollback and the screen and broadcasts a frame, and the exit      *)
(* waiter.  One frame client may be registered; its queue is reduced to    *)
(* what push_frame() and push_exit_for_mode() leave in it (EventQueue has  *)
(* the details).  A step under event_lock is one action; resizing takes    *)
(* only the screen's mutex and comes between any two.                      *)
(***************************************************************************)
EXTENDS Terminal

CONSTANTS Capacity,       \* FRAME_CHANNEL_CAPACITY
          ScrollbackLimit \* SCROLLBACK_LIMIT

ASSUME OutputAssumption ==
    Capacity \in Nat \ {0} /\ ScrollbackLimit \in Nat

VARIABLES
    script,     \* what the child writes and nobody has read yet
    child,      \* "runs" or "exited"
    staging, readerDone,
    parser,     \* "wait", "taken", "ending" or "over"
    batch,      \* taken from staging
    cleanup,    \* the cleanup frame that is still to be broadcast
    scrollback, screen, shape,
    exited,
    drained,    \* the exit waiter has emptied attached_clients
    registered, \* the client is in attached_clients
    queue,      \* its queue: frames, and "exit" as the last
    moved       \* history: the screen's height changed since a frame was taken

childVars  == <<script, child>>
parserVars == <<staging, parser, batch, cleanup>>
screenVars == <<scrollback, screen, shape, moved>>
readerVars == <<childVars, readerDone, parserVars, screenVars, exited, drained,
                registered, queue>>

ExitEvent == [k |-> "exit", frame |-> NoFrame]
FrameEvent(f) == [k |-> "frame", frame |-> f]

OutputInit(output, h) ==
    /\ script = output /\ child = "runs"
    /\ staging = <<>> /\ readerDone = FALSE
    /\ parser = "wait" /\ batch = <<>> /\ cleanup = NoFrame
    /\ scrollback = <<>> /\ screen = NewScreen(h) /\ shape = 0 /\ moved = FALSE
    /\ exited = FALSE /\ drained = FALSE
    /\ registered = FALSE /\ queue = <<>>

-----------------------------------------------------------------------------

\* SessionEventQueue::push_frame(), for the client if it is registered.
Broadcast(f) ==
    queue' = IF ~registered THEN queue
             ELSE IF Len(queue) >= Capacity THEN <<FrameEvent(f)>>
             ELSE Append(queue, FrameEvent(f))

\* ScrollbackBuf::append()
Kept(data) ==
    LET all == scrollback \o data
    IN  IF Len(all) > ScrollbackLimit
        THEN SubSeq(all, Len(all) - ScrollbackLimit + 1, Len(all)) ELSE all

\* resize_pty(): no frame is broadcast.
ResizePty(h) ==
    /\ screen' = SetHeight(screen, h)
    /\ moved' = (moved \/ h # Len(screen.main))
    /\ UNCHANGED <<scrollback, shape>>

\* The reader thread: one read() and the append to the staging buffer.
ReadPty ==
    /\ script # <<>>
    /\ staging' = Append(staging, Head(script))
    /\ script' = Tail(script)
    /\ UNCHANGED <<child, readerDone, parser, batch, cleanup, screenVars, exited, drained,
                   registered, queue>>

ReaderEnds ==
    /\ child = "exited" /\ script = <<>>
    /\ ~readerDone
    /\ readerDone' = TRUE
    /\ UNCHANGED <<childVars, parserVars, screenVars, exited, drained, registered, queue>>

\* The parser thread takes what the staging buffer holds by now.
TakeBatch ==
    /\ parser = "wait" /\ staging # <<>>
    /\ batch' = staging
    /\ staging' = <<>>
    /\ parser' = "taken"
    /\ UNCHANGED <<childVars, readerDone, cleanup, screenVars, exited, drained, registered, queue>>

\* The batch is put into scrollback and screen and broadcast, under event_lock.
ProcessBatch ==
    /\ parser = "taken"
    /\ scrollback' = Kept(batch)
    /\ shape' = ShapeAfter(batch, shape)
    /\ screen' = FoldLeft(Interpret, screen, batch)
    /\ Broadcast(ScreenFrame(screen', shape'))
    /\ moved' = FALSE
    /\ batch' = <<>>
    /\ parser' = "wait"
    /\ UNCHANGED <<childVars, staging, readerDone, cleanup, exited, drained, registered>>

\* End of the output: cleanup_alt_screen_frame() under event_lock ...
LeaveAltScreen ==
    /\ parser = "wait" /\ staging = <<>> /\ readerDone
    /\ screen.altOn
    /\ screen' = [screen EXCEPT !.altOn = FALSE]
    /\ shape' = 0
    /\ cleanup' = ScreenFrame(screen', 0)
    /\ moved' = FALSE
    /\ parser' = "ending"
    /\ UNCHANGED <<childVars, staging, batch, readerDone, scrollback, exited, drained,
                   registered, queue>>

\* ... and its frame is broadcast after event_lock was released.
BroadcastCleanup ==
    /\ parser = "ending"
    /\ Broadcast(cleanup)
    /\ parser' = "over"
    /\ exited' = TRUE
    /\ UNCHANGED <<childVars, staging, batch, cleanup, readerDone, screenVars, drained,
                   registered>>

EndOfOutput ==
    /\ parser = "wait" /\ staging = <<>> /\ readerDone
    /\ ~screen.altOn
    /\ parser' = "over"
    /\ exited' = TRUE
    /\ UNCHANGED <<childVars, staging, batch, cleanup, readerDone, screenVars, drained,
                   registered, queue>>

\* The child may exit with output in the PTY that nobody has read.
ChildExits ==
    /\ child = "runs"
    /\ child' = "exited"
    /\ UNCHANGED <<script, readerDone, parserVars, screenVars, exited, drained, registered, queue>>

\* The exit waiter: the flag, then the clients, whatever is still to be parsed.
ExitWaiter ==
    /\ child = "exited" /\ ~drained
    /\ exited' = TRUE
    /\ drained' = TRUE
    /\ registered' = FALSE
    /\ queue' = IF registered THEN <<ExitEvent>> ELSE queue
    /\ UNCHANGED <<childVars, readerDone, parserVars, screenVars>>
=============================================================================
