-------------------------------- MODULE View --------------------------------
(***************************************************************************)
(* What a user sees and types: a session's output (OutputReader), one      *)
(* attachment of a client in frame mode (AttachLoop), and between them the *)
(* connection's task and writer task (lib.rs, handle_attach()).  Other     *)
(* clients of the session appear as changes of its size.                   *)
(*                                                                         *)
(* A behaviour follows one plan: what the child writes, the heights the    *)
(* terminals take, which events may come from outside, and how many.       *)
(***************************************************************************)
EXTENDS OutputReader, AttachLoop

CONSTANTS Plans,   \* bounds: records [script, heights, events, left]
          MaxRows  \* the protocol's limit on rows

\* A sequence of the child's, and a height a terminal can have.
Sequence == [k : STRING, row : Nat, n : Int]
Height == Nat \ {0}

ASSUME ViewAssumption ==
    /\ MaxRows \in Height
    /\ \A p \in Plans : /\ p.script \in Seq(Sequence) /\ p.heights \subseteq Height
                       /\ p.left \in Nat

VARIABLES
    conn,      \* "none", "replay", "initial", "open", "done", "closed"
    initial,   \* the frame attach() made
    clientH,   \* AttachedClient.height
    active,    \* active_client_id is this client's
    delivered, \* the keys written to the PTY
    modesReplayed, \* history: the replay held mouse sequences
    plan, left

connVars == <<conn, initial, clientH, active, delivered, modesReplayed>>
vars == <<readerVars, loopVars, connVars, plan, left>>

Init == \E p \in Plans : \E h \in p.heights :
          /\ OutputInit(p.script, MaxRows)
          /\ LoopInit(h)
          /\ conn = "none" /\ initial = NoFrame /\ clientH = 0 /\ active = FALSE
          /\ delivered = <<>> /\ modesReplayed = FALSE
          /\ plan = p /\ left = p.left

-----------------------------------------------------------------------------
(* The daemon's side.                                                      *)

Undisturbed == UNCHANGED <<loopVars, connVars, plan, left>>
Reads == ReadPty /\ Undisturbed
EndsReading == ReaderEnds /\ Undisturbed
Takes == TakeBatch /\ Undisturbed
Processes == ProcessBatch /\ Undisturbed
LeavesAlt == LeaveAltScreen /\ Undisturbed
CleansUp == BroadcastCleanup /\ Undisturbed
EndsOutput == EndOfOutput /\ Undisturbed
Waiter == ExitWaiter /\ Undisturbed

\* validate_resize(), validate_attach_size()
ValidSize(h) == h <= MaxRows

\* The session's part that handle_attach() leaves alone.
ReaderRest == <<childVars, readerDone, parserVars, exited, drained>>
OutsideIdle == UNCHANGED <<plan, left>>

\* Session::attach(), under event_lock; the answer starts the client's loop.
Attach ==
    /\ conn = "none" /\ ~exited
    /\ ValidSize(AreaHeight(screenH))
    /\ clientH' = AreaHeight(screenH)
    /\ active' = TRUE
    /\ screen' = SetHeight(screen, clientH')
    /\ initial' = ScreenFrame(screen', shape)
    /\ moved' = FALSE
    /\ registered' = TRUE
    /\ conn' = "replay"
    /\ UNCHANGED <<ReaderRest, scrollback, shape, queue, loopVars, delivered, modesReplayed>>
    /\ OutsideIdle

\* scrollback_snapshot(), after event_lock was released.
Replay ==
    /\ conn = "replay"
    /\ wire' = IF scrollback = <<>> THEN wire ELSE Append(wire, Output(scrollback))
    /\ modesReplayed' = \E i \in DOMAIN scrollback : scrollback[i].k \in {"mouse", "nomouse"}
    /\ conn' = "initial"
    /\ UNCHANGED <<readerVars, viewVars, pending, requests, actions, inputVars, overlay,
                   outcome, initial, clientH, active, delivered>>
    /\ OutsideIdle

SendInitial ==
    /\ conn = "initial"
    /\ wire' = Append(wire, Frame(initial))
    /\ conn' = "open"
    /\ UNCHANGED <<readerVars, viewVars, pending, requests, actions, inputVars, overlay,
                   outcome, initial, clientH, active, delivered, modesReplayed>>
    /\ OutsideIdle

\* The writer task.
WriteEvent ==
    /\ conn = "open" /\ queue # <<>>
    /\ queue' = Tail(queue)
    /\ LET e == Head(queue)
       IN  /\ wire' = Append(wire, IF e = ExitEvent THEN Answer("exit") ELSE Frame(e.frame))
           /\ conn' = IF e = ExitEvent THEN "done" ELSE conn
    /\ UNCHANGED <<ReaderRest, screenVars, registered, viewVars, pending, requests,
                   actions, inputVars, overlay, outcome, initial, clientH, active,
                   delivered, modesReplayed>>
    /\ OutsideIdle

\* The read loop takes a request and answers it; a finished writer task, or a
\* client that is gone, ends it.
Asked(command) == /\ conn \in {"open", "done"}
                  /\ requests # <<>> /\ Head(requests).k = command
                  /\ requests' = Tail(requests)
Answered(k) == wire' = Append(wire, Answer(k))
HandleRest == UNCHANGED <<ReaderRest, queue, viewVars, pending, actions, inputVars,
                          overlay, outcome, initial, modesReplayed, plan, left>>

\* focus_client(), and input_client() with its write to the PTY.
HandleInput(command) ==
    /\ Asked(command)
    /\ IF registered
         THEN /\ active' = TRUE
              /\ ResizePty(clientH)
              /\ delivered' = IF command = "input"
                              THEN Append(delivered, Head(requests).n) ELSE delivered
         ELSE UNCHANGED <<active, screenVars, delivered>>
    /\ Answered("ok")
    /\ UNCHANGED <<conn, clientH, registered>> /\ HandleRest

\* resize_client()
HandleResize ==
    /\ Asked("resize")
    /\ LET h == Head(requests).n
       IN  IF ValidSize(h) /\ registered
           THEN /\ clientH' = h
                /\ IF active THEN ResizePty(h) ELSE UNCHANGED screenVars
                /\ Answered("ok")
           ELSE UNCHANGED <<clientH, screenVars>> /\ Answered("error")
    /\ UNCHANGED <<conn, active, delivered, registered>> /\ HandleRest

HandleDetach ==
    /\ Asked("detach")
    /\ registered' = FALSE /\ active' = FALSE
    /\ Answered("ok")
    /\ conn' = "closed"
    /\ UNCHANGED <<screenVars, clientH, delivered>> /\ HandleRest

Disconnect ==
    /\ \/ conn = "done"
       \/ conn = "open" /\ outcome # "none" /\ requests = <<>>
    /\ conn' = "closed"
    /\ registered' = FALSE /\ active' = FALSE
    /\ UNCHANGED <<ReaderRest, screenVars, queue, loopVars, initial, clientH, delivered,
                   modesReplayed>>
    /\ OutsideIdle

-----------------------------------------------------------------------------
(* The client's side, once it is attached.                                 *)

Attached == conn # "none"
Alone == Attached /\ UNCHANGED <<readerVars, connVars, plan, left>>
Closed == conn = "closed"

ShowsOutput == TakeOutput /\ Alone
ShowsFrame == \E over \in BOOLEAN : \E k \in 0 .. Len(wire) - 1 :
                /\ over => Closed /\ k = Len(wire) - 1
                /\ TakeFrame(k, over)
                /\ Alone
SeesEnd == TakeEnd /\ Alone
SeesOk == TakeOk /\ Alone
SeesStreamEnd == StreamEnds(Closed) /\ Alone
TimesOut == PrefixTimesOut /\ Alone
Ticks == IdleTick /\ Alone
ReadsResize == ReadResize /\ Alone
PassesOn == (PassOn("input") \/ PassOn("focus")) /\ Alone
Resizes == Resize /\ Alone
Detaches == Detach /\ Alone
Opens == (OpenOverlay("help") \/ OpenOverlay("list")) /\ Alone
OverlayResized == OverlayReadsResize /\ Alone
Closes == CloseOverlay /\ Alone
LeavesList == LeaveOverlay /\ Alone
Switches == (\E found \in BOOLEAN : SwitchSession(found)) /\ Alone

-----------------------------------------------------------------------------
(* Events from outside, of which a plan allows so many.                    *)

Event(e) == /\ Attached /\ left > 0 /\ e \in plan.events
            /\ left' = left - 1
            /\ UNCHANGED plan
Typing == Event("key") /\ UNCHANGED <<readerVars, connVars>>

TypesPlain == (\E silent \in BOOLEAN : PlainKey(silent)) /\ Typing
TypesPrefix == PrefixKey /\ Typing
TypesCommand == \E c \in {"detach", "help", "list", "switch"} \cap plan.events :
                  CommandKey(c) /\ Typing
Focuses == /\ ReadFocus
           /\ Event("focus") /\ UNCHANGED <<readerVars, connVars>>
Polls == /\ \E items \in 0 .. 1 : BarPoll(items)
         /\ Event("poll") /\ UNCHANGED <<readerVars, connVars>>

ResizesTerminal ==
    /\ Event("resize") /\ outcome = "none"
    /\ \E h \in plan.heights \ {Len(host.rows)} : host' = ResizedTo(host, h)
    /\ winch' = TRUE
    /\ UNCHANGED <<readerVars, connVars, screenH, appRows, bar, renderer, lastFrame, wire,
                   pending, requests, actions, inputVars, overlay, outcome>>

\* Another client becomes the active one.
OtherClient ==
    /\ Event("other") /\ ~drained
    /\ \E h \in plan.heights : ValidSize(h) /\ ResizePty(h)
    /\ active' = FALSE
    /\ UNCHANGED <<ReaderRest, registered, queue, loopVars, conn, initial, clientH,
                   delivered, modesReplayed>>

\* The daemon dies, or the connection breaks.
CutOff == /\ Event("cut") /\ conn # "closed"
          /\ conn' = "closed"
          /\ registered' = FALSE /\ active' = FALSE
          /\ UNCHANGED <<ReaderRest, screenVars, queue, loopVars, initial, clientH,
                         delivered, modesReplayed>>

Exits == /\ ChildExits
         /\ Event("exit") /\ UNCHANGED <<loopVars, connVars>>

-----------------------------------------------------------------------------

Daemon == \/ Reads \/ EndsReading \/ Takes \/ Processes \/ LeavesAlt \/ CleansUp
          \/ EndsOutput \/ Waiter \/ Attach \/ Replay \/ SendInitial \/ WriteEvent
          \/ HandleInput("input") \/ HandleInput("focus") \/ HandleResize
          \/ HandleDetach \/ Disconnect

Loop == \/ ShowsOutput \/ ShowsFrame \/ SeesEnd \/ SeesOk \/ SeesStreamEnd
        \/ Ticks \/ ReadsResize \/ PassesOn \/ Resizes \/ Detaches \/ Opens
        \/ OverlayResized \/ Switches

User == \/ TypesPlain \/ TypesPrefix \/ TypesCommand \/ TimesOut \/ Closes
        \/ LeavesList \/ Focuses \/ Polls \/ ResizesTerminal \/ OtherClient \/ CutOff
        \/ Exits

Next == Daemon \/ Loop \/ User

Spec == Init /\ [][Next]_vars

\* The threads and tasks of the daemon run on; so does the client's loop, its
\* reader task and its input reader, and select! starves no ready branch.
FairSpec == Spec /\ WF_vars(Daemon) /\ WF_vars(Loop)

-----------------------------------------------------------------------------
(* What holds.                                                             *)

SizesKnown == ~winch /\ \A i \in DOMAIN actions : actions[i].k # "resize"

\* The renderer draws a frame by its difference from the one before and the bar
\* is drawn over the last row by others: whatever the order of frames, replayed
\* output, polls, resizes and overlays, once the renderer holds a frame the
\* terminal shows its rows, its cursor shape and its mouse mode, and the bar,
\* unless the frame is too tall for the terminal or a resize is still unread.
\* The mouse mode is left out if the replay has set one: the renderer does not
\* know of it, and the frame that would correct it may be skipped.
HostInStep ==
    LET f == renderer.previous
        H == Len(host.rows)
    IN  Running /\ f # NoFrame /\ SizesKnown =>
          /\ \A r \in 1 .. AreaHeight(H) :
               r < H \/ Len(f.rows) <= H =>
                 host.rows[r] = IF r <= Len(f.rows) THEN f.rows[r] ELSE Blank
          /\ BarActive(H) /\ bar # 0 => host.rows[H] = BarOf(bar)
          /\ host.shape = f.shape
          /\ ~modesReplayed => host.mouse = f.mouse

\* The keys on their way: delivered, requested, read, held back as a prefix.
Passed == [i \in DOMAIN delivered |-> Request("input", delivered[i])]
Keys == Passed \o requests \o actions \o PrefixInput
IsKey(m) == m.k = "input"

\* Through reader, actions, requests and PTY, with prefixes that wait, time out
\* or are passed through, and overlays that stop and restart the reader, keys
\* arrive in the order typed, none twice, and while the attachment lasts none
\* that belongs to no command is lost.
KeysInOrder ==
    /\ \A i, j \in DOMAIN Keys :
         i < j /\ IsKey(Keys[i]) /\ IsKey(Keys[j]) => Keys[i].n < Keys[j].n
    /\ outcome \in {"none", "Detached"} /\ conn \notin {"done", "closed"} /\ ~drained
         => \A n \in plain : \E i \in DOMAIN Keys : IsKey(Keys[i]) /\ Keys[i].n = n

\* Once resizes are read, passed on and handled, daemon and client agree on the
\* size of the session's area, whichever of reader and overlay read them; and
\* when this client is the active one, the session has it.
SizeAgreed ==
    Running /\ SizesKnown /\ conn = "open" /\ registered
      /\ (\A i \in DOMAIN requests : requests[i].k # "resize")
      /\ (\A i \in DOMAIN (pending \o wire) : (pending \o wire)[i].k # "error") =>
        /\ clientH = appRows
        /\ appRows = AreaHeight(Len(host.rows))
        /\ active => Len(screen.main) = clientH

\* Batches, a queue that drops frames, a drain that skips them and overlays
\* never leave the client behind for good: as long as it is attached, watching,
\* and the session was not resized after its last output, it ends up with the
\* frame of the session's present screen.
LatestShown ==
    <>[](\/ ~Running \/ ~registered \/ conn \in {"none", "closed"}
         \/ moved
         \/ lastFrame = ScreenFrame(screen, shape))
=============================================================================
