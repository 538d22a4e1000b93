----------------------------- MODULE EventQueue -----------------------------
(***************************************************************************)
(* SessionEventQueue: the queue between a session and the writer task of   *)
(* one attached client (session.rs, struct SessionEventQueue), with        *)
(* everything that touches it.                                             *)
(*                                                                         *)
(*   producers  run under the session's attached_clients mutex and, inside *)
(*              it, under the queue's own mutex: the parser thread's       *)
(*              broadcast, the drain of the exit waiter or of close(), and *)
(*              the removal of a client whose queue overflowed.  Each one  *)
(*              leaves the queue's mutex before it calls notify_one().     *)
(*   consumer   the writer task of handle_attach: recv(), write, repeat.   *)
(*   connection disconnect()/detach() takes the client out of the map,     *)
(*              then aborts the writer task.                               *)
(*                                                                         *)
(* Data events are numbered in the order the session produces them; what   *)
(* they carry does not matter to the queue.  The number 0 is the exit.     *)
(***************************************************************************)
EXTENDS Naturals, Sequences

CONSTANTS Mode,        \* AttachMode of the client: "Frame" or "Bytes"
          Capacity,    \* FRAME_CHANNEL_CAPACITY
          MaxChunks,   \* bound: payloads per broadcast (output_chunks)
          MaxData      \* bound: data events a behaviour produces

ASSUME QueueAssumption == /\ Mode \in {"Frame", "Bytes"}
                          /\ Capacity \in Nat \ {0}
                          /\ MaxChunks \in Nat \ {0}
                          /\ MaxData \in Nat

VARIABLES
    events,       \* inner.events
    pendingExit,  \* inner.pending_exit is Some
    closed,       \* inner.closed
    permit,       \* the permit the tokio Notify stores
    registered,   \* the client is in attached_clients
    leaving,      \* the connection's task has disconnected or detached
    lock,         \* who holds attached_clients, as far as this queue can tell
    todo,         \* chunks the broadcast has still to push
    overflowed,   \* the client is in the broadcast's overflowed_clients
    notifying,    \* a producer is between drop(inner) and notify_one()
    made,         \* number of the newest datum the session made
    rx,           \* where the writer task is
    seen          \* number of the newest datum recv() returned

queueVars  == <<events, pendingExit, closed>>
senderVars == <<registered, leaving, lock, todo, overflowed, made>>
vars == <<events, pendingExit, closed, permit, registered, leaving,
          lock, todo, overflowed, notifying, made, rx, seen>>

Exit == 0

Init == /\ events = <<>>
        /\ pendingExit = FALSE
        /\ closed = FALSE
        /\ permit = FALSE
        /\ registered = TRUE
        /\ leaving = FALSE
        /\ lock = "free"
        /\ todo = 0
        /\ overflowed = FALSE
        /\ notifying = FALSE
        /\ made = 0
        /\ rx = "check"
        /\ seen = 0

-----------------------------------------------------------------------------
(* The decisions of the queue's operations.  Under each one stand forms of *)
(* it with a plausible mistake: no action uses those, the runs must tell   *)
(* them apart.                                                             *)

Full == Len(events) >= Capacity

\* What push_frame leaves in an open queue.
MistakeDropNewFrame(n) == IF Full THEN events ELSE Append(events, n)
MistakeDropAllFrames(n) == IF Full THEN <<>> ELSE Append(events, n)
FrameEvents(n) == IF Full THEN <<n>> ELSE Append(events, n)

\* The broadcast has another payload for this client.
MistakePushPastBatch == lock = "broadcast" /\ ~notifying
Pushing == lock = "broadcast" /\ todo > 0 /\ ~notifying

\* The broadcast remembers that the client overflowed.
MistakeForgetOverflow == UNCHANGED overflowed
MarkOverflowed == overflowed' = TRUE

\* close_when_drained().
MistakeCloseSilently == closed' = TRUE /\ UNCHANGED notifying
CloseWhenDrained == closed' = TRUE /\ notifying' = TRUE

\* The client leaves attached_clients before it is sent its exit.
MistakeKeepClient == UNCHANGED registered
Drain == registered' = FALSE

\* The exit of a bytes client whose queue has no room.
KeepExitPending == pendingExit' = TRUE

\* recv() takes the pending exit.
MistakeLeavePendingExit == UNCHANGED pendingExit
TakePendingExit == pendingExit' = FALSE

\* notify_one(): wakes a parked writer task, or stores a permit.
MistakeNotifyWaiters == /\ rx' = IF rx = "parked" THEN "check" ELSE rx
                        /\ UNCHANGED permit
NotifyOne == IF rx = "parked"
               THEN rx' = "check" /\ UNCHANGED permit
               ELSE permit' = TRUE /\ UNCHANGED rx

-----------------------------------------------------------------------------
(* The producers.                                                          *)

\* The parser thread broadcasts one batch: one frame, or the batch's chunks.
BeginBroadcast(chunks) ==
    /\ registered /\ ~overflowed
    /\ lock = "free"
    /\ Mode = "Frame" => chunks = 1
    /\ made + chunks <= MaxData
    /\ lock' = "broadcast"
    /\ todo' = chunks
    /\ UNCHANGED <<queueVars, permit, registered, leaving, overflowed, notifying,
                   made, rx, seen>>

PushFrame ==
    /\ Mode = "Frame"
    /\ Pushing
    /\ made' = made + 1
    /\ todo' = 0
    /\ IF closed
         THEN UNCHANGED <<events, notifying>>
         ELSE events' = FrameEvents(made + 1) /\ notifying' = TRUE
    /\ UNCHANGED <<pendingExit, closed, permit, registered, leaving, lock,
                   overflowed, rx, seen>>

TryPushOutput ==
    /\ Mode = "Bytes"
    /\ Pushing
    /\ ~closed /\ ~Full
    /\ events' = Append(events, made + 1)
    /\ made' = made + 1
    /\ todo' = todo - 1
    /\ notifying' = TRUE
    /\ UNCHANGED <<pendingExit, closed, permit, registered, leaving, lock,
                   overflowed, rx, seen>>

\* A refused chunk ends the batch for this client: its chunks are lost.
Overflow ==
    /\ Mode = "Bytes"
    /\ Pushing
    /\ closed \/ Full
    /\ MarkOverflowed
    /\ made' = made + todo
    /\ todo' = 0
    /\ UNCHANGED <<queueVars, permit, registered, leaving, lock, notifying, rx,
                   seen>>

\* The broadcast takes attached_clients a second time and removes the client,
\* unless somebody else did so meanwhile.
RemoveOverflowed ==
    /\ overflowed
    /\ lock = "free"
    /\ overflowed' = FALSE
    /\ IF registered
         THEN /\ registered' = FALSE
              /\ CloseWhenDrained
              /\ lock' = "remove"
         ELSE UNCHANGED <<registered, closed, notifying, lock>>
    /\ UNCHANGED <<events, pendingExit, permit, leaving, todo, made, rx, seen>>

\* The child exited, or close() was called: every client is drained from the
\* map and sent an exit (push_exit_for_mode).
PushExit ==
    /\ registered
    /\ lock = "free"
    /\ Drain
    /\ lock' = "drain"
    /\ closed' = TRUE
    /\ notifying' = TRUE
    /\ \/ /\ Mode = "Frame"
          /\ events' = <<Exit>>
          /\ pendingExit' = FALSE
       \/ /\ Mode = "Bytes" /\ ~closed /\ ~Full
          /\ events' = Append(events, Exit)
          /\ UNCHANGED pendingExit
       \/ /\ Mode = "Bytes" /\ (closed \/ Full)
          /\ KeepExitPending
          /\ UNCHANGED events
    /\ UNCHANGED <<permit, leaving, todo, overflowed, made, rx, seen>>

\* The producer, outside the queue's mutex again, notifies.
Notify ==
    /\ notifying
    /\ notifying' = FALSE
    /\ NotifyOne
    /\ UNCHANGED <<queueVars, senderVars, seen>>

\* The producer drops its guard on attached_clients.
Release ==
    /\ lock # "free" /\ todo = 0 /\ ~notifying
    /\ lock' = "free"
    /\ UNCHANGED <<queueVars, permit, registered, leaving, todo, overflowed,
                   notifying, made, rx, seen>>

-----------------------------------------------------------------------------
(* The writer task.  rx is                                                 *)
(*   "check"   about to take the queue's mutex in recv()                   *)
(*   "await"   about to poll notified()                                    *)
(*   "parked"  registered with the Notify as its waiter                    *)
(*   "write"   writing the event recv() returned to the connection         *)
(*   "exit"    writing the exit event                                      *)
(*   "done"    returned                                                    *)
(*   "aborted" cancelled by the connection's task                          *)

RecvEvent ==
    /\ rx = "check"
    /\ events # <<>>
    /\ events' = Tail(events)
    /\ IF Head(events) = Exit
         THEN rx' = "exit" /\ UNCHANGED seen
         ELSE rx' = "write" /\ seen' = Head(events)
    /\ UNCHANGED <<pendingExit, closed, permit, notifying, senderVars>>

RecvPendingExit ==
    /\ rx = "check"
    /\ events = <<>> /\ pendingExit
    /\ TakePendingExit
    /\ closed' = TRUE
    /\ rx' = "exit"
    /\ UNCHANGED <<events, permit, notifying, seen, senderVars>>

RecvClosed ==
    /\ rx = "check"
    /\ events = <<>> /\ ~pendingExit /\ closed
    /\ rx' = "done"
    /\ UNCHANGED <<queueVars, permit, notifying, seen, senderVars>>

RecvNothing ==
    /\ rx = "check"
    /\ events = <<>> /\ ~pendingExit /\ ~closed
    /\ rx' = "await"
    /\ UNCHANGED <<queueVars, permit, notifying, seen, senderVars>>

\* notified().await takes a stored permit, or parks.
AwaitNotified ==
    /\ rx = "await"
    /\ permit' = FALSE
    /\ rx' = IF permit THEN "check" ELSE "parked"
    /\ UNCHANGED <<queueVars, notifying, seen, senderVars>>

\* The write succeeded.
Written ==
    /\ rx \in {"write", "exit"}
    /\ rx' = IF rx = "exit" THEN "done" ELSE "check"
    /\ UNCHANGED <<queueVars, permit, notifying, seen, senderVars>>

\* Serialising or writing failed: the task returns.
WriteFailed ==
    /\ rx \in {"write", "exit"}
    /\ rx' = "done"
    /\ UNCHANGED <<queueVars, permit, notifying, seen, senderVars>>

-----------------------------------------------------------------------------
(* The connection's task.                                                  *)

\* disconnect(), or detach() of a frame client, takes the client out of the
\* map if it is still there: the peer hung up or detached, or the writer task
\* is done.
Deregister ==
    /\ ~leaving
    /\ lock = "free"
    /\ leaving' = TRUE
    /\ registered' = FALSE
    /\ UNCHANGED <<queueVars, permit, lock, todo, overflowed, notifying, made,
                   rx, seen>>

\* ... and afterwards aborts the writer task, wherever it is suspended.
AbortWriter ==
    /\ leaving
    /\ rx \notin {"done", "aborted"}
    /\ rx' = "aborted"
    /\ UNCHANGED <<queueVars, permit, notifying, seen, senderVars>>

-----------------------------------------------------------------------------
Produce == \/ \E chunks \in 1..MaxChunks : BeginBroadcast(chunks)
           \/ PushFrame \/ TryPushOutput \/ Overflow \/ RemoveOverflowed
           \/ PushExit \/ Notify \/ Release

Recv == RecvEvent \/ RecvPendingExit \/ RecvClosed \/ RecvNothing \/ AwaitNotified

Next == Produce \/ Recv \/ Written \/ WriteFailed \/ Deregister \/ AbortWriter

Spec == Init /\ [][Next]_vars

\* A producer that holds the locks goes on, and so does the writer task as long
\* as its peer reads.  The session is never obliged to produce, nor the
\* connection to end; but once it ends it aborts the writer task.
Fairness == /\ WF_vars(PushFrame \/ TryPushOutput \/ Overflow)
            /\ WF_vars(Notify)
            /\ WF_vars(Release)
            /\ WF_vars(RemoveOverflowed)
            /\ WF_vars(Recv)
            /\ WF_vars(Written)
            /\ WF_vars(AbortWriter)

FairSpec == Spec /\ Fairness

-----------------------------------------------------------------------------
(* Properties.                                                             *)

TypeOK == /\ events \in Seq(Nat)
          /\ pendingExit \in BOOLEAN
          /\ closed \in BOOLEAN
          /\ permit \in BOOLEAN
          /\ registered \in BOOLEAN
          /\ leaving \in BOOLEAN
          /\ lock \in {"free", "broadcast", "remove", "drain"}
          /\ todo \in Nat
          /\ overflowed \in BOOLEAN
          /\ notifying \in BOOLEAN
          /\ made \in Nat
          /\ rx \in {"check", "await", "parked", "write", "exit", "done", "aborted"}
          /\ seen \in Nat

\* Something recv() would return without waiting.
Ready == events # <<>> \/ pendingExit \/ closed

\* No wakeup is lost: a writer task parked on the Notify while there is
\* something for it to take is about to be notified (recv checks the queue
\* before it creates the notified() future, session.rs:71-88; every push
\* notifies after it has dropped the queue's mutex).
NoLostWakeup == rx = "parked" /\ Ready => notifying

\* A task about to park will find the permit of a push it has not seen.
NoMissedPermit == rx = "await" /\ Ready => notifying \/ permit

\* Bytes clients: what recv() returned and what waits are the chunks
\* 1, 2, 3, ... without a gap, whatever overflowed and however the chunks of a
\* batch interleave with recv(); only an exit may follow them.
BytesInOrder ==
    Mode = "Bytes" =>
        \A i \in 1..Len(events) :
            \/ events[i] = seen + i
            \/ events[i] = Exit /\ i = Len(events)

\* Frame clients: frames are shown in the order they were made, none twice.
FramesInOrder ==
    Mode = "Frame" =>
        \A i \in 1..Len(events) :
            \/ /\ events[i] > seen
               /\ \A j \in 1..(i - 1) : events[j] < events[i]
            \/ events[i] = Exit /\ Len(events) = 1

\* The number the client will have seen once it has drained the queue.
Latest == IF events = <<>> THEN seen ELSE events[Len(events)]

\* A slow frame client still converges to the newest screen: dropping frames
\* never drops the newest one (push_frame clears the queue before it pushes).
NewestFrameKept == Mode = "Frame" /\ ~closed => Latest = made

\* As long as a bytes client is registered and not marked overflowed it has
\* been handed every chunk: the loss of a chunk is never silent.
NoSilentLoss ==
    Mode = "Bytes" /\ registered /\ ~overflowed => Latest = made

\* Only the session's map decides who is sent to: a registered client's queue
\* is open, so no producer ever meets a closed queue, and a client that is no
\* longer registered is never pushed to again.
RegisteredIsOpen == registered => ~closed /\ ~pendingExit

\* The exit is the last thing a queue holds, and there is one of it at most:
\* once it is on its way (or was taken), nothing else waits behind it.
ExitIsLast ==
    /\ \A i \in 1..Len(events) :
           events[i] = Exit => closed /\ ~pendingExit /\ i = Len(events)
    /\ pendingExit => closed
    /\ rx = "exit" => events = <<>> /\ ~pendingExit /\ closed

\* The queue holds at most Capacity data; only the exit has no claim on room.
Bounded == Len(events) <= Capacity

\* Once the session has stopped sending, no datum enters the queue: what waits
\* only ever shrinks from the front.
NothingAfterClose ==
    [][closed => events' = events \/ (events # <<>> /\ events' = Tail(events))]_vars

\* Every datum is eventually seen by a client that keeps reading (frames may be
\* superseded by later ones), unless its stream ends first.
DataDelivered ==
    \A n \in 1..MaxData : made >= n ~> seen >= n \/ rx \in {"exit", "done", "aborted"}

\* A closed queue ends the writer task, whatever it was waiting for: the
\* connection's task is not left waiting for it.
CloseEndsWriter == closed ~> rx \in {"done", "aborted"}

\* What the flags of its senders say of the client's stream.
Phase == IF leaving THEN "left"
         ELSE IF ~registered THEN "ended"
         ELSE IF overflowed THEN "lossy" ELSE "open"

\* EventQueue implements the stream promised to a client.
Stream == INSTANCE ClientStream WITH
    backlog <- IF pendingExit THEN Append(events, Exit) ELSE events,
    phase   <- Phase,
    newest  <- made,
    over    <- rx \in {"exit", "done", "aborted"}

StreamImplemented == Stream!Spec

=============================================================================
