# A TLA+ model of qscreen

qscreen keeps terminal sessions in a daemon; clients create them, attach to
them over a local socket, detach and come back. This directory holds TLA+
modules that model the daemon's concurrent core, the terminal it keeps of each
session and the client, the TLC runs that check them, and TLAPS proofs about
them. `PROJECT.json` lists components, runs, mutants, hazards, theorems, and for
every definition the source lines it models. Paths below are relative to the
repository; `session.rs` and `lib.rs` are those of `crates/qscreen-daemon/src`,
`main.rs` and `term.rs` those of `crates/qscreen-client/src`, `grid.rs`, `row.rs`,
`screen.rs` and `perform.rs` those of `crates/vt100-psmux/src`.

    tlc -config Session_Life.cfg MCSession.tla      # a run
    tlapm EventQueue_proofs.tla                     # the proofs of a module

## 1. The system

| Component | State | Operations | What makes it correct | Modules |
|---|---|---|---|---|
| `SessionEventQueue` (session.rs:48-155) with the writer task of an attach (lib.rs:663-694) | deque of events, `pending_exit`, `closed`, the permit of a tokio `Notify` | `push_frame`, `try_push_output`, `push_exit_for_mode`, `close_when_drained`, `recv` | bytes without gap and in order, newest frame kept, exit last and never lost, no lost wakeup, bounded | EventQueue, ClientStream |
| `Session` (session.rs:186-580) | map of attached clients with size and mode, active client, PTY master, writer and killer, width and height, screen, scrollback, `exited`, `closed`, `event_lock` | `attach`, `focus_client`, `input_client`, `resize_client`, `detach`, `disconnect`, `resize`, `close`, exit waiter | every client told of the end once, no output missed, PTY has the size of the latest active client, nobody left behind in the map, `close` terminates | Session |
| Coalescing output reader (session.rs:797-975) | staging buffer, `reader_done`, the batch in hand | read, coalesce, append to scrollback and screen, broadcast, remove overflowed clients, end of file | every byte processed once and in order, last bytes before the end | OutputReader, Session |
| `vt100-psmux` | two grids of lines of cells, cursor, saved cursor, scroll region | control sequences, resize | indexes stay valid, wide characters whole, the alternate screen leaves the main one alone | Grid, Screen |
| `State` (lib.rs:22-128, 359-455) | live sessions, tombstones, next id, stop channel | New, Kill, Rename, Stop, List, cleanup task per session | one record per id, fresh ids, exited sessions remembered, nothing runs out of reach | DaemonState |
| Daemon start-up (lib.rs:150-272, main.rs:4345-4392) | lock directory, pid file, socket | acquire, stale check, bind, accept, stop; clients that start a daemon | one daemon at a time, a crash hinders no later start | DaemonLock |
| Connections (lib.rs:276-334, 514-831) | read half, shared writer mutex | request/response, attach handshake, replay, read loop | responses and events interleave by whole messages, no mutual blocking | View, Session |
| Client, session loop (main.rs:2224-2398) and list overlay (3496-3907) | current and previous session, rows and selection | attach, switch, recover, create, rename, kill, shut down | switches to a live session, shuts down only when none is left | Client |
| Client, attach loop (main.rs:2760-3369, term.rs) | renderer, last frame, bar, prefix state, overlay | drain and draw frames, poll, input actions, overlays, resizes | the terminal shows the session, keys in order, sizes agree | AttachLoop, Terminal, View |
| Client, what it draws itself (main.rs:1869-2076, 3953-4297) | terminal size, items, rows, selection, status line | draw the bar, draw the list | current and selected in view, lines fit | Layout |
| Protocol (`qscreen-protocol`) | none | encode, decode, validate | limits hold on both sides | View (limits) |
| Command line, help texts, colours, paths, shells | - | - | - | not modelled |

How they meet: a connection's task calls `Session` methods directly; the
session, the exit waiter and the parser thread call the client's queue; the
queue wakes the writer task through the `Notify`; the exit waiter wakes the
cleanup task through a `watch` channel; connections share the daemon's two maps
with the cleanup tasks and with the end of `run()`. Everything is guarded by
small mutexes that are mostly taken one after the other, so the difficult
behaviour lies *between* critical sections. On the other side of the socket one
`select!` loop takes the daemon's messages, the input reader's actions and the
bar's poll in any order, and draws on a terminal that three others draw on, too.
The hazards are listed, line by line, under `hazards`.

## 2. The modules

### EventQueue and ClientStream

`EventQueue` is one client's queue with all who touch it. One action is what
happens under one hold of the queue's mutex, or one step outside it:
`PushFrame`, `TryPushOutput`, `Overflow`, `PushExit` and `RemoveOverflowed` are
the producers, `Notify` is their `notify_one()` *after* the mutex was dropped,
`Release` the end of their hold on `attached_clients`. The writer task is `rx`:
it goes through `RecvEvent` / `RecvPendingExit` / `RecvClosed` / `RecvNothing`
(the body of the loop in `recv`, in its order), `AwaitNotified` and `Written`;
between `RecvNothing` and `AwaitNotified` producers can get in. `Deregister` and
`AbortWriter` are the connection's task. Data are numbers in the order the
session makes them, 0 is the exit; what they carry does not matter. `Mode` tells
frame from bytes clients. The tokio `Notify` is external and modelled from its
use: a waiter is woken, or one permit is stored.

`ClientStream` is what a client is promised, without mutex, flags, pending slot
or permit: data are offered, frames may supersede frames, bytes that do not fit
are lost and no datum follows them, the stream ends with an exit; only a stream
that lost bytes may be cut without one, unless the client leaves.
`EventQueue` implements it under the mapping at its end (the pending exit is
part of the backlog).

### Session and MCSession

`Session` is one live session with every thread that works on it. Each field has
a lock of its own, so **one action is one critical section**, and an operation
is a sequence of actions of one process: `pc` says where a connection is, `op`
in what. The sections in source order:

| Operation | Actions |
|---|---|
| `attach` | `AttachCheck`, `AttachLock`, *resize_pty*, `AttachSnapshot`, `AttachInsert` |
| `resize_pty` | `ResizeOpen` (or `ResizeRefused`), `ResizeMaster` (or `ResizeFails`), `ResizeWidth`, `ResizeHeight`, `ResizeScreen` |
| `focus_client`, `input_client` | `Focus`, `FocusActivate`, *resize_pty*, then for input `WriteOpen`, `WriteBegin`, `WriteDone` or `WriteFailed` |
| `resize_client` | `Resize`, `ResizeStore`, `ResizeClaim` (if it was detached), `ResizeCompare`, *resize_pty* |
| `detach`, `disconnect` | `Detach` or `Disconnect`, `ReleaseCheck`, `ReleaseClear` |
| control-plane Resize | `ControlResize`, *resize_pty* |
| `close` | `CloseFlag`, `CloseKill`, `CloseWriter`, `CloseMaster`, `CloseDrain` |
| exit waiter | `WaiterReap`, `WaiterDrain` |
| parser thread | `ParserAppend`, `ParserPush`, `ParserRemove`, `ParserDrop`, `ParserDropDone`, `ParserEof` |

Output is abstracted to the number of batches; `stream[c]` is the last batch that
client was handed, in its snapshot or in its queue; `told[c]` is how its queue
was ended. Which bytes clients' queues are full at a broadcast is any subset (the
queue itself is `EventQueue`). `recent` is history: the client that attached,
focused or typed last. Two pairs of mutexes are nested in the code: the parser
thread and an attach hold `event_lock` over several sections (variable
`eventLock`), and the removal of overflowed clients holds the map while it reads
the active role (variable `dropping`). Where a drain holds the map and then
resets the role, nothing that may happen in between depends on the order, so it
is one action.

`OneAtATime` says that operations of different connections do not overlap; it
separates what the code guarantees without races from what races break. It is
the constraint of a run and a hypothesis of a theorem. `MCSession` adds the
symmetry of clients.

### DaemonState

The daemon's two maps and its counter, with a process per connection, a cleanup
task per session and the end of `run()`. Again one action is one critical
section: `Allocate`, `Spawn`, `InsertForget`, `InsertLive`, `Subscribe` are New;
`KillLookup`, `KillClose`, `RemoveLive`, `RemoveTomb` (or `KillExited` first) are
Kill; `StopTake`, `StopClose`, `StopForget`, `StopSignal` are `kill_all()` and
the stop signal; `MainTake`, `MainClose`, `MainForget` are what `run()` does
after its loop; `CleanupWake`, `CleanupTake`, `CleanupBury` are the cleanup task.
A `Session` is abstracted to: its child runs, `close()` was called, its exit was
announced. The exit waiter announces it through a `watch` channel whose first receiver
was dropped (session.rs:271): a send before `Subscribe` finds no receiver, and stores
nothing for the receiver to come (`Exits`, `announced`). Because an id
is given out once (the 64-bit counter saturates, which takes 2^64 sessions), the
cleanup task's `Arc::ptr_eq` is the test that the id is still in the map.

### DaemonLock

Several daemon processes and the clients that start them, one action per system
call: `CreateLock`, `CheckStale`, `RemoveStale`, `CreateAgain`, `WritePid` are
`DaemonLockGuard::acquire()`, `RemoveSocket`, `Bind`, `StopListening` are `run()`,
`DropLock` the guard's drop, which leaves a directory with a pid file alone. A
`Crash` may come before any of them, a `Stop` reaches the daemon that answers.
`Connect`, `SpawnDaemon`, `Reach`, `GiveUp` are `ensure_and_connect()`. `raced`
and `excused` are history, for the properties only. The clients' five seconds are
taken to be enough for a daemon that is starting. Its specification is `LockSpec`, so
that `Daemon_proofs` can extend it together with `DaemonState`.

### OutputReader, Terminal, AttachLoop and View

These four follow what a child writes to the user's eyes and what the user types
to the child. `OutputReader` has the reader thread, the staging buffer, the parser
thread (`TakeBatch`, `ProcessBatch`, and at the end `LeaveAltScreen`,
`BroadcastCleanup`, `EndOfOutput`) and the exit waiter; a client's queue is
reduced to what `EventQueue` leaves in it. `Terminal` has the operators for
screens, frames and the user's terminal: `ScreenFrame`, `Render` with its
difference to the frame before, `DrawBar`, `Raw` output. A row's content is one
number. `AttachLoop` is `run_attach_loop()`: `TakeFrame` with its drain of k
messages (`Drain`, a fold: of frames the newest, all else is put aside), `TakeOutput`, `TakeEnd`, `BarPoll`, one action per action of the input
reader, the reader itself with the prefix key (`PrefixKey`, `CommandKey`,
`PlainKey`, `IdleTick`, `PrefixTimesOut`), and the overlays, which stop the reader
and the loop (`OpenOverlay`, `OverlayReadsResize`, `CloseOverlay`). `View` joins
them with the connection: `Attach`, `Replay`, `SendInitial`, `WriteEvent`,
`HandleInput`, `HandleResize`, `HandleDetach`, `Disconnect`. Each action of the
joined specification names the parts it leaves alone. `Keys` is the way of a key
as one sequence: written to the PTY, requested, read, held back as a prefix.

A behaviour of `View` follows one *plan* (`MCView`): what the child writes, which
heights the terminal takes, which kinds of events come from outside and how many.
Sizes are heights: widths matter to no decision of the loop. One client is
attached; others appear as `OtherClient`, which takes the active role and resizes.

### Client

The client between attachments: the commands that attach, `attach_session_loop()`
with `Unavailable`, `Recover`, `FallBack`, `GiveUp`, the outcomes of an
attachment (`Ended`, `Detach`, `SwitchTo`, `SwitchToFresh`, `Quit`), and the list
overlay (`OpenList`, `Move`, `Prompt`, `Rename`, `ListRenamed`, `Kill`,
`ListKilled`, `Select`, `CreateInList`). A request is one step and may fail, except
that attaching takes two, as in the daemon: `AttachChecked` finds the session alive, and
`Attach` puts the client into its map without another look. The daemon is the standing of each id, which other clients and the children change
between any two requests, and which begins anew when somebody stops the daemon.
`link` is the attachment's stream: being entered, to a session that still lives or to one
that has ended since; up, over, or torn, which is what the client
takes for the end of the session too; or mute, when the client entered the map after the
end was told (`Cut`) and hears nothing until the daemon goes (`HangUp`). `seen`, `told` and `retried` are history: what the
last listing showed, of which sessions the client has learned that they ended, and
whether recovering has led to the session it would fall back to. Listings and the
neighbour follow the order in which the daemon sorts (`Rank`, `InOrder`).

### Grid and Screen

`Grid` has the operators of grid.rs and row.rs on one grid: lines of cells that
are blank, narrow, or a half of a wide character, with cursor, saved cursor,
scroll region and origin mode. `Screen` has the two grids and one action per
control sequence (the names are those of screen.rs), and `Resize` of the session.
An index the code would use out of range sets `bad`, after which the parser
thread is dead. What a child may send is chosen at the start, an *instance* of
`MCScreen`: every sequence occurs in one, not all in the same.

### Layout

What the client draws of its own, to the column: `BarRow` is
`render_status_bar()` with `ScrollOffset` and `SliceColumns`, `ListLines` and
`StatusRow` are `render_session_list_with_status()` with `HeaderLen`, `Viewport`,
`RowLine` and `SegmentsIn`. The code has two measures of a text, and so has the model: it
*cuts* by the columns of each character (`UnicodeWidthChar`; `CharWidth`, `Truncated`,
`SliceColumns`) and *measures and pads* by those of the string (`UnicodeWidthStr`;
`Width`, `Padded`, `ListLine`). A character has the columns `w` by itself, and `more`, what
those before it add or take: one more for the selector that makes an emoji of a symbol,
two fewer for an emoji that is joined to the one before. Only directories and status lines have such
characters (`AnyText`), translated texts have none (`PlainText`), labels, ids, names and
sizes are ASCII. What goes over a text or a list of texts is a fold, whose steps have a
name (`AddChar`, `AddWidth`, `TakeChar`, `AddSegment`, `EmitSegment`). The actions change the terminal's
size, the sessions, the selection and the status line; each state is redrawn.

## 3. The runs

| Run | Shows | Bounds |
|---|---|---|
| `EventQueue_Frame` | no lost wakeup, newest frame kept, nothing enters a closed queue, refinement of `ClientStream` | capacity 2, 6 frames: the queue fills and is cleared several times |
| `EventQueue_Bytes` | gapless order, no silent loss, exit last, delivery, a closed queue ends the writer | capacity 3, batches of up to 3 chunks, 7 chunks: a batch overflows at each of its chunks; the exit meets a full queue |
| `Session_Life` | nobody gone is left in the map or active, nothing missed by an attach, the end is final | a frame and a bytes client with one command each, one `close()`, two batches |
| `Session_Live` | clients told of the exit leave, a stale active role is given up, `close()` ends | a bytes client (the kind that stays after a detach), a control resize, one `close()`, one batch |
| `Session_Sequential` | the PTY has the size of the client that attached, focused or typed last, and that client is active | two clients with two commands each, two sizes, no overlapping operations |
| `DaemonState_Table` | one record per id, no orphan, fresh ids, sessions whose exit was announced are remembered | two connections with any number of requests, two ids |
| `DaemonLock_Starts` | remains of crashes hinder nobody, one instance | four daemons, two clients, two crashes or stops |
| `View_Attached` | the terminal in step with renderer and bar, keys in order, sizes agreed, the latest screen shown | seven plans: up to four pieces of output, up to four outside events, three heights, queue of 2 |
| `Client_Navigation` | no shutdown of what the listing showed, no return to the dead, selection in range, searches end, a client told of the last end leaves | two ids per daemon, any number of restarts and requests |
| `Screen_Grids` | valid grids, whole wide characters, no index out of range, the main screen comes back | six instances, screens of two to four rows and one to three columns, parameters up to 3 |
| `Layout_Rows` | current session and selected row in view, every line fills its row, exactly unless a text is wider than its characters | 16 widths, 6 heights, up to three sessions in the bar and eight in the list, a directory and a status line with emojis |
| `Session_AttachRace` (violated) | an attach that overlaps the end is never told | one client, no command |

The bounds are `MaxData`, `MaxChunks` (EventQueue), `MaxOps`, `MaxOutput`
(Session), `MaxIds` (DaemonState, Client), `MaxFaults` and the set of daemons
(DaemonLock), the plans (View), the instances and `MaxCount` (Screen), and the sets
of sizes and texts (Layout). Each of the counters is a guard of one action. They are
enough because every property talks about at most two clients, two sessions, two
daemons or one queue, and each hazard named for it happens within them: for every
property `PROJECT.json` names a plausible mistake in the code (an operator
`Mistake...` beside the correct one) with which the same run finds it violated.
Widths in `Layout_Rows` lie on both sides of the header's, of each label's and of
the 59 columns a row's fixed part takes; in `Screen_Grids` a line has room for a
wide character and one more, so that each of its halves can be at either edge.

Runs whose system may stop switch the deadlock check off: `EventQueue` when its
data are used up, `Client` when the program has ended, `View` when the plan's
events are, `DaemonLock` when every process has been started and ended, `Screen`
when the parser thread is dead. `Session`, `DaemonState` and `Layout` check it:
their only quiet states are those in which everything has ended (`Finished`,
`main = "stopped"`), or none.

### Findings

`Session_AttachRace` is a disagreement between code and documents: the flags are
checked before any lock (session.rs:439), so a client can enter the map (session.rs:464)
after it was drained, and waits for ever for an exit event.

Further behaviour that the models show and that a reader of the code should know,
each outside what the properties claim, as said beside them:

* **An exit that nobody hears** (session.rs:271, 340; lib.rs:57-62): the channel's first
  receiver is dropped, and a send without a receiver stores nothing. A child that exits
  between `Session::new_with_cwd()` and `subscribe_exit()` is announced to nobody: its
  cleanup task reads `false` and waits for a change that never comes, and its session
  stays in the live map and in every listing, although the comment of `list_sessions()`
  (lib.rs:96-97) says that exited sessions do not appear there. `ExitedIsRemembered` is
  claimed of announced exits; stated of all exits, TLC finds it violated.
* **A client that is never told** (session.rs:439, 464): what `Session_AttachRace` means
  for the client. It attaches with success to a session that has just ended, and neither
  leaves nor shuts the daemon down although no live session remains, against
  README.md:209-211. `LastOneLeaves` excepts it (`link # "mute"`); without the exception
  TLC finds it violated.
* **Two measures of width** (main.rs:4284 against 4158, 4215, 4228): unicode-width 0.2.2
  gives a symbol and its emoji selector one column as characters, by which lines are cut,
  and two as a string, by which they are measured. A directory with one can overflow its
  row by a column, against the comment of `write_list_line()` (main.rs:4166). `ListFits`
  claims the exact width for lines none of whose characters widens others (`Fair`), and
  for all others that no column is left unused; stated of all, TLC finds it violated.
* **Overlapping focus** (session.rs:486-490, 545): two clients that focus, type
  or detach at once can leave the role with one and the other's size on the PTY.
  `RecentOwnsSize` is checked without overlap.
* **A screen of one row** (grid.rs:675-689): a character after a full line marks
  the row above as wrapped, which is row -1. `IndexesInRange` is checked on two
  rows and more; the limits of the protocol allow one.
* **A screen of one column** (screen.rs:944-986): `size.cols - width` underflows for
  a wide character, so it does not wrap; it is written half, and the cursor ends two
  columns past the end, where the next ICH, DCH or combining character
  indexes a cell that is not there. `PairsWhole` and `IndexesInRange` end at such a
  character as they do at a wide character cut by a resize (`cut`).
* **Ended, or taken for ended** (main.rs:2952-2957, 4402): an error response to a
  refused resize, or a first frame partly swallowed by `recv_msg()`'s buffer, ends
  an attachment like an exit. If it was to the only session, the client shuts the
  daemon down while that session lives; `StopIsJustified` excepts it.
* **Back to a session that has ended** (main.rs:2232-2234, 2263-2265): the comments
  call `previous_session_id` a known-good, still-running session to fall back to.
  Recovering can itself lead to that session, without taking it; if it ends then,
  and the next listing fails, the client falls back to a session it has just been
  told of the end of. `NoReturnToTheDead` excepts the session recovering led to.
* **A later failure taken for a race** (main.rs:1531-1539): `cmd_attach_default()`
  retries on `SessionUnavailable` also when a session was attached in between.
* **Overlapping starts** (lib.rs:249-258): the lock of a daemon that has not bound
  its socket yet counts as stale, so two daemons that start together can both
  serve; the first one's sessions are then out of reach. `OneInstance` is claimed
  of starts and ends that do not overlap, `RemainsAreCleared` of all.
* **Resizes draw nothing** (main.rs:3008-3034): the daemon broadcasts no frame for
  a resize, so the session's area shows what the terminal made of it until the
  child writes. `LatestShown` excepts sessions resized after their last output.

## 4. Fairness

Fairness is weak, per task, and only where the code schedules the step by itself:
a thread in the middle of an operation goes on (mutexes are held for short
sections), the tokio runtime polls a task that can make progress, a child that
was killed dies, the exit waiter and the cleanup task wake up. Not fair: requests
of a peer, output of a child, a child reading its input (`WriteDone`), a child
exiting by itself, the decision to close or stop. A writer task's write is fair
in `EventQueue` (`Written`): the delivery properties are about a client that
reads. In `DaemonState` the cleanup task's wake-up is fair only until `run()` has
returned, when tokio drops waiting tasks.

In `View` the daemon's threads and tasks as a whole, and the client's loop as a
whole, go on (`select!` picks among ready branches at random, so none starves);
the user and the outside do what they like, so `LatestShown` says nothing while an
overlay is open. In `Client` the program goes on by itself wherever it does not
wait for the user (`ClientStep`), and acts on a stream that tells of the end or is torn,
not on a mute one; requests may
fail for ever, and still `SearchEnds`. The other modules state safety only.

## 5. What is proved

For every value of the constants that satisfies the modules' assumptions:

| Module | Theorems (the runs' properties they state) |
|---|---|
| `EventQueue_proofs` | type invariant, `NoLostWakeup`, `BytesInOrder`, `NoSilentLoss`, `NewestFrameKept`, `ExitIsLast`, `NothingAfterClose`; steps of the queue are steps of `ClientStream` |
| `Session_proofs` | type invariant, `GoneIsForgotten`, `NothingMissed`, `EndIsFinal`; `RecentOwnsSize` where operations do not overlap and no control request resizes |
| `Daemon_proofs` | of `DaemonState` the type invariant, `OneRecord`, `IdsAreFresh`, `NoOrphan`; of `DaemonLock` `OneInstance`, `RemainsAreCleared` |
| `Client_proofs` | `SelectedIsARow`, `StopIsJustified`, `NoReturnToTheDead` |
| `View_proofs` | `HostInStep`, `KeysInOrder`, `SizeAgreed` |
| `Screen_proofs` | `GridsValid`, `PairsWhole`, `LeavingRestoresMain`; `IndexesInRange` where every size has two rows or more |
| `Layout_proofs` | `CurrentIsShown`, `ListFits` |

Each module has one inductive invariant (`IInv`) and one lemma that every step
keeps it; the theorems follow from it. The arguments, module by module:

**EventQueue.** The invariant has a control part and a stream part.
`NoLostWakeup` alone is not inductive: the step that parks the writer task needs
`NoMissedPermit` (a task about to park finds the permit of a push it has not
seen), and that needs the lock invariant (a producer that still has to notify
holds the map's lock). The stream part needs that only a registered client is
broadcast to and that a registered client's queue is open, otherwise a chunk
might follow an exit. `NoSilentLoss` follows for the same reason: a chunk that
does not fit marks the client before the map's lock is given up.
`FramesInOrder`, `RegisteredIsOpen` and `Bounded` are proved as parts of these
theorems and need no run of their own.

**Session.** `NothingMissed` rests on `event_lock` (`LockInv`): a client that has
its snapshot and is not in the map yet holds it, so the snapshot is still current
(`SnapshotsCurrent`), and the parser thread has appended nothing it has not
broadcast. `GoneIsForgotten` needs what is known of those who come
(`Newcomers`: not in the map, not active, not told) and of those about to leave
(`Leavers`: out of the map already, whatever drains overlapped with them).
`EndIsFinal` needs only that nobody told is in the map (`Ended`): attach cannot
put it back, because a connection attaches once. `RecentOwnsSize` is about
four fields that `resize_pty()` sets one by one: `ResizeInProgress` says how far it
is and for whom, `Pending` which operations will still set them, `RoleInv` that the
recent client has the role or is about to get it; when none is pending, all four are the
recent client's (`SizeInPlace`). An attach counts as pending only once the PTY has taken
its size: before that it may still be refused (`Refuse`), and then nobody is recent. Without `OneAtATime` two `resize_pty()`
interleave, see the findings.

**DaemonState.** `OneRecord` needs that a tombstone exists only when the cleanup
task is through (also while a Rename holds a copy of it), and that by then the id
has left the live map for good; the latter needs that ids of sessions being
created are fresh. `NoOrphan` needs that what a Kill removes was closed or has
exited, and that a task is done with a `kill_all()` only when it has closed
everything it took.

**DaemonLock.** `OneInstance` speaks of daemons that serve; whether another may
join them depends on those on their way. As long as no two have overlapped, at most
one is starting or ending (`OneBusy`); its lock and the free path are its own
(`Alone`); and beside a daemon that serves, every other is no further than the check
of the lock (`Settled`), which fails, because the serving one answers.
`RemainsAreCleared` holds without that hypothesis: while a client waits that no crash
and no stop has excused, no daemon is about to end (`NoneStops`), and one answers or
is on its way (`OnItsWay`: it will get to serve, or another does, `HelpIsComing`).

**Client.** While attached, the client has not been told that its session ended,
unless it has killed it itself a moment ago (`SessionIsThere`); an attach is under way only with a session
that was there (`Entering`), which the end of a session, or of the daemon, leaves so
(`CutShort`). The
session to fall back to is not known to be dead and not the one being tried, unless
recovering led there or a daemon was restarted (`FallbackIsAlive`). On the way to a
shutdown the last listing showed nothing else alive (`NothingElse`): that is the
fact `StopIsJustified` is about, and it survives only because the client stops at
once. The neighbour a switch leads to is a listed one: `Neighbour` picks by rank, and
the lemmas about `Rank` show that every place has exactly one session, for any number
of them; the clamped selection of the overlay is a row again after every listing.

**View.** The three properties need one invariant, over client, wire, queue and
daemon together.
*The terminal*: `HostInStep` together with the loop's own idea of the height is nearly
inductive, since a frame is drawn as a difference to the frame before: whatever
changes the terminal behind the renderer's back (raw output, overlays, resizes)
either resets the renderer or keeps the size unknown, and when sizes are known
again the renderer has been reset. The mouse mode needs `MouseKnown` and `ReplayQuiet`: only
the replay of the scrollback sets a mode past the renderer.
*The size*: not sizes agree but *will* agree: the last resize in a queue decides
(`Settles`), in `actions` for the loop (`SizeRead`) and in `requests` for the daemon
(`SizeSent`), except when an error is on its way (`Failing`), which ends the
attachment. An overlay reads resizes itself and sends one when it closes; that no
older one is left behind it is `CommandLast` and `Covers`: a command is the last
thing the reader reads. `SizeTaken` ties the PTY to the active client.
*The keys*: segment by segment (`Ordered`) what was passed on is older than what is
requested, that older than what was read, that older than a prefix held back; the
prefix is the newest key and not known to be plain; nothing plain is lost while the
attachment lasts (`Lossless`).

**Screen.** `Grids(R, C, whole)` is the set of grids of R rows and C columns that
control sequences lead to; `whole` says that no wide character has lost a half.
Each operator of `Grid` maps it into itself. The lemmas come in three layers: on the
cells of one line (`Erased`, `RemovedIsWhole`, `Shifted`, `PutIsWhole`, `Resized`:
what each does to the halves around the place it changes), on one grid (`ScrollStays`,
`WrapStays`, `ColsErased`, `TextStays` and so on; lines that move and cells that go
one by one are folds, so `FoldInvariant` lifts the lemma about one to any number),
and on the two grids (`StepKeeps`). Two facts had to be found. The
scroll region ends below the first row (`Region`), otherwise the line that wrapping
leaves may be row -1; it is what the hypothesis of two rows is for. And of the main
grid `Remembered` keeps, while the alternate screen is on, that its *saved* cursor is
the one it had: nothing but a resize, a reset or leaving touches it.

**Layout.** The invariant says little (sizes, what was polled and listed, a selection
that is a row): both properties are about what is computed from it, for texts of any
length and lists of any number. The lemmas follow the code. *Of one text*: both widths are
sums over its characters (`WidthSteps`, `CharWidthSteps`), and equal where no character
changes another's (`WidthOfPlain`); `Truncated`
is its longest beginning that fits by the columns of its characters (`TruncatedFits`), so
that a fair text still fits when it is measured (`WidthGrows`, `CutText`) and a plain one
is cut at its measured width (`PlainCut`); padded it fills its columns (`Filled`,
`LineFilled`, `ColumnsAreFull`). A part of a line that is fair is fair (`FairParts`), which is
what makes the exact width of a drawn line follow from the drawn characters alone.
*Of texts one after the other*: `SegmentsStay` keeps for all texts that what is drawn fits its
room if it is fair. For plain ones `SegmentsFit` keeps, over any number of
segments, that what is drawn is a beginning of all of them, that no longer one that fits
is wider (`Best`), and that once one was cut or the room is used up nothing more is
drawn; this is where a fragment drawn after a cut one, or a combining character moved to
the text before, would show. *Of the list*:
`ListShares` (the head takes no row the window needs, and window and head stay above the
status line), `WindowFits` (the selection is in the window), and a line of each kind
(`TextLineFits`, `RowLineFits`, `StatusRowFits`, with wide characters in the state and any
in the directory). *Of the bar*: after each segment the row is the header and what the region
shows of the items so far (`Seen`, `EmitStep`, `EmittedRow`), `ScrollFits` places the
current one's columns within the region, and `LabelPlace` says that what `CurrentSpan`
calls its columns are its label's. That the selector's character occurs nowhere else,
so that marked rows can be told, is `LayoutAssumption`.

**FoldTheorems** holds lemmas the others rest on and nothing about the system. A batch of
output, a drain of messages, lines that scroll and cells that are erased are folds. The
proofs about `View`, for one, need that `Interpret` over a batch keeps a screen a screen
of the same height, and that a drain keeps an error that it passes. The library's theorems of
induction take an operator as a parameter, which no installed prover can instantiate;
`FoldTheorems` states induction over a *set* of numbers and is itself instantiated
with the operator (`INSTANCE FoldTheorems WITH Op <- Drained`, `Op <- PulledUp` and so on).
`FoldInvariant` lifts what an operator keeps to its fold,
`FoldSteps` is the recursive definition of a fold as a lemma: `Layout` needs not only what a
fold keeps but what it computes, such as the width of a text and one character more.

What the theorems assume of the constants are the modules' `ASSUME`s: positive
capacities, a `View` plan whose heights are positive and whose script is a sequence of
control sequences (`ViewAssumption`), `Screen` sizes between 1 and 65535 in both directions
(`ScreenAssumption`; `validate_resize()` admits less), `Layout` texts of characters of
up to two columns, which add -2 to 1 columns to those before them; of these texts labels,
ids, names and sizes are ASCII, the translated ones plain, and no text of a status line has
no columns at all (`LayoutAssumption`: names are validated, and
messages, labels and the prompt's caret have columns), distinct model values. The
bounds of the runs (`MaxData`, `MaxOps`, plans and so on) are constants like the
others: the theorems hold for all of them.

Only model-checked: `AllToldOfTheEnd`, which is false; every liveness property
(`DataDelivered`, `LatestShown`, `SearchEnds` and the others of section 4); and the
fairness half of the refinement (`StreamImplemented`), since liveness and `ENABLED`
are out of the prover's reach. Every safety property of a passing run is a theorem,
two of them under a condition: `IndexesInRange` needs two rows, `RecentOwnsSize` that
operations do not overlap.

## 6. Not modelled

* Formatting without state: JSON, help texts, colours, the runs and attributes of
  cells in a frame, SGR, OSC strings, titles and the clipboard, and the formatted
  output of vt100-psmux, which the daemon does not use. The parser's own scrollback
  has length 0 (session.rs:275).
* Argument and configuration parsing, environment, path and shell resolution, the
  Windows branches.
* Display names and exit codes: nothing branches on them. Characters typed into the
  rename prompt.
* Mouse events of the client, `hide_cursor`, and the notice before an attachment;
  in `View`, attaching and the start of the client's loop are one step, and the
  daemon's queue, buffers of the socket and the writer mutex block nobody. The
  input reader of an attachment that has ended is gone at once.
* Panics that poison a mutex, apart from those of the grid's indexes.

## 7. What could be added

In this order: socket buffers of bounded size between `View`'s two sides, for who can
block whom on the shared writer mutex; two clients in `View`; the old and the new
input reader side by side.
