----------------------------- MODULE AttachLoop -----------------------------
(***************************************************************************)
(* One attachment on the client's side (main.rs, run_attach_loop()): the   *)
(* select! over the daemon's messages, the status bar's poll and the input *)
(* reader's actions; the input reader with its prefix key; the overlays,   *)
(* during which no message is read; and the user's terminal.               *)
(*                                                                         *)
(* wire is what the daemon has sent and the loop has not seen, in the      *)
(* socket or in msg_rx; requests is what the client has sent.  A key is    *)
(* numbered as it is typed.  An unread resize of the terminal is a flag:   *)
(* the event that is read carries the size the terminal has by then.       *)
(*                                                                         *)
(* A definition named Mistake... is a plausible wrong form of the one that *)
(* follows it; no action uses it, the runs must tell the two apart.        *)
(***************************************************************************)
EXTENDS Terminal

VARIABLES
    host,      \* the terminal: rows, mouse mode, cursor shape
    winch,     \* a resize nobody has read
    screenH, appRows, bar, renderer, lastFrame,
    wire, pending, requests, actions,
    reading,   \* an input reader runs
    prefix,    \* pending_since: <<>>, or the prefix key's number
    late,      \* PREFIX_PENDING_TIMEOUT has passed since
    overlay,   \* "none", "help" or "list"
    outcome,   \* "none", "Ended", "Detached" or "SwitchTo"
    typed,     \* number of the newest key
    plain      \* history: the keys known to belong to no command

viewVars  == <<host, winch, screenH, appRows, bar, renderer, lastFrame>>
inputVars == <<reading, prefix, late, typed, plain>>
loopVars  == <<viewVars, wire, pending, requests, actions, inputVars, overlay, outcome>>

Output(data) == [k |-> "output", data |-> data, frame |-> NoFrame]
Frame(f) == [k |-> "frame", data |-> <<>>, frame |-> f]
Answer(k) == [k |-> k, data |-> <<>>, frame |-> NoFrame]  \* "ok", "error", "exit"
Request(k, n) == [k |-> k, n |-> n]  \* also what the reader sends as actions

LoopInit(h) ==
    /\ host = NewHost(h) /\ winch = FALSE
    /\ screenH = h /\ appRows = AreaHeight(h)
    /\ bar = 0 /\ renderer = NewRenderer /\ lastFrame = NoFrame
    /\ wire = <<>> /\ pending = <<>> /\ requests = <<>> /\ actions = <<>>
    /\ reading = TRUE /\ prefix = <<>> /\ late = FALSE
    /\ overlay = "none" /\ outcome = "none"
    /\ typed = 0 /\ plain = {}

Running == outcome = "none" /\ overlay = "none"

-----------------------------------------------------------------------------
(* Messages of the daemon: next_attach_message() takes pending ones first. *)

EndsWith(o) == outcome' = o /\ reading' = FALSE
Ends == /\ EndsWith("Ended")
        /\ UNCHANGED <<viewVars, requests, actions, prefix, late, overlay, typed, plain>>

Pop == IF pending # <<>> THEN pending' = Tail(pending) /\ UNCHANGED wire
       ELSE wire' = Tail(wire) /\ UNCHANGED pending
Incoming(k) == /\ Running
               /\ pending \o wire # <<>>
               /\ Head(pending \o wire).k = k
               /\ Pop

\* An Output event goes to the terminal as it is.
TakeOutput ==
    /\ Incoming("output")
    /\ renderer' = Reset(renderer)
    /\ host' = Raw(host, Head(pending \o wire).data)
    /\ UNCHANGED <<winch, screenH, appRows, bar, lastFrame, requests, actions,
                   inputVars, overlay, outcome>>

\* A frame: drain the k messages that have arrived after it, keep the newest
\* frame and put the others aside, draw the frame and then the bar.
MistakeDrained(d, m) ==
    IF m.k = "frame" THEN d ELSE [newest |-> d.newest, pending |-> Append(d.pending, m)]
Drained(d, m) ==
    IF m.k = "frame" THEN [newest |-> m, pending |-> d.pending]
                     ELSE [newest |-> d.newest, pending |-> Append(d.pending, m)]
Drain(head, more) == FoldLeft(Drained, [newest |-> head, pending |-> <<>>], more)

DrawFrame(f) ==
    /\ renderer' = Rendered(f)
    /\ host' = DrawBar(Render(host, renderer, f), bar, screenH)
    /\ lastFrame' = f

\* An exit among them ends the loop at once, and so does it when the last of
\* them is taken and the stream is known to be over.
TakeFrame(k, over) ==
    /\ Running
    /\ pending = <<>> /\ wire # <<>> /\ Head(wire).k = "frame"
    /\ LET more == SubSeq(wire, 2, k + 1)
           drained == Drain(Head(wire), more)
       IN  IF \/ \E i \in DOMAIN more : more[i].k = "exit"
              \/ over
           THEN /\ Ends
                /\ wire' = <<>> /\ UNCHANGED pending
           ELSE /\ DrawFrame(drained.newest.frame)
                /\ pending' = drained.pending
                /\ wire' = SubSeq(wire, k + 2, Len(wire))
                /\ UNCHANGED <<winch, screenH, appRows, bar, requests, actions,
                               inputVars, overlay, outcome>>

\* An exit, or any response with an error.
TakeEnd == (Incoming("exit") \/ Incoming("error")) /\ Ends

TakeOk == /\ Incoming("ok")
          /\ UNCHANGED <<viewVars, requests, actions, inputVars, overlay, outcome>>

StreamEnds(closed) ==
    /\ Running
    /\ closed /\ pending \o wire = <<>>
    /\ Ends
    /\ UNCHANGED <<wire, pending>>

\* The status bar's poll brought other items than before.
BarPoll(items) ==
    /\ Running /\ StatusBar
    /\ items # bar
    /\ bar' = items
    /\ host' = DrawBar(host, items, screenH)
    /\ UNCHANGED <<winch, screenH, appRows, renderer, lastFrame, wire, pending, requests,
                   actions, inputVars, overlay, outcome>>

-----------------------------------------------------------------------------
(* The input reader: PrefixState and spawn_attach_input_reader().          *)

PrefixInput == [i \in DOMAIN prefix |-> Request("input", prefix[i])]
Waiting == prefix # <<>> /\ ~late

Send(as) == actions' = actions \o as
ClearPrefix == prefix' = <<>> /\ late' = FALSE
ReadsKey == reading /\ typed' = typed + 1
ReaderUnchanged == UNCHANGED <<viewVars, wire, pending, requests, overlay, outcome>>

\* PREFIX_PENDING_TIMEOUT passes.
PrefixTimesOut ==
    /\ reading /\ Waiting
    /\ late' = TRUE
    /\ UNCHANGED <<actions, reading, prefix, typed, plain>> /\ ReaderUnchanged

\* take_expired() on an idle tick: a prefix that waited too long is passed through.
IdleTick ==
    /\ reading /\ late
    /\ Send(PrefixInput) /\ ClearPrefix
    /\ plain' = plain \cup ToSet(prefix)
    /\ UNCHANGED <<reading, typed>> /\ ReaderUnchanged

\* key_event_to_bytes(): a key like Caps Lock is silent.
KeyInput(silent) == IF silent THEN <<>> ELSE <<Request("input", typed')>>
Known(silent) == IF silent THEN ToSet(prefix) ELSE ToSet(prefix) \cup {typed'}

\* A key that is no command: a prefix before it is passed through, too.
MistakePlainKey(silent) ==
    /\ ReadsKey
    /\ Send(KeyInput(silent) \o PrefixInput)
    /\ ClearPrefix
    /\ plain' = plain \cup Known(silent)
    /\ UNCHANGED reading /\ ReaderUnchanged
PlainKey(silent) ==
    /\ ReadsKey
    /\ Send(PrefixInput \o KeyInput(silent))
    /\ ClearPrefix
    /\ plain' = plain \cup Known(silent)
    /\ UNCHANGED reading /\ ReaderUnchanged

\* The prefix key: a second one in time is no command, a late one starts anew.
PrefixKey ==
    /\ ReadsKey
    /\ IF Waiting
         THEN /\ Send(Append(PrefixInput, Request("input", typed'))) /\ ClearPrefix
              /\ plain' = plain \cup ToSet(prefix) \cup {typed'}
         ELSE /\ Send(PrefixInput)
              /\ prefix' = <<typed'>> /\ late' = FALSE
              /\ plain' = plain \cup ToSet(prefix)
    /\ UNCHANGED reading /\ ReaderUnchanged

\* A command key after the prefix: the reader sends the action and stops.
CommandKey(command) ==
    /\ ReadsKey /\ Waiting
    /\ Send(<<Request(command, 0)>>) /\ ClearPrefix
    /\ reading' = FALSE
    /\ UNCHANGED plain /\ ReaderUnchanged

ReadResize ==
    /\ reading /\ winch
    /\ winch' = FALSE
    /\ Send(<<Request("resize", Len(host.rows))>>)
    /\ UNCHANGED <<host, screenH, appRows, bar, renderer, lastFrame, wire, pending,
                   requests, inputVars, overlay, outcome>>

ReadFocus ==
    /\ reading
    /\ Send(<<Request("focus", 0)>>)
    /\ UNCHANGED inputVars /\ ReaderUnchanged

-----------------------------------------------------------------------------
(* The reader's actions.                                                   *)

Acts(command) == /\ Running
                 /\ actions # <<>> /\ Head(actions).k = command
                 /\ actions' = Tail(actions)

\* Input and Focus are passed on.
PassOn(command) ==
    /\ Acts(command)
    /\ requests' = Append(requests, Head(actions))
    /\ UNCHANGED <<viewVars, wire, pending, inputVars, overlay, outcome>>

Resize ==
    /\ Acts("resize")
    /\ LET h == Head(actions).n
       IN  /\ screenH' = h
           /\ appRows' = AreaHeight(h)
           /\ requests' = Append(requests, Request("resize", AreaHeight(h)))
           /\ host' = DrawBar(host, bar, h)
    /\ renderer' = Reset(renderer)
    /\ UNCHANGED <<winch, bar, lastFrame, wire, pending, inputVars, overlay, outcome>>

Detach ==
    /\ Acts("detach")
    /\ requests' = Append(requests, Request("detach", 0))
    /\ EndsWith("Detached")
    /\ UNCHANGED <<viewVars, wire, pending, prefix, late, typed, plain, overlay>>

\* The help or the session list covers the terminal.
OpenOverlay(what) ==
    /\ Acts(what)
    /\ overlay' = what
    /\ host' = Covered(host)
    /\ UNCHANGED <<winch, screenH, appRows, bar, renderer, lastFrame, wire, pending,
                   requests, inputVars, outcome>>

\* It reads the terminal's events itself, and draws itself anew.
OverlayReadsResize ==
    /\ overlay # "none" /\ winch
    /\ winch' = FALSE
    /\ UNCHANGED <<host, screenH, appRows, bar, renderer, lastFrame, wire, pending,
                   requests, actions, inputVars, overlay, outcome>>

\* restore_session_after_overlay(), repaint_session_after_overlay().
MistakeCloseOverlay ==
    /\ overlay # "none"
    /\ overlay' = "none" /\ reading' = TRUE
    /\ screenH' = Len(host.rows)
    /\ appRows' = AreaHeight(screenH)
    /\ requests' = Append(requests, Request("resize", AreaHeight(screenH)))
    /\ IF lastFrame = NoFrame
         THEN /\ renderer' = Reset(renderer)
              /\ host' = DrawBar(Cleared(host), bar, screenH')
         ELSE /\ renderer' = Rendered(lastFrame)
              /\ host' = DrawBar(Render(host, Reset(renderer), lastFrame), bar, screenH')
    /\ UNCHANGED <<winch, bar, lastFrame, wire, pending, actions, prefix, late, typed,
                   plain, outcome>>
CloseOverlay ==
    /\ overlay # "none"
    /\ overlay' = "none" /\ reading' = TRUE
    /\ screenH' = Len(host.rows)
    /\ appRows' = AreaHeight(screenH')
    /\ requests' = Append(requests, Request("resize", AreaHeight(screenH')))
    /\ IF lastFrame = NoFrame
         THEN /\ renderer' = Reset(renderer)
              /\ host' = DrawBar(Cleared(host), bar, screenH')
         ELSE /\ renderer' = Rendered(lastFrame)
              /\ host' = DrawBar(Render(host, Reset(renderer), lastFrame), bar, screenH')
    /\ UNCHANGED <<winch, bar, lastFrame, wire, pending, actions, prefix, late, typed,
                   plain, outcome>>

\* A session was chosen in the list, or there is a neighbour to switch to.
LeaveOverlay == /\ overlay = "list"
                /\ overlay' = "none"
                /\ EndsWith("SwitchTo")
                /\ UNCHANGED <<viewVars, wire, pending, requests, actions, prefix, late,
                               typed, plain>>

SwitchSession(found) ==
    /\ Acts("switch")
    /\ IF found THEN EndsWith("SwitchTo") ELSE reading' = TRUE /\ UNCHANGED outcome
    /\ UNCHANGED <<viewVars, wire, pending, requests, prefix, late, typed, plain, overlay>>
=============================================================================
