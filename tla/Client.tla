------------------------------- MODULE Client -------------------------------
(***************************************************************************)
(* The client program qscn (main.rs) as it moves between sessions: the     *)
(* commands that attach, attach_session_loop() with its recoveries, what   *)
(* run_attach_loop() ends with, and the session list overlay.  What an     *)
(* attachment shows and sends is module AttachLoop.                        *)
(*                                                                         *)
(* The daemon appears as what a client's requests see of it: is it up, and *)
(* the standing of each id (DaemonState has the details).  Other clients   *)
(* and the children of the sessions change it between any two requests.    *)
(* A request of this client is one step, except to attach, which the daemon*)
(* first checks and then carries out; a request starts a daemon when none  *)
(* answers (ensure_and_connect), and it may fail or time out.              *)
(*                                                                         *)
(* A definition named Mistake... is a plausible wrong form of the one that *)
(* follows it; no action uses it, the runs must tell the two apart.        *)
(***************************************************************************)
EXTENDS Naturals, Sequences, FiniteSets, FiniteSetsExt

CONSTANTS MaxIds,   \* bound: ids one daemon allocates
          Commands  \* how qscn is called: "smart", "new", "given", "default"

ASSUME ClientAssumption ==
    MaxIds \in Nat \ {0} /\ Commands \subseteq {"smart", "new", "given", "default"}

Ids == 1 .. MaxIds
NoId == 0

VARIABLES
    \* the daemon
    up,          \* it answers
    st,          \* standing of each id: "none" (not given yet), "live",
                 \* "exited" (still listed), "past" (a tombstone), "gone"
    \* attach_session_loop()
    pc, session, previous, reattaching,
    chosen, skip, \* cmd_attach_default(): session_id, and skip
    \* the attachment
    link,        \* "none"; "entering" (the daemon has found the session alive),
                 \* "late" (... and it has ended since), "lost" (... the daemon);
                 \* "up", "over" (the stream tells, or ends), "torn" (the stream
                 \* is unusable), "mute" (it will not tell: attached too late)
    asked,       \* the action the input reader ended with
    reading,     \* the attachment's input reader runs
    \* the session list
    rows, selected, target,
    \* history
    restarted,   \* another client stopped a daemon
    seen,        \* the live sessions of the client's last listing
    told,        \* the sessions of which the client last heard that they ended
    retried      \* recovering has led to the session to fall back to

daemonVars  == <<up, st>>
loopVars    == <<session, previous, reattaching, retried>>
commandVars == <<restarted, chosen, skip>>
inputVars   == <<asked, reading>>
listVars    == <<rows, selected, target>>
vars == <<daemonVars, pc, loopVars, commandVars, link, inputVars, listVars,
          seen, told>>

Live == {i \in Ids : st[i] = "live"}
Listed == {i \in Ids : st[i] \in {"live", "exited"}}
NewSession(i) == st' = [st EXCEPT ![i] = "live"]
Fresh == {i \in Ids : st[i] = "none" /\ \A j \in 1 .. (i - 1) : st[j] # "none"}

-----------------------------------------------------------------------------
(* Choosing a session from a listing.                                      *)

\* highest_remaining_session_id() and highest_live_session_id_excluding().
MistakeExcludeLate(live, excluded) ==
    IF live = {} THEN NoId ELSE IF Max(live) \in excluded THEN NoId ELSE Max(live)
HighestExcluding(live, excluded) ==
    IF live \ excluded = {} THEN NoId ELSE Max(live \ excluded)

\* sort_by_key(): the ids of a listing by their rank.
Rank(ids, i) == Cardinality({j \in ids : j <= i})
InOrder(ids) == [k \in 1 .. Cardinality(ids) |-> CHOOSE i \in ids : Rank(ids, i) = k]

\* adjacent_session_id(): the live sessions by id, as a ring.
Adjacent(live, current, dir) ==
    LET ring == InOrder(live)
        at == CHOOSE k \in 1 .. Len(ring) : ring[k] = current
    IN  IF current \notin live \/ Len(ring) < 2 THEN NoId
        ELSE IF dir = "next" THEN ring[(at % Len(ring)) + 1]
             ELSE ring[((at + Len(ring) - 2) % Len(ring)) + 1]

\* build_session_list_rows(): every listed session, by id.
Rows == LET ids == InOrder(Listed)
        IN  [k \in 1 .. Len(ids) |-> [id |-> ids[k], exited |-> st[ids[k]] = "exited"]]

\* Rows are counted from 0; of an empty list the selection is 0.
MistakeClamped(k, rs) == k
Clamped(k, rs) == IF k < Len(rs) THEN k ELSE IF rs = <<>> THEN 0 ELSE Len(rs) - 1

RowOf(id, rs, otherwise) ==
    IF \E k \in 1 .. Len(rs) : rs[k].id = id
    THEN (CHOOSE k \in 1 .. Len(rs) : rs[k].id = id) - 1
    ELSE otherwise

-----------------------------------------------------------------------------
(* Requests.                                                               *)

EnsureAndConnect == up' = TRUE

ListSessions == EnsureAndConnect /\ UNCHANGED st /\ seen' = Live /\ told' = told \ Live

\* An error, or a timeout where there is one: a daemon may have been started.
RequestFails == up' \in {up, TRUE} /\ UNCHANGED <<st, seen>>

\* The end of a session is told to those attached to it: not to a client that
\* is about to be.
MistakeCut(S) == UNCHANGED link
Cut(S) == link' = CASE session \in S /\ link = "up" -> "over"
                    [] session \in S /\ link = "entering" -> "late"
                    [] OTHER -> link

\* With the daemon, every stream ends.
HangUp == link' = CASE link \in {"up", "mute"} -> "over"
                    [] link \in {"entering", "late"} -> "lost"
                    [] OTHER -> link

\* Everything ends with the daemon, and the next one counts from 1 again.
Stopped == up' = FALSE /\ st' = [i \in Ids |-> "none"] /\ seen' = {}

-----------------------------------------------------------------------------
(* The commands.                                                           *)

Init ==
    /\ up = FALSE /\ st = [i \in Ids |-> "none"]
    /\ pc \in Commands /\ chosen = NoId /\ skip = {}
    /\ session = NoId /\ previous = NoId /\ reattaching = FALSE
    /\ link = "none" /\ asked = "no" /\ reading = FALSE
    /\ rows = <<>> /\ selected = 0 /\ target = NoId
    /\ seen = {} /\ told = {} /\ restarted = FALSE /\ retried = FALSE

ToAttach(i) == pc' = "attach" /\ session' = i

\* cmd_default(): attach to the only session, create the first, or print.
Smart ==
    /\ pc = "smart"
    /\ ListSessions
    /\ IF Cardinality(Listed) = 1 THEN ToAttach(Max(Listed))
       ELSE pc' = (IF Listed = {} THEN "new" ELSE "done") /\ UNCHANGED session
    /\ UNCHANGED <<previous, reattaching, retried, commandVars, link, inputVars, listVars>>

\* cmd_new_and_attach(), create_session_with_options().
Create ==
    /\ pc = "new"
    /\ EnsureAndConnect
    /\ \E i \in Fresh : NewSession(i) /\ ToAttach(i) /\ told' = told \ {i}
    /\ UNCHANGED <<previous, reattaching, retried, commandVars, link, inputVars,
                   listVars, seen>>

\* cmd_attach(): whatever id the user gave.
AttachGiven ==
    /\ pc = "given"
    /\ \E i \in Ids : ToAttach(i)
    /\ UNCHANGED <<daemonVars, previous, reattaching, retried, commandVars, link,
                   inputVars, listVars, seen, told>>

\* cmd_attach_default(): the highest live session that was not tried in vain.
AttachDefault ==
    /\ pc = "default"
    /\ ListSessions
    /\ chosen' = HighestExcluding(Live, skip)
    /\ IF chosen' = NoId THEN pc' = "failed" /\ UNCHANGED session ELSE ToAttach(chosen')
    /\ previous' = NoId /\ reattaching' = FALSE /\ retried' = FALSE
    /\ UNCHANGED <<restarted, skip, link, inputVars, listVars>>

\* An error of any request that main() reports: the program ends.
RequestFatal ==
    /\ pc \in {"smart", "default", "new", "attach", "after", "shutdown", "open", "renamed", "killed",
              "list"}
    /\ RequestFails
    /\ pc' = "failed" /\ link' = "none"
    /\ UNCHANGED <<loopVars, commandVars, inputVars, listVars, told>>

-----------------------------------------------------------------------------
(* attach_session_loop().                                                  *)

\* attach_session_once(), and Session::attach(): neither exited nor closed ...
AttachChecked ==
    /\ pc = "attach" /\ link = "none" /\ st[session] = "live"
    /\ EnsureAndConnect
    /\ link' = "entering"
    /\ UNCHANGED <<st, pc, loopVars, commandVars, inputVars, listVars, seen, told>>

\* ... and later, under the session's lock but without another look, the client
\* enters its map, and the handshake succeeds.  If the session has ended since, the
\* map was drained, and will not be again.  recv_msg() may have read ahead into
\* the first frame and dropped what it read: the stream is torn.
Attach ==
    /\ pc = "attach" /\ link \in {"entering", "late"}
    /\ pc' = "loop"
    /\ link' \in {"torn", IF link = "entering" THEN "up" ELSE "mute"}
    /\ asked' = "no" /\ reading' = TRUE
    /\ told' = told \ {session}
    /\ UNCHANGED <<daemonVars, loopVars, commandVars, listVars, seen>>

\* The error is the caller's: cmd_attach_default() takes it for a race with the
\* session it chose, even when the attachment that failed was a later one.
Report ==
    IF chosen # NoId THEN pc' = "default" /\ skip' = skip \cup {chosen}
    ELSE pc' = "failed" /\ UNCHANGED skip

\* SessionUnavailable, as the session was not there, or was killed before the
\* attach resized it: recover after a switch, else report it or, in
\* cmd_attach_default(), try another.
Unavailable ==
    /\ pc = "attach"
    /\ \/ link = "none" /\ st[session] # "live"
       \/ link = "late" /\ st[session] = "gone"
    /\ EnsureAndConnect
    /\ told' = told \cup {session} /\ link' = "none"
    /\ IF reattaching THEN pc' = "recover" /\ UNCHANGED skip ELSE Report
    /\ UNCHANGED <<st, loopVars, restarted, chosen, inputVars, listVars, seen>>

\* The switch's target is not there: the listing finds another, or none.
Recover ==
    /\ pc = "recover"
    /\ ListSessions
    /\ LET i == HighestExcluding(Live, {session})
       IN  /\ IF i = NoId THEN pc' = "shutdown" /\ UNCHANGED session ELSE ToAttach(i)
           /\ retried' = (retried \/ i = previous)
    /\ UNCHANGED <<previous, reattaching, commandVars, link, inputVars, listVars>>

\* The listing fails: back to the session it came from, but only once.
MistakeTakePrevious == UNCHANGED previous
TakePrevious == previous' = NoId

FallBack ==
    /\ pc = "recover" /\ previous # NoId
    /\ RequestFails
    /\ ToAttach(previous) /\ TakePrevious
    /\ UNCHANGED <<reattaching, retried, commandVars, link, inputVars, listVars, told>>

GiveUp ==
    /\ pc = "recover" /\ previous = NoId
    /\ RequestFails
    /\ Report
    /\ UNCHANGED <<loopVars, restarted, chosen, link, inputVars, listVars, told>>

\* The attachment is left for session i.
Leave(i) ==
    /\ ToAttach(i)
    /\ reattaching' = TRUE /\ retried' = FALSE
    /\ link' = "none" /\ asked' = "no"
    /\ rows' = <<>> /\ selected' = 0 /\ target' = NoId

MistakeSwitchToFresh(i) == Leave(i) /\ previous' = session
SwitchTo(i) == Leave(i) /\ previous' = session
SwitchToFresh(i) == Leave(i) /\ previous' = NoId

\* AttachOutcome::Ended: next_session_after_exit().
NextAfterExit ==
    /\ pc = "after"
    /\ ListSessions
    /\ LET i == HighestExcluding(Live, {session})
       IN  IF i = NoId
           THEN /\ pc' = "shutdown"
                /\ UNCHANGED <<loopVars, link, asked, listVars>>
           ELSE Leave(i) /\ previous' = NoId
    /\ UNCHANGED <<commandVars, reading>>

\* cmd_shutdown(): a daemon that does not answer needs none.
Shutdown ==
    /\ pc = "shutdown"
    /\ pc' = "done"
    /\ IF up THEN Stopped ELSE UNCHANGED <<daemonVars, seen>>
    /\ UNCHANGED <<loopVars, commandVars, link, inputVars, listVars, told>>

-----------------------------------------------------------------------------
(* run_attach_loop(): its ends, the overlays it opens, its input reader.   *)

\* The reader's last key; it returns after it.
UserAsks ==
    /\ pc = "loop" /\ reading
    /\ reading' = FALSE
    /\ asked' \in {"detach", "list", "help", "next", "prev"}
    /\ UNCHANGED <<daemonVars, pc, loopVars, commandVars, link, listVars, seen,
                   told>>

\* The stream says or looks as if the session ended, or a request (a resize
\* beyond the daemon's limits) was refused: stop_input is set, not awaited.
Ended ==
    /\ pc = "loop"
    /\ pc' = "after"
    /\ reading' = FALSE /\ asked' = "no"
    /\ link' = "none"
    /\ told' = IF link = "over" THEN told \cup {session} ELSE told
    /\ UNCHANGED <<daemonVars, loopVars, commandVars, listVars, seen>>

Detach ==
    /\ pc = "loop" /\ asked = "detach"
    /\ pc' = "done" /\ asked' = "no" /\ link' = "none"
    /\ UNCHANGED <<daemonVars, loopVars, commandVars, reading, listVars, seen,
                   told>>

\* The reader has returned after its last key, and is awaited.
OpenOverlay ==
    /\ pc = "loop" /\ asked \in {"list", "help", "next", "prev"}
    /\ pc' = CASE asked = "list" -> "open" [] asked = "help" -> "help"
               [] OTHER -> "neighbour"
    /\ UNCHANGED <<daemonVars, loopVars, commandVars, link, asked, reading, listVars,
                   seen, told>>

\* Back in the attach loop with a new input reader.
Resume ==
    /\ pc' = "loop" /\ reading' = TRUE /\ asked' = "no"
    /\ rows' = <<>> /\ selected' = 0 /\ target' = NoId
    /\ UNCHANGED <<loopVars, link>>

CloseHelp ==
    /\ pc = "help"
    /\ Resume
    /\ UNCHANGED <<daemonVars, commandVars, seen, told>>

\* <prefix> n, <prefix> p.
Neighbour ==
    /\ pc = "neighbour"
    /\ ListSessions
    /\ LET i == Adjacent(Live, session, asked)
       IN  IF i = NoId THEN Resume ELSE SwitchTo(i) /\ UNCHANGED reading
    /\ UNCHANGED commandVars

NeighbourFails ==
    /\ pc = "neighbour"
    /\ RequestFails
    /\ Resume
    /\ UNCHANGED <<commandVars, told>>

-----------------------------------------------------------------------------
(* run_session_list_mode().                                                *)

inList == <<loopVars, commandVars, link, inputVars>>

OpenList ==
    /\ pc = "open"
    /\ ListSessions
    /\ pc' = "list"
    /\ rows' = Rows /\ selected' = RowOf(session, Rows, 0)
    /\ UNCHANGED <<inList, target>>

Move ==
    /\ pc = "list"
    /\ \/ (selected > 0 /\ selected' = selected - 1)
       \/ selected' = Clamped(selected + 1, rows)
    /\ UNCHANGED <<daemonVars, pc, inList, told, rows, target, seen>>

CloseList ==
    /\ pc = "list"
    /\ Resume
    /\ UNCHANGED <<daemonVars, commandVars, seen, told>>

CreateInList ==
    /\ pc = "list"
    /\ EnsureAndConnect
    /\ \E i \in Fresh : NewSession(i) /\ SwitchTo(i) /\ told' = told \ {i}
    /\ UNCHANGED <<commandVars, reading, seen>>

\* The row is copied before the prompt: the answer is about it.
Prompt(what) ==
    /\ pc = "list" /\ rows # <<>>
    /\ what = "rename" => ~rows[Clamped(selected, rows) + 1].exited
    /\ selected' = Clamped(selected, rows)
    /\ target' = rows[Clamped(selected, rows) + 1].id
    /\ pc' = what
    /\ UNCHANGED <<daemonVars, inList, told, rows, seen>>

\* Anything but the confirmation, or the daemon does not know the session.
Decline ==
    /\ pc \in {"rename", "kill"}
    /\ pc' = "list" /\ target' = NoId
    /\ up' \in {up, TRUE}
    /\ UNCHANGED <<st, inList, told, rows, selected, seen>>

Rename ==
    /\ pc = "rename" /\ st[target] \in {"live", "exited", "past"}
    /\ EnsureAndConnect
    /\ pc' = "renamed"
    /\ UNCHANGED <<st, inList, told, listVars, seen>>

ListRenamed ==
    /\ pc = "renamed"
    /\ ListSessions
    /\ rows' = Rows /\ selected' = RowOf(target, Rows, Clamped(selected, Rows))
    /\ pc' = "list" /\ target' = NoId
    /\ UNCHANGED inList

Kill ==
    /\ pc = "kill" /\ st[target] \in {"live", "exited", "past"}
    /\ EnsureAndConnect
    /\ st' = [st EXCEPT ![target] = "gone"]
    /\ Cut({target})
    /\ told' = told \cup {target}
    /\ pc' = "killed"
    /\ UNCHANGED <<loopVars, commandVars, inputVars, listVars, seen>>

\* None left, or none left that is alive and the current one was killed: quit.
Quit == pc' = "shutdown" /\ rows' = <<>> /\ selected' = 0
        /\ target' = NoId /\ link' = "none" /\ UNCHANGED <<loopVars, asked>>

ListKilled ==
    /\ pc = "killed"
    /\ ListSessions
    /\ LET next == HighestExcluding(Live, {target})
       IN  \/ /\ Rows = <<>>
              /\ Quit
           \/ /\ Rows # <<>> /\ target = session
              /\ IF next = NoId THEN Quit ELSE SwitchToFresh(next)
           \/ /\ Rows # <<>> /\ target # session
              /\ pc' = "list" /\ rows' = Rows /\ selected' = Clamped(selected, Rows)
              /\ target' = NoId
              /\ UNCHANGED <<loopVars, link, asked>>
    /\ UNCHANGED <<commandVars, reading>>

\* Enter: the list is read again, and the row at the same place is meant.
Select ==
    /\ pc = "list" /\ rows # <<>>
    /\ ListSessions
    /\ LET k == Clamped(selected, Rows)
           row == Rows[k + 1]
           stay == pc' = "list" /\ rows' = Rows /\ selected' = k
                   /\ UNCHANGED <<loopVars, link, asked, reading, target>>
       IN  IF Rows = <<>> THEN stay
           ELSE IF row.id = session THEN Resume
           ELSE IF row.exited THEN stay
           ELSE SwitchTo(row.id) /\ UNCHANGED reading
    /\ UNCHANGED commandVars

-----------------------------------------------------------------------------
(* The others: other clients, the children.                                *)

others == <<pc, loopVars, chosen, skip, inputVars, listVars, told>>

OtherNew ==
    /\ up' = TRUE
    /\ \E i \in Fresh : NewSession(i)
    /\ UNCHANGED <<others, restarted, link, seen>>

OtherKill ==
    /\ \E i \in Listed : st' = [st EXCEPT ![i] = "gone"] /\ Cut({i})
    /\ UNCHANGED <<others, restarted, up, seen>>

OtherStop ==
    /\ up
    /\ Stopped /\ HangUp
    /\ restarted' = TRUE
    /\ UNCHANGED others

ChildExits ==
    /\ \E i \in Live : st' = [st EXCEPT ![i] = "exited"] /\ Cut({i})
    /\ UNCHANGED <<others, restarted, up, seen>>

Retired ==
    /\ \E i \in Ids : st[i] = "exited" /\ st' = [st EXCEPT ![i] = "past"]
    /\ UNCHANGED <<others, restarted, up, link, seen>>

-----------------------------------------------------------------------------
ClientStep ==
    \/ Smart \/ Create \/ AttachGiven \/ AttachDefault \/ RequestFatal
    \/ AttachChecked \/ Attach \/ Unavailable \/ Recover \/ FallBack \/ GiveUp \/ NextAfterExit
    \/ Shutdown \/ Detach \/ OpenOverlay \/ Neighbour \/ NeighbourFails
    \/ OpenList \/ ListRenamed \/ ListKilled

User ==
    \/ UserAsks \/ CloseHelp \/ Move \/ CloseList \/ CreateInList
    \/ Prompt("rename") \/ Prompt("kill") \/ Decline \/ Rename \/ Kill \/ Select

Others == OtherNew \/ OtherKill \/ OtherStop \/ ChildExits \/ Retired

Next == ClientStep \/ Ended \/ User \/ Others

Spec == Init /\ [][Next]_vars

\* The client goes on by itself, and acts on what its stream tells; the user and
\* the others need not do anything.
FairSpec == Spec /\ WF_vars(ClientStep) /\ WF_vars(link \in {"over", "torn"} /\ Ended)

-----------------------------------------------------------------------------
(* Properties.                                                             *)

\* When the client shuts the daemon down, it does not take sessions with it that
\* its last listing showed, except the one it takes for ended: the highest live
\* session is found in every listing, from the loop as from the overlay.
StopIsJustified ==
    [][Shutdown /\ up => (seen \cap Live) \subseteq {session}]_vars

\* The client never turns to a session that it knows to have ended: neither as a
\* neighbour or a row, nor as the session to fall back to after a switch that
\* failed, however the sessions before were left.  There is one exception: it may
\* fall back to the session it came from when an earlier recovery has already led
\* it there in vain, as that does not take previous.  (And if another client
\* stopped a daemon, the next one gives the same ids anew.)
NoReturnToTheDead ==
    [][pc # "attach" /\ pc' = "attach" /\ session' \in told' =>
           (session' = previous /\ retried) \/ restarted]_vars

\* The selected row exists whenever there are rows: rows[selected] does not
\* panic, whatever disappeared between two listings.
SelectedIsARow == rows # <<>> => selected < Len(rows)

\* Looking for another session comes to an end, even if every listing fails from
\* now on and other clients end each session found: the client attaches, or it
\* leaves.  (Unless they stop one daemon after the other.)
SearchEnds ==
    <>[]up =>
        (pc \in {"recover", "after", "neighbour"} ~> pc \in {"loop", "done", "failed"})

\* "If no live sessions remain, it shuts down the daemon and exits" (README.md):
\* a client that is told of the end of its session does not stay, nor go round
\* between dead ones, once the user has no overlay open and asks for nothing.
\* (The code does not keep this of a client that enters the session's map after the
\* session's end was told: nobody tells that one, and it stays.)
LastOneLeaves ==
    <>[](Live = {} /\ asked = "no" /\ link # "mute") => <>(pc \in {"done", "failed"})

=============================================================================
