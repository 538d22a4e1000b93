----------------------------- MODULE DaemonState -----------------------------
(***************************************************************************)
(* The daemon's table of sessions (lib.rs, struct State) and the tasks that*)
(* work on it at once:                                                     *)
(*                                                                         *)
(*   - a task per connection, which handles one request after the other    *)
(*     (New, Kill, Rename, Stop; Attach, Input and Resize only look up);   *)
(*   - a cleanup task per session, which waits for its exit;               *)
(*   - the accept loop of run(), which closes everything once stopped.     *)
(*                                                                         *)
(* The live sessions and the tombstones of the exited ones are two maps    *)
(* with a mutex each, never held together: one action is one critical      *)
(* section.  Of a session itself (module Session) only its end matters     *)
(* here.  An id is given to one session: the counter is 64 bits wide and   *)
(* saturates, which no daemon lives to see.                                *)
(*                                                                         *)
(* A definition named Mistake... is a plausible wrong form of the one that *)
(* follows it; no action uses it, the runs must tell the two apart.        *)
(***************************************************************************)
EXTENDS Naturals

CONSTANTS Conns,   \* connections to the daemon
          MaxIds   \* bound: ids the daemon allocates

ASSUME DaemonAssumption == MaxIds \in Nat

Ids == 1 .. MaxIds
NoId == 0

VARIABLES
    \* State
    next,      \* next_session_id
    live,      \* keys of sessions
    tombs,     \* keys of exited_sessions
    stopping,  \* stop_tx was sent
    \* the sessions
    running,   \* spawned, with a child that has not exited
    closed,    \* close() was called
    announced, \* the exit waiter's send found a receiver, and stored the exit
    \* the tasks
    pc, id,    \* of each connection: where it is, with which session
    doomed,    \* the sessions a connection's kill_all() has still to close
    cleanup,   \* of each session: where its cleanup task is
    main,      \* the accept loop
    condemned, \* the sessions its kill_all() has still to close
    \* history
    dismissed  \* ids that a Kill or Stop has begun to deal with

tableVars   == <<next, live, tombs>>
sessionVars == <<running, closed, announced>>
connVars    == <<pc, id, doomed>>
mainVars    == <<main, condemned>>
vars == <<tableVars, stopping, sessionVars, connVars, cleanup, mainVars, dismissed>>

Init ==
    /\ next = 1 /\ live = {} /\ tombs = {}
    /\ stopping = FALSE
    /\ running = {} /\ closed = {} /\ announced = {}
    /\ pc = [c \in Conns |-> "idle"]
    /\ id = [c \in Conns |-> NoId]
    /\ doomed = [c \in Conns |-> {}]
    /\ cleanup = [i \in Ids |-> "none"]
    /\ main = "serve" /\ condemned = {}
    /\ dismissed = {}

\* A connection goes on; between requests it deals with no session ...
Goto(c, label) ==
    /\ pc' = [pc EXCEPT ![c] = label]
    /\ id' = IF label \in {"idle", "gone"} THEN [id EXCEPT ![c] = NoId] ELSE id

\* ... until it reads one.  The tasks end with the runtime, when run() returns.
Begin(c, i, label) ==
    /\ pc[c] = "idle"
    /\ main # "stopped"
    /\ pc' = [pc EXCEPT ![c] = label]
    /\ id' = [id EXCEPT ![c] = i]

-----------------------------------------------------------------------------
(* New.                                                                    *)

\* The counter moves past the id it gave.
MistakeReuse(i) == UNCHANGED next
MistakeAddId(i) == next' = next + i
Advance(i) == next' = i + 1

\* Ids that are live are skipped; the counter is ahead of them all.
Allocate(c) ==
    /\ \E i \in next .. MaxIds :
          /\ i \notin live /\ \A j \in next .. (i - 1) : j \in live
          /\ Begin(c, i, "spawn")
          /\ Advance(i)
    /\ UNCHANGED <<live, tombs, stopping, sessionVars, doomed, cleanup, mainVars,
                   dismissed>>

SpawnFails(c) ==
    /\ pc[c] = "spawn"
    /\ Goto(c, "idle")
    /\ UNCHANGED <<tableVars, stopping, sessionVars, doomed, cleanup, mainVars,
                   dismissed>>

Spawn(c) ==
    /\ pc[c] = "spawn"
    /\ running' = running \cup {id[c]}
    /\ Goto(c, "forget")
    /\ UNCHANGED <<tableVars, stopping, closed, announced, doomed, cleanup, mainVars,
                   dismissed>>

\* insert_session(): no tombstone of that id, then the session itself.
InsertForget(c) ==
    /\ pc[c] = "forget"
    /\ tombs' = tombs \ {id[c]}
    /\ Goto(c, "insert")
    /\ UNCHANGED <<next, live, stopping, sessionVars, doomed, cleanup, mainVars,
                   dismissed>>

InsertLive(c) ==
    /\ pc[c] = "insert"
    /\ live' = live \cup {id[c]}
    /\ Goto(c, "subscribe")
    /\ UNCHANGED <<next, tombs, stopping, sessionVars, doomed, cleanup, mainVars,
                   dismissed>>

\* The cleanup task gets the first receiver of exit_tx: the one the channel was
\* made with was dropped at once.
Subscribe(c) ==
    /\ pc[c] = "subscribe"
    /\ cleanup' = [cleanup EXCEPT ![id[c]] = "wait"]
    /\ Goto(c, "idle")
    /\ UNCHANGED <<tableVars, stopping, sessionVars, doomed, mainVars, dismissed>>

-----------------------------------------------------------------------------
(* Kill, Rename and the requests that only look a session up.              *)

\* get_session() finds it.
MistakeForgetToClose == "remove"
KillFound == "close"

KillLookup(c, i) ==
    /\ Begin(c, i, IF i \in live THEN KillFound ELSE "killExited")
    /\ dismissed' = IF i \in live THEN dismissed \cup {i} ELSE dismissed
    /\ UNCHANGED <<tableVars, stopping, sessionVars, doomed, cleanup, mainVars>>

\* close() of module Session: at its end the child is dead or dying.
KillClose(c) ==
    /\ pc[c] = "close"
    /\ closed' = closed \cup {id[c]}
    /\ Goto(c, "remove")
    /\ UNCHANGED <<tableVars, stopping, running, announced, doomed, cleanup, mainVars,
                   dismissed>>

\* get_exited_session() finds it, or the request fails.
KillExited(c) ==
    /\ pc[c] = "killExited"
    /\ Goto(c, IF id[c] \in tombs THEN "remove" ELSE "idle")
    /\ dismissed' = IF id[c] \in tombs THEN dismissed \cup {id[c]} ELSE dismissed
    /\ UNCHANGED <<tableVars, stopping, sessionVars, doomed, cleanup, mainVars>>

\* remove_session(), one map after the other.
RemoveLive(c) ==
    /\ pc[c] = "remove"
    /\ live' = live \ {id[c]}
    /\ Goto(c, "removeTomb")
    /\ UNCHANGED <<next, tombs, stopping, sessionVars, doomed, cleanup, mainVars,
                   dismissed>>

RemoveTomb(c) ==
    /\ pc[c] = "removeTomb"
    /\ tombs' = tombs \ {id[c]}
    /\ Goto(c, "idle")
    /\ UNCHANGED <<next, live, stopping, sessionVars, doomed, cleanup, mainVars,
                   dismissed>>

\* A live session is renamed in place.  A tombstone is copied, and the renamed
\* copy is put back, wherever the tombstone has gone meanwhile.
RenameLookup(c, i) ==
    /\ i \notin live
    /\ Begin(c, i, "renameExited")
    /\ UNCHANGED <<tableVars, stopping, sessionVars, doomed, cleanup, mainVars,
                   dismissed>>

RenameExited(c) ==
    /\ pc[c] = "renameExited"
    /\ Goto(c, IF id[c] \in tombs THEN "putBack" ELSE "idle")
    /\ UNCHANGED <<tableVars, stopping, sessionVars, doomed, cleanup, mainVars,
                   dismissed>>

RenamePutBack(c) ==
    /\ pc[c] = "putBack"
    /\ tombs' = tombs \cup {id[c]}
    /\ Goto(c, "idle")
    /\ UNCHANGED <<next, live, stopping, sessionVars, doomed, cleanup, mainVars,
                   dismissed>>

-----------------------------------------------------------------------------
(* Stop.                                                                   *)

\* kill_all() takes the map as it is, closes what was in it, and forgets the
\* tombstones.
StopTake(c) ==
    /\ Begin(c, NoId, "stop")
    /\ doomed' = [doomed EXCEPT ![c] = live]
    /\ live' = {}
    /\ dismissed' = dismissed \cup live
    /\ UNCHANGED <<next, tombs, stopping, sessionVars, cleanup, mainVars>>

StopClose(c, i) ==
    /\ pc[c] = "stop" /\ i \in doomed[c]
    /\ closed' = closed \cup {i}
    /\ doomed' = [doomed EXCEPT ![c] = @ \ {i}]
    /\ UNCHANGED <<tableVars, stopping, running, announced, pc, id, cleanup, mainVars,
                   dismissed>>

StopForget(c) ==
    /\ pc[c] = "stop" /\ doomed[c] = {}
    /\ tombs' = {}
    /\ Goto(c, "signal")
    /\ UNCHANGED <<next, live, stopping, sessionVars, doomed, cleanup, mainVars,
                   dismissed>>

\* The accept loop is told; the connection ends after its reply.
StopSignal(c) ==
    /\ pc[c] = "signal"
    /\ stopping' = TRUE
    /\ Goto(c, "gone")
    /\ UNCHANGED <<tableVars, sessionVars, doomed, cleanup, mainVars, dismissed>>

\* run() leaves its loop and does the same again.
MainTake ==
    /\ main = "serve" /\ stopping
    /\ condemned' = live
    /\ live' = {}
    /\ dismissed' = dismissed \cup live
    /\ main' = "close"
    /\ UNCHANGED <<next, tombs, stopping, sessionVars, connVars, cleanup>>

MainClose(i) ==
    /\ main = "close" /\ i \in condemned
    /\ closed' = closed \cup {i}
    /\ condemned' = condemned \ {i}
    /\ UNCHANGED <<tableVars, stopping, running, announced, connVars, cleanup, main,
                   dismissed>>

MainForget ==
    /\ main = "close" /\ condemned = {}
    /\ tombs' = {}
    /\ main' = "stopped"
    /\ UNCHANGED <<next, live, stopping, sessionVars, connVars, cleanup, condemned,
                   dismissed>>

-----------------------------------------------------------------------------
(* The end of a session, and its cleanup task.                             *)

\* The child exits by itself or was killed, and the exit waiter announces it.
\* A send without a receiver is refused, stores nothing and is not repeated.
Exits(i) ==
    /\ i \in running
    /\ running' = running \ {i}
    /\ announced' = IF cleanup[i] = "none" THEN announced ELSE announced \cup {i}
    /\ UNCHANGED <<tableVars, stopping, closed, connVars, cleanup, mainVars, dismissed>>

\* The task looks at the value, and else waits for a change of it.
ExitKnown(i) == i \in announced

CleanupWake(i) ==
    /\ cleanup[i] = "wait"
    /\ ExitKnown(i)
    /\ cleanup' = [cleanup EXCEPT ![i] = "take"]
    /\ UNCHANGED <<tableVars, stopping, sessionVars, connVars, mainVars, dismissed>>

\* Whoever takes the session out of the map first deals with it.
MistakeCopy(i) == UNCHANGED live
TakeOut(i) == live' = live \ {i}

CleanupTake(i) ==
    /\ cleanup[i] = "take"
    /\ TakeOut(i)
    /\ cleanup' = [cleanup EXCEPT ![i] = IF i \in live THEN "bury" ELSE "done"]
    /\ UNCHANGED <<next, tombs, stopping, sessionVars, connVars, mainVars, dismissed>>

MistakeNoTombstone(i) == UNCHANGED tombs
Bury(i) == tombs' = tombs \cup {i}

CleanupBury(i) ==
    /\ cleanup[i] = "bury"
    /\ Bury(i)
    /\ cleanup' = [cleanup EXCEPT ![i] = "done"]
    /\ UNCHANGED <<next, live, stopping, sessionVars, connVars, mainVars, dismissed>>

-----------------------------------------------------------------------------
\* A request in hand, up to its reply.
Proceed(c) == \/ SpawnFails(c) \/ Spawn(c) \/ InsertForget(c) \/ InsertLive(c)
              \/ Subscribe(c)
              \/ KillClose(c) \/ KillExited(c) \/ RemoveLive(c) \/ RemoveTomb(c)
              \/ RenameExited(c) \/ RenamePutBack(c)
              \/ \E i \in Ids : StopClose(c, i)
              \/ StopForget(c) \/ StopSignal(c)

Request(c) == \/ Allocate(c)
              \/ \E i \in Ids : KillLookup(c, i) \/ RenameLookup(c, i)
              \/ StopTake(c)

Main == MainTake \/ (\E i \in Ids : MainClose(i)) \/ MainForget

Cleanup(i) == CleanupWake(i) \/ CleanupTake(i) \/ CleanupBury(i)

Next == \/ \E c \in Conns : Request(c) \/ Proceed(c)
        \/ \E i \in Ids : Exits(i) \/ Cleanup(i)
        \/ Main
        \/ main = "stopped" /\ UNCHANGED vars

Spec == Init /\ [][Next]_vars

\* The runtime runs every task that can go on, until run() returns: a task that
\* awaits something is dropped then.  Nobody has to send requests, and a child
\* only has to exit when its session is closed.
Fairness == /\ \A c \in Conns : WF_vars(Proceed(c))
            /\ \A i \in Ids : /\ WF_vars(main # "stopped" /\ CleanupWake(i))
                              /\ WF_vars(CleanupTake(i) \/ CleanupBury(i))
                              /\ WF_vars(i \in closed /\ Exits(i))
            /\ WF_vars(Main)

FairSpec == Spec /\ Fairness

-----------------------------------------------------------------------------
(* Properties.                                                             *)

Labels == {"idle", "spawn", "forget", "insert", "subscribe", "close", "killExited",
           "remove", "removeTomb", "renameExited", "putBack", "stop", "signal", "gone"}

TypeOK ==
    /\ next \in 1 .. (MaxIds + 1)
    /\ live \in SUBSET Ids /\ tombs \in SUBSET Ids
    /\ stopping \in BOOLEAN
    /\ running \in SUBSET Ids /\ closed \in SUBSET Ids /\ announced \in SUBSET Ids
    /\ pc \in [Conns -> Labels]
    /\ id \in [Conns -> Ids \cup {NoId}]
    /\ doomed \in [Conns -> SUBSET Ids]
    /\ cleanup \in [Ids -> {"none", "wait", "take", "bury", "done"}]
    /\ main \in {"serve", "close", "stopped"}
    /\ condemned \in SUBSET Ids
    /\ dismissed \in SUBSET Ids

\* The sessions a New has spawned and is about to put into the map.
Unborn == {id[c] : c \in {d \in Conns : pc[d] \in {"forget", "insert"}}}

\* The sessions a Stop, or run(), has taken out of the map to close them.
Doomed == condemned \cup UNION {doomed[c] : c \in Conns}

\* An id is not in both maps, in whatever order a New, a Kill, a Rename of a
\* tombstone and the cleanup task write to them: Attach would prefer the live
\* session, a Kill would remove both, and the list would show only one.
OneRecord == live \cap tombs = {}

\* No session runs out of everybody's reach: as long as its child runs and it
\* was not closed, it is in the map, or a task holds it that will put it there
\* or close it.
NoOrphan == running \ closed \subseteq live \cup Unborn \cup Doomed

\* Two sessions never share an id, also when they are created at the same time.
IdsAreFresh ==
    \A c, d \in Conns : LET new == {"spawn", "forget", "insert", "subscribe"} IN
        /\ c # d /\ pc[c] \in new /\ pc[d] \in new => id[c] # id[d]
        /\ pc[c] \in {"spawn", "forget", "insert"} =>
               id[c] \notin live \cup tombs /\ cleanup[id[c]] = "none"

\* A session whose exit was announced to its cleanup task leaves the list, in
\* whatever order the task, a Kill and a Stop get at it, and whoever asks for it
\* then is told that it exited, unless it was killed or stopped by hand.  (The code
\* does not keep this of every exit: a child that has exited before insert_session()
\* subscribes is announced to nobody, and its session stays in the list.)
ExitedIsRemembered ==
    \A i \in Ids :
        i \in live \cap announced
            ~> \/ i \notin live /\ i \in tombs \cup dismissed
               \/ main = "stopped"

=============================================================================
