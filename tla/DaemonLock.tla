----------------------------- MODULE DaemonLock -----------------------------
(***************************************************************************)
(* One daemon per user on Unix (lib.rs, run() and DaemonLockGuard): the    *)
(* lock directory with its pid file, the socket's path, the daemons that   *)
(* start, serve, stop or crash, and the clients that start one when none   *)
(* answers (main.rs, ensure_and_connect()).  A system call is one step.    *)
(*                                                                         *)
(* A crashed daemon leaves directory and socket file behind; whatever was  *)
(* bound to the path, remove_file() removes the path only.                 *)
(*                                                                         *)
(* A definition named Mistake... is a plausible wrong form of the one that *)
(* follows it; no action uses it, the runs must tell the two apart.        *)
(***************************************************************************)
EXTENDS Naturals, FiniteSets

CONSTANTS Daemons,   \* bound: the processes that may be started
          Clients,
          MaxFaults, \* bound: crashes and stops
          Nobody

ASSUME DaemonLockAssumption == Nobody \notin Daemons /\ MaxFaults \in Nat

VARIABLES
    lock,     \* the directory: "none", "empty", or "pid" with the pid file
    sock,     \* the daemon that bound the socket's path, or Nobody: no such file
    dpc,      \* where each daemon is
    cpc,      \* where each client is: "idle", "spawn", "waits" or "failed"
    faults,   \* crashes and stops so far
    raced,    \* history: two daemons were starting or ending at the same time
    excused   \* history: the clients that waited while a daemon crashed, stopped or ended

lockVars == <<lock, sock, dpc, cpc, faults, raced, excused>>

Starting(d) == dpc[d] \in {"acquire", "held", "reclaim", "create", "pid", "unlink", "bind"}
Ending(d) == dpc[d] \in {"stopping", "failing", "unlock"}
Listening(d) == dpc[d] \in {"serving", "stopping"}

\* A connect() to the socket's path succeeds.
Answers == sock # Nobody /\ Listening(sock)

LockInit ==
    /\ lock = "none" /\ sock = Nobody
    /\ dpc = [d \in Daemons |-> "unborn"]
    /\ cpc = [c \in Clients |-> "idle"]
    /\ faults = 0 /\ raced = FALSE /\ excused = {}

\* Daemon d goes on to pc.
Goes(d, pc) ==
    /\ dpc' = [dpc EXCEPT ![d] = pc]
    /\ raced' = (raced \/ \E e \in Daemons \ {d} :
                    (Starting(e) \/ Ending(e)) /\ (Starting(d) \/ Ending(d))')
Daemon(d, from, to) == dpc[d] = from /\ Goes(d, to) /\ UNCHANGED <<cpc, faults, excused>>

-----------------------------------------------------------------------------
(* DaemonLockGuard::acquire()                                              *)

CreateLock(d) ==
    /\ IF lock = "none" THEN lock' = "empty" /\ Daemon(d, "acquire", "pid")
                        ELSE UNCHANGED lock /\ Daemon(d, "acquire", "held")
    /\ UNCHANGED sock

\* The lock is held: it is stale unless the socket is there and answers.
MistakeStaleFile == sock = Nobody
MistakeStaleAlways == TRUE
Stale == ~Answers

CheckStale(d) ==
    /\ Daemon(d, "held", IF Stale THEN "reclaim" ELSE "failed")
    /\ UNCHANGED <<lock, sock>>

RemoveStale(d) ==
    /\ Daemon(d, "reclaim", "create")
    /\ lock' = "none" /\ UNCHANGED sock

CreateAgain(d) ==
    /\ IF lock = "none" THEN lock' = "empty" /\ Daemon(d, "create", "pid")
                        ELSE UNCHANGED lock /\ Daemon(d, "create", "failed")
    /\ UNCHANGED sock

\* The result of the write is ignored.
WritePid(d) ==
    /\ Daemon(d, "pid", "unlink")
    /\ lock' = IF lock = "none" THEN "none" ELSE "pid"
    /\ UNCHANGED sock

(* run()                                                                   *)

RemoveSocket(d) ==
    /\ Daemon(d, "unlink", "bind")
    /\ sock' = Nobody /\ UNCHANGED lock

Bind(d) ==
    /\ IF sock = Nobody THEN sock' = d /\ Daemon(d, "bind", "serving")
                        ELSE UNCHANGED sock /\ Daemon(d, "bind", "failing")
    /\ UNCHANGED lock

\* The accept loop has ended: the socket's path goes, with whoever bound it.
StopListening(d) ==
    /\ Daemon(d, "stopping", "unlock")
    /\ sock' = Nobody /\ UNCHANGED lock

\* The guard is dropped: remove_dir() fails when the pid file is there.
DropLock(d) ==
    /\ Daemon(d, "unlock", "dead") \/ Daemon(d, "failing", "failed")
    /\ lock' = IF lock = "empty" THEN "none" ELSE lock
    /\ UNCHANGED sock

-----------------------------------------------------------------------------
(* Crashes, and Stop requests, which reach only who answers.               *)

Waiting == {c \in Clients : cpc[c] \in {"spawn", "waits"}}

Fault(d, pc) == /\ faults < MaxFaults
                /\ faults' = faults + 1
                /\ Goes(d, pc)
                /\ excused' = excused \cup Waiting
                /\ UNCHANGED <<lock, sock, cpc>>

Crash(d) == (Starting(d) \/ Ending(d) \/ Listening(d)) /\ Fault(d, "dead")
Stop(d) == dpc[d] = "serving" /\ sock = d /\ Fault(d, "stopping")

-----------------------------------------------------------------------------
(* ensure_and_connect()                                                    *)

Client(c, from, to) == cpc[c] = from /\ cpc' = [cpc EXCEPT ![c] = to]

Connect(c) ==
    /\ ~Answers
    /\ Client(c, "idle", "spawn")
    /\ excused' = IF \E d \in Daemons : Ending(d) THEN excused \cup {c} ELSE excused \ {c}
    /\ UNCHANGED <<lock, sock, dpc, faults, raced>>

SpawnDaemon(c) ==
    /\ Client(c, "spawn", "waits")
    /\ \E d \in Daemons : dpc[d] = "unborn" /\ Goes(d, "acquire")
    /\ UNCHANGED <<lock, sock, faults, excused>>

\* It tries every 100 ms ...
Reach(c) ==
    /\ Answers
    /\ Client(c, "waits", "idle")
    /\ UNCHANGED <<lock, sock, dpc, faults, raced, excused>>

\* ... for 5 s, in which a daemon that is starting gets ready.
GiveUp(c) ==
    /\ ~Answers /\ \A d \in Daemons : ~Starting(d)
    /\ Client(c, "waits", "failed")
    /\ UNCHANGED <<lock, sock, dpc, faults, raced, excused>>

-----------------------------------------------------------------------------

LockNext ==
    \/ \E d \in Daemons :
         \/ CreateLock(d) \/ CheckStale(d) \/ RemoveStale(d) \/ CreateAgain(d)
         \/ WritePid(d) \/ RemoveSocket(d) \/ Bind(d) \/ StopListening(d)
         \/ DropLock(d) \/ Crash(d) \/ Stop(d)
    \/ \E c \in Clients : Connect(c) \/ SpawnDaemon(c) \/ Reach(c) \/ GiveUp(c)

LockSpec == LockInit /\ [][LockNext]_lockVars

-----------------------------------------------------------------------------
(* What holds.                                                             *)

Serving == {d \in Daemons : dpc[d] = "serving"}

\* Wherever a daemon crashed, what it left behind keeps no other from serving:
\* a client waits in vain only if a daemon crashed, stopped or was still ending
\* meanwhile, even when several clients start daemons at the same time.
RemainsAreCleared == \A c \in Clients : cpc[c] = "failed" => c \in excused

\* There is one daemon, it answers at the socket's path and holds the lock, even
\* if a client that saw none starts another: unless two daemons were starting or
\* ending at the same time, as the lock of one that has no socket yet, or no
\* longer, counts as stale.
OneInstance ==
    raced \/ \A d \in Serving : Serving = {d} /\ sock = d /\ lock = "pid"
=============================================================================
