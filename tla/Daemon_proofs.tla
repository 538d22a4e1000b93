---------------------------- MODULE Daemon_proofs ----------------------------
(***************************************************************************)
(* Proofs about the daemon's table of sessions, for every number of        *)
(* connections and of ids; and below about its start (the module           *)
(* DaemonLock), for every number of daemons, clients and faults.           *)
(***************************************************************************)
EXTENDS DaemonState, DaemonLock, TLAPS

\* The tasks that handle a New.
New == {"spawn", "forget", "insert", "subscribe"}

\* The id of a session that is being created is below the counter, is nobody
\* else's, and has no cleanup task yet.
NewInv == \A c \in Conns : pc[c] \in New =>
    /\ id[c] \in Ids /\ id[c] < next
    /\ cleanup[id[c]] = "none"
    /\ pc[c] # "subscribe" => id[c] \notin live
    /\ \A d \in Conns : d # c /\ pc[d] \in New => id[d] # id[c]

\* Whatever exists was allocated.
Below == \A i \in Ids : i \in live \/ cleanup[i] # "none" \/ i \in running => i < next

\* What the progress of a cleanup task says about its session.
Progress == \A i \in Ids :
    /\ cleanup[i] \in {"bury", "done"} => i \notin live
    /\ cleanup[i] \in {"take", "bury", "done"} => i \notin running
    /\ i \in announced => i \notin running /\ cleanup[i] # "none"

\* There is a tombstone only after the cleanup task is through, also when a
\* Rename is about to put it back.
Buried ==
    /\ \A i \in tombs : cleanup[i] = "done"
    /\ \A c \in Conns : pc[c] = "putBack" => id[c] \in Ids /\ cleanup[id[c]] = "done"

\* A Kill takes out what was closed, or has exited, and nothing that is being
\* created.
Killing == \A c \in Conns : pc[c] \in {"close", "remove", "removeTomb"} =>
    /\ id[c] \in Ids /\ id[c] < next
    /\ pc[c] # "close" => id[c] \notin running \ closed
    /\ \A d \in Conns : pc[d] \in New \ {"subscribe"} => id[d] # id[c]

\* NoOrphan, session by session.
Reached == \A i \in running \ closed :
    \/ i \in live \/ i \in condemned
    \/ \E c \in Conns : \/ pc[c] \in {"forget", "insert"} /\ id[c] = i
                       \/ i \in doomed[c]

\* What a kill_all() took is closed before its task goes on.
Emptied == /\ \A c \in Conns : pc[c] # "stop" => doomed[c] = {}
           /\ main # "close" => condemned = {}

IInv == /\ TypeOK /\ NewInv /\ Below /\ Progress /\ Buried /\ Killing
        /\ Reached /\ Emptied

-----------------------------------------------------------------------------
(* Each action preserves the invariant.                                    *)

\* New: the id is above all that exist.
LEMMA AllocateStep ==
  ASSUME IInv, NEW c \in Conns, Allocate(c) PROVE IInv'
<1>1. TypeOK'
  BY DaemonAssumption DEF IInv, TypeOK, Labels, Ids, Allocate, Begin, Advance,
     tableVars, sessionVars, mainVars
<1>2. NewInv' /\ Killing'
  BY DEF IInv, TypeOK, NewInv, Killing, Below, Ids, Allocate, Begin, Advance,
     tableVars, sessionVars, mainVars
<1>3. Below' /\ Progress' /\ Buried'
  BY DEF IInv, TypeOK, Below, Progress, Buried, Ids, Allocate, Begin, Advance,
     tableVars, sessionVars, mainVars
<1>4. Reached'
  <2> SUFFICES ASSUME NEW i \in running \ closed
               PROVE  \/ i \in live \/ i \in condemned
                      \/ \E d \in Conns : \/ pc'[d] \in {"forget", "insert"} /\ id'[d] = i
                                         \/ i \in doomed[d]
    BY DEF Reached, Allocate, sessionVars, mainVars
  <2>1. ASSUME NEW d \in Conns, pc[d] \in {"forget", "insert"}, id[d] = i
        PROVE  pc'[d] \in {"forget", "insert"} /\ id'[d] = i
    BY <2>1 DEF IInv, TypeOK, Allocate, Begin
  <2> QED BY <2>1 DEF IInv, Reached
<1>5. Emptied'
  BY DEF IInv, Emptied, Allocate, Begin, Advance, tableVars, sessionVars,
     mainVars
<1> QED BY <1>1, <1>2, <1>3, <1>4, <1>5 DEF IInv

LEMMA SpawnFailsStep ==
  ASSUME IInv, NEW c \in Conns, SpawnFails(c) PROVE IInv'
<1>1. TypeOK'
  BY DEF IInv, TypeOK, Labels, SpawnFails, Goto, tableVars, sessionVars, mainVars
<1>2. NewInv' /\ Killing'
  BY DEF IInv, TypeOK, NewInv, Killing, New, SpawnFails, Goto, tableVars,
     sessionVars, mainVars
<1>3. Below' /\ Progress' /\ Buried'
  BY DEF IInv, Below, Progress, Buried, SpawnFails, Goto, tableVars, sessionVars,
     mainVars
<1>4. Reached'
  BY DEF IInv, Reached, SpawnFails, Goto, tableVars, sessionVars, mainVars
<1>5. Emptied'
  BY DEF IInv, Emptied, SpawnFails, Goto, tableVars, sessionVars, mainVars
<1> QED BY <1>1, <1>2, <1>3, <1>4, <1>5 DEF IInv

LEMMA SpawnStep ==
  ASSUME IInv, NEW c \in Conns, Spawn(c) PROVE IInv'
<1>1. TypeOK'
  BY DEF IInv, TypeOK, NewInv, Labels, New, Spawn, Goto, tableVars, sessionVars,
     mainVars
<1>2. NewInv' /\ Killing'
  BY DEF IInv, NewInv, Killing, New, Spawn, Goto, tableVars, sessionVars,
     mainVars
<1>3. Below' /\ Progress' /\ Buried'
  BY DEF IInv, NewInv, Below, Progress, Buried, New, Spawn, Goto, tableVars,
     sessionVars, mainVars
<1>4. Reached'
  BY DEF IInv, TypeOK, Reached, Spawn, Goto, tableVars, sessionVars, mainVars
<1>5. Emptied'
  BY DEF IInv, Emptied, Spawn, Goto, tableVars, sessionVars, mainVars
<1> QED BY <1>1, <1>2, <1>3, <1>4, <1>5 DEF IInv

LEMMA InsertForgetStep ==
  ASSUME IInv, NEW c \in Conns, InsertForget(c) PROVE IInv'
<1>1. TypeOK'
  BY DEF IInv, TypeOK, Labels, InsertForget, Goto, tableVars, sessionVars,
     mainVars
<1>2. NewInv' /\ Killing'
  BY DEF IInv, NewInv, Killing, New, InsertForget, Goto, tableVars, sessionVars,
     mainVars
<1>3. Below' /\ Progress' /\ Buried'
  BY DEF IInv, Below, Progress, Buried, InsertForget, Goto, tableVars,
     sessionVars, mainVars
<1>4. Reached'
  BY DEF IInv, Reached, InsertForget, Goto, tableVars, sessionVars, mainVars
<1>5. Emptied'
  BY DEF IInv, Emptied, InsertForget, Goto, tableVars, sessionVars, mainVars
<1> QED BY <1>1, <1>2, <1>3, <1>4, <1>5 DEF IInv

\* New: only here does a session enter the map.
LEMMA InsertLiveStep ==
  ASSUME IInv, NEW c \in Conns, InsertLive(c) PROVE IInv'
<1>1. TypeOK'
  BY DEF IInv, TypeOK, NewInv, Labels, New, InsertLive, Goto, tableVars,
     sessionVars, mainVars
<1>2. NewInv' /\ Killing'
  BY DEF IInv, TypeOK, NewInv, Killing, New, InsertLive, Goto, tableVars,
     sessionVars, mainVars
<1>3. Below' /\ Progress' /\ Buried'
  BY DEF IInv, NewInv, Below, Progress, Buried, New, InsertLive, Goto, tableVars,
     sessionVars, mainVars
<1>4. Reached'
  BY DEF IInv, Reached, InsertLive, Goto, tableVars, sessionVars, mainVars
<1>5. Emptied'
  BY DEF IInv, Emptied, InsertLive, Goto, tableVars, sessionVars, mainVars
<1> QED BY <1>1, <1>2, <1>3, <1>4, <1>5 DEF IInv

LEMMA SubscribeStep ==
  ASSUME IInv, NEW c \in Conns, Subscribe(c) PROVE IInv'
<1>1. TypeOK'
  BY DEF IInv, TypeOK, Labels, Subscribe, Goto, tableVars, sessionVars, mainVars
<1>2. NewInv' /\ Killing'
  BY DEF IInv, TypeOK, NewInv, Killing, New, Subscribe, Goto, tableVars,
     sessionVars, mainVars
<1>3. Below' /\ Progress' /\ Buried'
  BY DEF IInv, NewInv, Below, Progress, Buried, New, Subscribe, Goto, tableVars,
     sessionVars, mainVars
<1>4. Reached'
  BY DEF IInv, Reached, Subscribe, Goto, tableVars, sessionVars, mainVars
<1>5. Emptied'
  BY DEF IInv, Emptied, Subscribe, Goto, tableVars, sessionVars, mainVars
<1> QED BY <1>1, <1>2, <1>3, <1>4, <1>5 DEF IInv

\* Kill.
LEMMA KillLookupStep ==
  ASSUME IInv, NEW c \in Conns, NEW i \in Ids, KillLookup(c, i) PROVE IInv'
<1>1. TypeOK'
  BY DEF IInv, TypeOK, Labels, KillLookup, Begin, KillFound, tableVars,
     sessionVars, mainVars
<1>2. NewInv' /\ Killing'
  BY DEF IInv, TypeOK, NewInv, Killing, Below, New, KillLookup, Begin, KillFound,
     tableVars, sessionVars, mainVars
<1>3. Below' /\ Progress' /\ Buried'
  BY DEF IInv, Below, Progress, Buried, KillLookup, Begin, KillFound, tableVars,
     sessionVars, mainVars
<1>4. Reached'
  BY DEF IInv, Reached, KillLookup, Begin, KillFound, tableVars, sessionVars,
     mainVars
<1>5. Emptied'
  BY DEF IInv, Emptied, KillLookup, Begin, KillFound, tableVars, sessionVars,
     mainVars
<1> QED BY <1>1, <1>2, <1>3, <1>4, <1>5 DEF IInv

LEMMA KillCloseStep ==
  ASSUME IInv, NEW c \in Conns, KillClose(c) PROVE IInv'
<1>1. TypeOK'
  BY DEF IInv, TypeOK, Killing, Labels, KillClose, Goto, tableVars, sessionVars,
     mainVars
<1>2. NewInv' /\ Killing'
  BY DEF IInv, NewInv, Killing, New, KillClose, Goto, tableVars, sessionVars,
     mainVars
<1>3. Below' /\ Progress' /\ Buried'
  BY DEF IInv, Below, Progress, Buried, KillClose, Goto, tableVars, sessionVars,
     mainVars
<1>4. Reached'
  BY DEF IInv, Reached, KillClose, Goto, tableVars, sessionVars, mainVars
<1>5. Emptied'
  BY DEF IInv, Emptied, KillClose, Goto, tableVars, sessionVars, mainVars
<1> QED BY <1>1, <1>2, <1>3, <1>4, <1>5 DEF IInv

LEMMA KillExitedStep ==
  ASSUME IInv, NEW c \in Conns, KillExited(c) PROVE IInv'
<1>1. TypeOK'
  BY DEF IInv, TypeOK, Labels, KillExited, Goto, tableVars, sessionVars, mainVars
<1>2. NewInv'
  BY DEF IInv, NewInv, New, KillExited, Goto, tableVars, sessionVars, mainVars
<1>3. Below' /\ Progress' /\ Buried'
  BY DEF IInv, Below, Progress, Buried, KillExited, Goto, tableVars, sessionVars,
     mainVars
<1>4. Reached'
  BY DEF IInv, Reached, KillExited, Goto, tableVars, sessionVars, mainVars
<1>5. Emptied'
  BY DEF IInv, Emptied, KillExited, Goto, tableVars, sessionVars, mainVars
<1>6. Killing'
  BY DEF IInv, TypeOK, NewInv, Killing, Below, Progress, Buried, New, KillExited,
     Goto, tableVars, sessionVars, mainVars
<1> QED BY <1>1, <1>2, <1>3, <1>4, <1>5, <1>6 DEF IInv

LEMMA RemoveLiveStep ==
  ASSUME IInv, NEW c \in Conns, RemoveLive(c) PROVE IInv'
<1>1. TypeOK'
  BY DEF IInv, TypeOK, Labels, RemoveLive, Goto, tableVars, sessionVars, mainVars
<1>2. NewInv' /\ Killing'
  BY DEF IInv, NewInv, Killing, New, RemoveLive, Goto, tableVars, sessionVars,
     mainVars
<1>3. Below' /\ Progress' /\ Buried'
  BY DEF IInv, Below, Progress, Buried, RemoveLive, Goto, tableVars, sessionVars,
     mainVars
<1>4. Reached'
  BY DEF IInv, Killing, Reached, RemoveLive, Goto, tableVars, sessionVars,
     mainVars
<1>5. Emptied'
  BY DEF IInv, Emptied, RemoveLive, Goto, tableVars, sessionVars, mainVars
<1> QED BY <1>1, <1>2, <1>3, <1>4, <1>5 DEF IInv

LEMMA RemoveTombStep ==
  ASSUME IInv, NEW c \in Conns, RemoveTomb(c) PROVE IInv'
<1>1. TypeOK'
  BY DEF IInv, TypeOK, Labels, RemoveTomb, Goto, tableVars, sessionVars, mainVars
<1>2. NewInv' /\ Killing'
  BY DEF IInv, TypeOK, NewInv, Killing, New, RemoveTomb, Goto, tableVars,
     sessionVars, mainVars
<1>3. Below' /\ Progress' /\ Buried'
  BY DEF IInv, Below, Progress, Buried, RemoveTomb, Goto, tableVars, sessionVars,
     mainVars
<1>4. Reached'
  BY DEF IInv, Reached, RemoveTomb, Goto, tableVars, sessionVars, mainVars
<1>5. Emptied'
  BY DEF IInv, Emptied, RemoveTomb, Goto, tableVars, sessionVars, mainVars
<1> QED BY <1>1, <1>2, <1>3, <1>4, <1>5 DEF IInv

\* Rename.
LEMMA RenameLookupStep ==
  ASSUME IInv, NEW c \in Conns, NEW i \in Ids, RenameLookup(c, i) PROVE IInv'
<1>1. TypeOK'
  BY DEF IInv, TypeOK, Labels, RenameLookup, Begin, tableVars, sessionVars,
     mainVars
<1>2. NewInv' /\ Killing'
  BY DEF IInv, NewInv, Killing, New, RenameLookup, Begin, tableVars, sessionVars,
     mainVars
<1>3. Below' /\ Progress' /\ Buried'
  BY DEF IInv, Below, Progress, Buried, RenameLookup, Begin, tableVars,
     sessionVars, mainVars
<1>4. Reached'
  BY DEF IInv, Reached, RenameLookup, Begin, tableVars, sessionVars, mainVars
<1>5. Emptied'
  BY DEF IInv, Emptied, RenameLookup, Begin, tableVars, sessionVars, mainVars
<1> QED BY <1>1, <1>2, <1>3, <1>4, <1>5 DEF IInv

LEMMA RenameExitedStep ==
  ASSUME IInv, NEW c \in Conns, RenameExited(c) PROVE IInv'
<1>1. TypeOK'
  BY DEF IInv, TypeOK, Labels, RenameExited, Goto, tableVars, sessionVars,
     mainVars
<1>2. NewInv' /\ Killing'
  BY DEF IInv, NewInv, Killing, New, RenameExited, Goto, tableVars, sessionVars,
     mainVars
<1>3. Below' /\ Progress' /\ Buried'
  BY DEF IInv, TypeOK, Below, Progress, Buried, RenameExited, Goto, tableVars,
     sessionVars, mainVars
<1>4. Reached'
  BY DEF IInv, Reached, RenameExited, Goto, tableVars, sessionVars, mainVars
<1>5. Emptied'
  BY DEF IInv, Emptied, RenameExited, Goto, tableVars, sessionVars, mainVars
<1> QED BY <1>1, <1>2, <1>3, <1>4, <1>5 DEF IInv

LEMMA RenamePutBackStep ==
  ASSUME IInv, NEW c \in Conns, RenamePutBack(c) PROVE IInv'
<1>1. TypeOK'
  BY DEF IInv, TypeOK, Buried, Labels, RenamePutBack, Goto, tableVars,
     sessionVars, mainVars
<1>2. NewInv' /\ Killing'
  BY DEF IInv, NewInv, Killing, New, RenamePutBack, Goto, tableVars, sessionVars,
     mainVars
<1>3. Below' /\ Progress' /\ Buried'
  BY DEF IInv, TypeOK, Below, Progress, Buried, RenamePutBack, Goto, tableVars,
     sessionVars, mainVars
<1>4. Reached'
  BY DEF IInv, Reached, RenamePutBack, Goto, tableVars, sessionVars, mainVars
<1>5. Emptied'
  BY DEF IInv, Emptied, RenamePutBack, Goto, tableVars, sessionVars, mainVars
<1> QED BY <1>1, <1>2, <1>3, <1>4, <1>5 DEF IInv

\* Stop.
LEMMA StopTakeStep ==
  ASSUME IInv, NEW c \in Conns, StopTake(c) PROVE IInv'
<1>1. TypeOK'
  BY DEF IInv, TypeOK, Labels, StopTake, Begin, tableVars, sessionVars, mainVars
<1>2. NewInv' /\ Killing'
  BY DEF IInv, NewInv, Killing, New, StopTake, Begin, tableVars, sessionVars,
     mainVars
<1>3. Below' /\ Progress' /\ Buried'
  BY DEF IInv, Below, Progress, Buried, StopTake, Begin, tableVars, sessionVars,
     mainVars
<1>4. Reached'
  <2> SUFFICES ASSUME NEW i \in running \ closed
               PROVE  \/ i \in live' \/ i \in condemned
                      \/ \E d \in Conns : \/ pc'[d] \in {"forget", "insert"} /\ id'[d] = i
                                         \/ i \in doomed'[d]
    BY DEF Reached, StopTake, sessionVars, mainVars
  <2>1. CASE i \in live
    <3>1. i \in doomed'[c] BY <2>1 DEF IInv, TypeOK, StopTake
    <3> QED BY <3>1
  <2>2. ASSUME NEW d \in Conns,
               (pc[d] \in {"forget", "insert"} /\ id[d] = i) \/ i \in doomed[d]
        PROVE  \/ pc'[d] \in {"forget", "insert"} /\ id'[d] = i
               \/ i \in doomed'[d]
               \/ i \in live
    BY <2>2 DEF IInv, TypeOK, Emptied, StopTake, Begin
  <2> QED BY <2>1, <2>2 DEF IInv, Reached
<1>5. Emptied'
  BY DEF IInv, TypeOK, Emptied, StopTake, Begin, tableVars, sessionVars, mainVars
<1> QED BY <1>1, <1>2, <1>3, <1>4, <1>5 DEF IInv

LEMMA StopCloseStep ==
  ASSUME IInv, NEW c \in Conns, NEW i \in Ids, StopClose(c, i) PROVE IInv'
<1>1. TypeOK'
  BY DEF IInv, TypeOK, Labels, StopClose, tableVars, sessionVars, mainVars
<1>2. NewInv' /\ Killing'
  BY DEF IInv, NewInv, Killing, StopClose, tableVars, sessionVars, mainVars
<1>3. Below' /\ Progress' /\ Buried'
  BY DEF IInv, Below, Progress, Buried, StopClose, tableVars, sessionVars,
     mainVars
<1>4. Reached'
  BY DEF IInv, Reached, StopClose, tableVars, sessionVars, mainVars
<1>5. Emptied'
  BY DEF IInv, Emptied, StopClose, tableVars, sessionVars, mainVars
<1> QED BY <1>1, <1>2, <1>3, <1>4, <1>5 DEF IInv

LEMMA StopForgetStep ==
  ASSUME IInv, NEW c \in Conns, StopForget(c) PROVE IInv'
<1>1. TypeOK'
  BY DEF IInv, TypeOK, Labels, StopForget, Goto, tableVars, sessionVars, mainVars
<1>2. NewInv' /\ Killing'
  BY DEF IInv, NewInv, Killing, New, StopForget, Goto, tableVars, sessionVars,
     mainVars
<1>3. Below' /\ Progress' /\ Buried'
  BY DEF IInv, Below, Progress, Buried, StopForget, Goto, tableVars, sessionVars,
     mainVars
<1>4. Reached'
  BY DEF IInv, Reached, StopForget, Goto, tableVars, sessionVars, mainVars
<1>5. Emptied'
  BY DEF IInv, Emptied, StopForget, Goto, tableVars, sessionVars, mainVars
<1> QED BY <1>1, <1>2, <1>3, <1>4, <1>5 DEF IInv

LEMMA StopSignalStep ==
  ASSUME IInv, NEW c \in Conns, StopSignal(c) PROVE IInv'
<1>1. TypeOK'
  BY DEF IInv, TypeOK, Labels, StopSignal, Goto, tableVars, sessionVars, mainVars
<1>2. NewInv' /\ Killing'
  BY DEF IInv, NewInv, Killing, New, StopSignal, Goto, tableVars, sessionVars,
     mainVars
<1>3. Below' /\ Progress' /\ Buried'
  BY DEF IInv, Below, Progress, Buried, StopSignal, Goto, tableVars, sessionVars,
     mainVars
<1>4. Reached'
  BY DEF IInv, Reached, StopSignal, Goto, tableVars, sessionVars, mainVars
<1>5. Emptied'
  BY DEF IInv, Emptied, StopSignal, Goto, tableVars, sessionVars, mainVars
<1> QED BY <1>1, <1>2, <1>3, <1>4, <1>5 DEF IInv

\* run().
LEMMA MainTakeStep ==
  ASSUME IInv, MainTake PROVE IInv'
<1>1. TypeOK'
  BY DEF IInv, TypeOK, Labels, MainTake, tableVars, sessionVars, connVars
<1>2. NewInv' /\ Killing'
  BY DEF IInv, NewInv, Killing, MainTake, tableVars, sessionVars, connVars
<1>3. Below' /\ Progress' /\ Buried'
  BY DEF IInv, Below, Progress, Buried, MainTake, tableVars, sessionVars,
     connVars
<1>4. Reached'
  <2> SUFFICES ASSUME NEW i \in running \ closed
               PROVE  \/ i \in condemned'
                      \/ \E d \in Conns : \/ pc[d] \in {"forget", "insert"} /\ id[d] = i
                                         \/ i \in doomed[d]
    BY DEF Reached, MainTake, sessionVars, connVars
  <2> QED BY DEF IInv, TypeOK, Reached, Emptied, MainTake
<1>5. Emptied'
  BY DEF IInv, Emptied, MainTake, tableVars, sessionVars, connVars
<1> QED BY <1>1, <1>2, <1>3, <1>4, <1>5 DEF IInv

LEMMA MainCloseStep ==
  ASSUME IInv, NEW i \in Ids, MainClose(i) PROVE IInv'
<1>1. TypeOK'
  BY DEF IInv, TypeOK, Labels, MainClose, tableVars, sessionVars, connVars
<1>2. NewInv' /\ Killing'
  BY DEF IInv, NewInv, Killing, MainClose, tableVars, sessionVars, connVars
<1>3. Below' /\ Progress' /\ Buried'
  BY DEF IInv, Below, Progress, Buried, MainClose, tableVars, sessionVars,
     connVars
<1>4. Reached'
  BY DEF IInv, Reached, MainClose, tableVars, sessionVars, connVars
<1>5. Emptied'
  BY DEF IInv, Emptied, MainClose, tableVars, sessionVars, connVars
<1> QED BY <1>1, <1>2, <1>3, <1>4, <1>5 DEF IInv

LEMMA MainForgetStep ==
  ASSUME IInv, MainForget PROVE IInv'
<1>1. TypeOK'
  BY DEF IInv, TypeOK, Labels, MainForget, tableVars, sessionVars, connVars
<1>2. NewInv' /\ Killing'
  BY DEF IInv, NewInv, Killing, MainForget, tableVars, sessionVars, connVars
<1>3. Below' /\ Progress' /\ Buried'
  BY DEF IInv, Below, Progress, Buried, MainForget, tableVars, sessionVars,
     connVars
<1>4. Reached'
  BY DEF IInv, Reached, MainForget, tableVars, sessionVars, connVars
<1>5. Emptied'
  BY DEF IInv, Emptied, MainForget, tableVars, sessionVars, connVars
<1> QED BY <1>1, <1>2, <1>3, <1>4, <1>5 DEF IInv

\* The cleanup task.
LEMMA ExitsStep ==
  ASSUME IInv, NEW i \in Ids, Exits(i) PROVE IInv'
<1>1. TypeOK'
  BY DEF IInv, TypeOK, Labels, Exits, tableVars, sessionVars, connVars, mainVars
<1>2. NewInv' /\ Killing'
  BY DEF IInv, NewInv, Killing, Exits, tableVars, sessionVars, connVars, mainVars
<1>3. Below' /\ Progress' /\ Buried'
  BY DEF IInv, Below, Progress, Buried, Exits, tableVars, sessionVars, connVars,
     mainVars
<1>4. Reached'
  BY DEF IInv, Reached, Exits, tableVars, sessionVars, connVars, mainVars
<1>5. Emptied'
  BY DEF IInv, Emptied, Exits, tableVars, sessionVars, connVars, mainVars
<1> QED BY <1>1, <1>2, <1>3, <1>4, <1>5 DEF IInv

LEMMA CleanupWakeStep ==
  ASSUME IInv, NEW i \in Ids, CleanupWake(i) PROVE IInv'
<1>1. TypeOK'
  BY DEF IInv, TypeOK, Labels, CleanupWake, ExitKnown, tableVars, sessionVars,
     connVars, mainVars
<1>2. NewInv' /\ Killing'
  BY DEF IInv, NewInv, Killing, CleanupWake, ExitKnown, tableVars, sessionVars,
     connVars, mainVars
<1>3. Below' /\ Progress' /\ Buried'
  BY DEF IInv, Below, Progress, Buried, CleanupWake, ExitKnown, tableVars,
     sessionVars, connVars, mainVars
<1>4. Reached'
  BY DEF IInv, Reached, CleanupWake, ExitKnown, tableVars, sessionVars, connVars,
     mainVars
<1>5. Emptied'
  BY DEF IInv, Emptied, CleanupWake, ExitKnown, tableVars, sessionVars, connVars,
     mainVars
<1> QED BY <1>1, <1>2, <1>3, <1>4, <1>5 DEF IInv

LEMMA CleanupTakeStep ==
  ASSUME IInv, NEW i \in Ids, CleanupTake(i) PROVE IInv'
<1>1. TypeOK'
  BY DEF IInv, TypeOK, Labels, CleanupTake, TakeOut, tableVars, sessionVars,
     connVars, mainVars
<1>2. NewInv' /\ Killing'
  BY DEF IInv, NewInv, Killing, CleanupTake, TakeOut, tableVars, sessionVars,
     connVars, mainVars
<1>3. Below' /\ Progress' /\ Buried'
  BY DEF IInv, Below, Progress, Buried, CleanupTake, TakeOut, tableVars,
     sessionVars, connVars, mainVars
<1>4. Reached'
  BY DEF IInv, Progress, Reached, CleanupTake, TakeOut, tableVars, sessionVars,
     connVars, mainVars
<1>5. Emptied'
  BY DEF IInv, Emptied, CleanupTake, TakeOut, tableVars, sessionVars, connVars,
     mainVars
<1> QED BY <1>1, <1>2, <1>3, <1>4, <1>5 DEF IInv

LEMMA CleanupBuryStep ==
  ASSUME IInv, NEW i \in Ids, CleanupBury(i) PROVE IInv'
<1>1. TypeOK'
  BY DEF IInv, TypeOK, Labels, CleanupBury, Bury, tableVars, sessionVars,
     connVars, mainVars
<1>2. NewInv' /\ Killing'
  BY DEF IInv, NewInv, Killing, CleanupBury, Bury, tableVars, sessionVars,
     connVars, mainVars
<1>3. Below' /\ Progress' /\ Buried'
  BY DEF IInv, TypeOK, Below, Progress, Buried, CleanupBury, Bury, tableVars,
     sessionVars, connVars, mainVars
<1>4. Reached'
  BY DEF IInv, Reached, CleanupBury, Bury, tableVars, sessionVars, connVars,
     mainVars
<1>5. Emptied'
  BY DEF IInv, Emptied, CleanupBury, Bury, tableVars, sessionVars, connVars,
     mainVars
<1> QED BY <1>1, <1>2, <1>3, <1>4, <1>5 DEF IInv

LEMMA InitIInv == Init => IInv
<1> SUFFICES ASSUME Init PROVE IInv
  OBVIOUS
<1>1. TypeOK
  <2>1. 1 \in 1 .. (MaxIds + 1) BY DaemonAssumption
  <2> QED BY <2>1 DEF Init, TypeOK, Labels
<1>2. NewInv /\ Below /\ Progress /\ Buried /\ Killing /\ Reached /\ Emptied
  BY DEF Init, NewInv, Below, Progress, Buried, Killing, Reached, Emptied, New
<1> QED BY <1>1, <1>2 DEF IInv

LEMMA NextIInv == IInv /\ [Next]_vars => IInv'
<1> SUFFICES ASSUME IInv, [Next]_vars PROVE IInv'
  OBVIOUS
<1>1. ASSUME NEW c \in Conns, Request(c) PROVE IInv'
  BY <1>1, AllocateStep, KillLookupStep, RenameLookupStep, StopTakeStep DEF Request
<1>2. ASSUME NEW c \in Conns, Proceed(c) PROVE IInv'
  BY <1>2, SpawnFailsStep, SpawnStep, InsertForgetStep, InsertLiveStep, SubscribeStep,
     KillCloseStep, KillExitedStep, RemoveLiveStep, RemoveTombStep, RenameExitedStep,
     RenamePutBackStep, StopCloseStep, StopForgetStep, StopSignalStep DEF Proceed
<1>3. ASSUME NEW i \in Ids, Exits(i) \/ Cleanup(i) PROVE IInv'
  BY <1>3, ExitsStep, CleanupWakeStep, CleanupTakeStep, CleanupBuryStep DEF Cleanup
<1>4. ASSUME Main PROVE IInv'
  BY <1>4, MainTakeStep, MainCloseStep, MainForgetStep DEF Main
<1>5. ASSUME UNCHANGED vars PROVE IInv'
  <2> USE <1>5 DEF vars, tableVars, sessionVars, connVars, mainVars
  <2>1. TypeOK' BY DEF IInv, TypeOK
  <2>2. NewInv' /\ Below' BY DEF IInv, NewInv, Below
  <2>3. Progress' /\ Buried' BY DEF IInv, Progress, Buried
  <2>4. Killing' /\ Reached' BY DEF IInv, Killing, Reached
  <2>5. Emptied' BY DEF IInv, Emptied
  <2> QED BY <2>1, <2>2, <2>3, <2>4, <2>5 DEF IInv
<1> QED BY <1>1, <1>2, <1>3, <1>4, <1>5 DEF Next

-----------------------------------------------------------------------------
\* The inductive invariant.
THEOREM Invariance == Spec => []IInv
<1>1. Init => IInv BY InitIInv
<1>2. IInv /\ [Next]_vars => IInv' BY NextIInv
<1> QED BY <1>1, <1>2, PTL DEF Spec

\* The state variables keep their types: no more ids are given than there are.
THEOREM TypeCorrect == Spec => []TypeOK
<1>1. IInv => TypeOK
  BY DEF IInv
<1> QED BY <1>1, Invariance, PTL

\* No id is ever in both maps: a tombstone is written when the cleanup task is
\* through, by it or by a Rename that read it, and by then the id has left the
\* live sessions for good.
THEOREM NeverTwoRecords == Spec => []OneRecord
<1>1. IInv => OneRecord
  BY DEF IInv, TypeOK, Progress, Buried, OneRecord
<1> QED BY <1>1, Invariance, PTL

\* No two sessions share an id, and nothing of an earlier session is left under
\* the id of one that is being created.
THEOREM IdsStayFresh == Spec => []IdsAreFresh
<1>1. ASSUME IInv PROVE IdsAreFresh
  <2> SUFFICES ASSUME NEW c \in Conns, pc[c] \in New
               PROVE  /\ \A d \in Conns : c # d /\ pc[d] \in New => id[c] # id[d]
                      /\ pc[c] # "subscribe" => /\ id[c] \notin live \cup tombs
                                                /\ cleanup[id[c]] = "none"
    BY DEF IdsAreFresh, New
  <2> QED BY <1>1 DEF IInv, NewInv, Buried
<1> QED BY <1>1, Invariance, PTL

\* As long as its child runs, a session that nobody closed is in the map or in
\* the hands of a task that will put it there or close it.
THEOREM NoSessionIsLost == Spec => []NoOrphan
<1>1. IInv => NoOrphan
  BY DEF IInv, Reached, NoOrphan, Unborn, Doomed
<1> QED BY <1>1, Invariance, PTL


-----------------------------------------------------------------------------
(* OneInstance and RemainsAreCleared of DaemonLock.                        *)
(*                                                                         *)
(* OneInstance is not inductive.  Until two daemons start or end at the    *)
(* same time, one that is on its way has lock and path for itself (Alone), *)
(* and while another serves it gets no further than the check of the lock  *)
(* (Settled).                                                              *)

PCs == {"unborn", "acquire", "held", "reclaim", "create", "pid", "unlink", "bind",
        "serving", "stopping", "failing", "unlock", "dead", "failed"}

Types == /\ Nobody \notin Daemons
         /\ dpc \in [Daemons -> PCs]
         /\ sock \in Daemons \cup {Nobody}
         /\ lock \in {"none", "empty", "pid"}
         /\ raced \in BOOLEAN

Busy(d) == Starting(d) \/ Ending(d)

\* Where a daemon may be while another one serves.
Harmless == {"unborn", "acquire", "held", "dead", "failed"}

OneBusy == \A d, e \in Daemons : Busy(d) /\ Busy(e) => d = e
Alone == \A d \in Daemons :
           /\ dpc[d] = "pid" => lock = "empty"
           /\ dpc[d] \in {"unlink", "bind"} => lock = "pid"
           /\ dpc[d] = "bind" => sock = Nobody
Settled == \A d \in Daemons : dpc[d] = "serving" =>
             /\ sock = d /\ lock = "pid"
             /\ \A e \in Daemons \ {d} : dpc[e] \in Harmless

LockInv == Types /\ (raced \/ (OneBusy /\ Alone /\ Settled))

-----------------------------------------------------------------------------

\* Goes(d, pc) changes where d is, and of nobody else.
LEMMA GoesTypes ==
    ASSUME Types, NEW d \in Daemons, NEW at \in PCs, Goes(d, at)
    PROVE  /\ dpc' \in [Daemons -> PCs]
           /\ raced' \in BOOLEAN
           /\ dpc'[d] = at
           /\ \A e \in Daemons \ {d} : dpc'[e] = dpc[e]
  BY DEF Types, Goes

\* If no two daemons are said to have overlapped, none did, and none does.
LEMMA GoesQuietly ==
    ASSUME LockInv, NEW d \in Daemons, NEW at \in PCs, Goes(d, at), ~raced'
    PROVE  /\ ~raced /\ OneBusy /\ Alone /\ Settled
           /\ OneBusy'
           /\ Busy(d) \/ Busy(d)' => \A e \in Daemons \ {d} : ~Busy(e)
<1>1. Types /\ ~raced /\ OneBusy /\ Alone /\ Settled
  BY DEF Goes, LockInv
<1>2. \A e \in Daemons \ {d} : Busy(e)' <=> Busy(e)
  BY <1>1, GoesTypes DEF Busy, Starting, Ending
<1>3. Busy(d) \/ Busy(d)' => \A e \in Daemons \ {d} : ~Busy(e)
  BY <1>1 DEF Goes, Busy, OneBusy
<1> QED
  BY <1>1, <1>2, <1>3 DEF OneBusy

-----------------------------------------------------------------------------
(* Each action preserves the invariant.                                    *)

\* A daemon's steps preserve the invariant.
LEMMA DaemonStep ==
    ASSUME LockInv, NEW d \in Daemons,
           \/ CreateLock(d) \/ CheckStale(d) \/ RemoveStale(d) \/ CreateAgain(d)
           \/ WritePid(d) \/ RemoveSocket(d) \/ Bind(d) \/ StopListening(d)
           \/ DropLock(d) \/ Crash(d) \/ Stop(d)
    PROVE  LockInv'
<1>1. PICK at \in PCs : Goes(d, at)
  BY Zenon DEF CreateLock, CheckStale, RemoveStale, CreateAgain,
               WritePid, RemoveSocket, Bind, StopListening, DropLock,
               Crash, Stop, Fault, Daemon, PCs
<1>2. Types'
  <2>1. lock' \in {"none", "empty", "pid"} /\ sock' \in Daemons \cup {Nobody}
    BY DEF LockInv, Types, CreateLock, CheckStale, RemoveStale,
           CreateAgain, WritePid, RemoveSocket, Bind,
           StopListening, DropLock, Crash, Stop, Fault
  <2> QED
    BY <1>1, <2>1, GoesTypes DEF LockInv, Types
<1>3. ASSUME ~raced'
      PROVE  OneBusy' /\ Alone' /\ Settled'
  <2>1. /\ OneBusy' /\ Alone /\ Settled /\ Types
        /\ Busy(d) \/ Busy(d)' => \A e \in Daemons \ {d} : ~Busy(e)
    BY <1>1, <1>3, GoesQuietly DEF LockInv
  <2>2. dpc'[d] = at /\ \A e \in Daemons \ {d} : dpc'[e] = dpc[e]
    BY <1>1, <2>1, GoesTypes
  <2> USE <1>1, <2>1, <2>2
      DEF Alone, Settled, Types, Harmless, PCs, Busy, Starting, Ending, Daemon, Goes
  \* Where another daemon serves there is a lock.
  <2>3. CASE CreateLock(d)
    BY <2>3 DEF CreateLock
  \* A daemon that serves answers, so no lock of one counts as stale.
  <2>4. CASE CheckStale(d)
    BY <2>4 DEF CheckStale, Stale, Answers, Listening
  \* Who clears away a stale lock is alone ...
  <2>5. CASE RemoveStale(d)
    BY <2>5 DEF RemoveStale
  \* ... and so it makes the new one ...
  <2>6. CASE CreateAgain(d)
    BY <2>6 DEF CreateAgain
  \* ... which is still there.
  <2>7. CASE WritePid(d)
    BY <2>7 DEF WritePid
  \* Nobody serves at the path that is removed.
  <2>8. CASE RemoveSocket(d)
    BY <2>8 DEF RemoveSocket
  \* It serves alone.
  <2>9. CASE Bind(d)
    BY <2>9 DEF Bind
  \* The path that is removed is its own.
  <2>10. CASE StopListening(d)
    BY <2>10 DEF StopListening
  \* Nobody else has the lock it may remove.
  <2>11. CASE DropLock(d)
    BY <2>11 DEF DropLock
  \* A crash removes nothing.
  <2>12. CASE Crash(d)
    BY <2>12 DEF Crash, Fault, Listening
  \* Who is told to stop is the one that serves.
  <2>13. CASE Stop(d)
    BY <2>13 DEF Stop, Fault
  <2> QED
    BY <2>3, <2>4, <2>5, <2>6, <2>7, <2>8, <2>9, <2>10, <2>11, <2>12, <2>13
<1> QED
  BY <1>2, <1>3 DEF LockInv, Types

\* A client changes where a daemon is only when it starts one.
LEMMA ClientStep ==
    ASSUME LockInv, NEW c \in Clients,
           Connect(c) \/ SpawnDaemon(c) \/ Reach(c) \/ GiveUp(c)
    PROVE  LockInv'
<1>1. CASE UNCHANGED <<lock, sock, dpc, raced>>
  BY <1>1 DEF LockInv, Types, OneBusy, Alone, Settled, Busy, Starting, Ending
<1>2. ASSUME NEW d \in Daemons, dpc[d] = "unborn", Goes(d, "acquire"), UNCHANGED <<lock, sock>>
      PROVE  LockInv'
  <2>1. "acquire" \in PCs
    BY DEF PCs
  <2>2. Types'
    BY <1>2, <2>1, GoesTypes DEF LockInv, Types
  <2>3. ASSUME ~raced'
        PROVE  OneBusy' /\ Alone' /\ Settled'
    <3>1. OneBusy' /\ Alone /\ Settled /\ Types
      BY <1>2, <2>1, <2>3, GoesQuietly DEF LockInv
    <3>2. dpc'[d] = "acquire" /\ \A e \in Daemons \ {d} : dpc'[e] = dpc[e]
      BY <1>2, <2>1, <3>1, GoesTypes
    <3>3. Alone'
      BY <1>2, <3>1, <3>2 DEF Alone
    <3>4. Settled'
      BY <1>2, <3>1, <3>2 DEF Settled, Harmless
    <3> QED
      BY <3>1, <3>3, <3>4
  <2> QED
    BY <2>2, <2>3 DEF LockInv, Types
<1> QED
  BY <1>1, <1>2 DEF Connect, SpawnDaemon, Reach, GiveUp

-----------------------------------------------------------------------------

\* Nobody has been started.
LEMMA InitLockInv == LockInit => LockInv
  BY DaemonLockAssumption DEF LockInit, LockInv, Types, PCs, OneBusy, Alone, Settled, Busy,
                              Starting, Ending

\* Every step preserves the invariant.
LEMMA NextLockInv == LockInv /\ [LockNext]_lockVars => LockInv'
<1>1. LockInv /\ UNCHANGED lockVars => LockInv'
  BY DEF lockVars, LockInv, Types, OneBusy, Alone, Settled, Busy, Starting, Ending
<1> QED
  BY <1>1, DaemonStep, ClientStep DEF LockNext

\* Who serves is Settled, and so no other does.
LEMMA LockInvOneInstance == LockInv => OneInstance
  BY DEF LockInv, Settled, Harmless, OneInstance, Serving

\* However many daemons are started, crash and stop, in whatever order: as long
\* as no two of them were starting or ending at the same time, there is one that
\* serves, at the socket's path and with the lock.
THEOREM OneServes == LockSpec => []OneInstance
<1>1. LockSpec => []LockInv
  BY InitLockInv, NextLockInv, PTL DEF LockSpec
<1> QED
  BY <1>1, LockInvOneInstance, PTL
-----------------------------------------------------------------------------
(* RemainsAreCleared.                                                      *)

\* This daemon will get to serve, unless another one does.
OnItsWay(d) ==
    \/ dpc[d] \in {"acquire", "held", "reclaim", "pid", "unlink"}
    \/ dpc[d] = "create" /\ lock = "none"
    \/ dpc[d] = "bind" /\ sock = Nobody

\* Who waits, and was not there when a daemon crashed, stopped or ended, does so ...
Hopeful(c) == cpc[c] \in {"spawn", "waits"} /\ c \notin excused

\* ... while no daemon is about to close its socket, ...
NoneStops == \A c \in Clients : Hopeful(c) => \A d \in Daemons : dpc[d] # "stopping"

\* ... and, with a daemon started for it, not in vain.
HelpIsComing ==
    \A c \in Clients : Hopeful(c) /\ cpc[c] = "waits" => Answers \/ \E d \in Daemons : OnItsWay(d)

ClientTypes == /\ cpc \in [Clients -> {"idle", "spawn", "waits", "failed"}]
               /\ excused \subseteq Clients

WaitInv == Types /\ ClientTypes /\ NoneStops /\ HelpIsComing /\ RemainsAreCleared

\* Where a daemon goes matters only where it was or is on its way, or answers.
LEMMA WaitStep == WaitInv /\ [LockNext]_lockVars => WaitInv'
<1> SUFFICES ASSUME WaitInv, [LockNext]_lockVars PROVE WaitInv'
  OBVIOUS
<1> USE DEF WaitInv, Types, ClientTypes, PCs, NoneStops, HelpIsComing, RemainsAreCleared,
        Hopeful, OnItsWay, Answers, Listening, Daemon, Goes
<1>1. ASSUME NEW d \in Daemons, CreateLock(d) PROVE WaitInv'
  BY <1>1 DEF CreateLock
<1>2. ASSUME NEW d \in Daemons, CheckStale(d) PROVE WaitInv'
  BY <1>2 DEF CheckStale, Stale
<1>3. ASSUME NEW d \in Daemons, RemoveStale(d) PROVE WaitInv'
  BY <1>3 DEF RemoveStale
<1>4. ASSUME NEW d \in Daemons, CreateAgain(d) PROVE WaitInv'
  BY <1>4 DEF CreateAgain
<1>5. ASSUME NEW d \in Daemons, WritePid(d) PROVE WaitInv'
  BY <1>5 DEF WritePid
<1>6. ASSUME NEW d \in Daemons, RemoveSocket(d) PROVE WaitInv'
  BY <1>6 DEF RemoveSocket
<1>7. ASSUME NEW d \in Daemons, Bind(d) PROVE WaitInv'
  BY <1>7 DEF Bind
<1>8. ASSUME NEW d \in Daemons, StopListening(d) PROVE WaitInv'
  BY <1>8 DEF StopListening
<1>9. ASSUME NEW d \in Daemons, DropLock(d) PROVE WaitInv'
  BY <1>9 DEF DropLock
<1>10. ASSUME NEW d \in Daemons, Crash(d) \/ Stop(d) PROVE WaitInv'
  BY <1>10 DEF Crash, Stop, Fault, Waiting
<1>11. ASSUME NEW c \in Clients, Connect(c) PROVE WaitInv'
  BY <1>11 DEF Connect, Client, Ending
<1>12. ASSUME NEW c \in Clients, SpawnDaemon(c) PROVE WaitInv'
  BY <1>12 DEF SpawnDaemon, Client
<1>13. ASSUME NEW c \in Clients, Reach(c) PROVE WaitInv'
  BY <1>13 DEF Reach, Client
<1>14. ASSUME NEW c \in Clients, GiveUp(c) PROVE WaitInv'
  BY <1>14 DEF GiveUp, Client, Starting
<1>15. CASE UNCHANGED lockVars
  BY <1>15 DEF lockVars
<1> QED
  BY <1>1, <1>2, <1>3, <1>4, <1>5, <1>6, <1>7, <1>8, <1>9, <1>10, <1>11, <1>12,
     <1>13, <1>14, <1>15 DEF LockNext

\* Whatever a daemon left behind where it crashed, a client that then finds none
\* gets one, unless a daemon crashes, stops or ends while it waits: also when several
\* clients start daemons at the same time, which may remove each other's lock and socket.
THEOREM NobodyWaitsInVain == LockSpec => []RemainsAreCleared
<1>1. LockInit => WaitInv
  BY DaemonLockAssumption DEF LockInit, WaitInv, Types, ClientTypes, PCs, NoneStops,
                              HelpIsComing, RemainsAreCleared, Hopeful
<1>2. WaitInv => RemainsAreCleared
  BY DEF WaitInv
<1> QED
  BY <1>1, <1>2, WaitStep, PTL DEF LockSpec
=============================================================================
