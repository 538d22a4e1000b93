---------------------------- MODULE Session_proofs ----------------------------
(***************************************************************************)
(* Proofs about Session, for every set of clients, requests and closers    *)
(* and every bound: the safety properties of the run Session_Life, from    *)
(* one inductive invariant, and that of Session_Sequential.                *)
(***************************************************************************)
EXTENDS Session, TLAPS


Resizing == {"open", "master", "width", "height", "screen"}

\* What a connection is in, where it is: only a client attaches, and only between
\* taking event_lock and its insertion.
ConnInv ==
    /\ \A c \in Clients :
         /\ op[c] = "attach" => pc[c] \in Resizing \cup {"snapshot", "insert"}
         /\ pc[c] \in {"snapshot", "insert"} => op[c] = "attach"
         /\ op[c] # "control"
    /\ \A r \in Resizers : op[r] # "attach"

\* event_lock is held by the client that attaches, or by the parser thread from
\* the scrollback to the last broadcast.
LockInv ==
    /\ \A c \in Clients : eventLock = c <=> op[c] = "attach"
    /\ eventLock = Parser <=> ppc \in {"push", "remove", "drop"}

\* A client that has not attached yet is nowhere.
Newcomers ==
    \A c \in Clients : pc[c] \in {"start", "lock"} \/ op[c] = "attach"
                          => c \notin attached /\ active # c /\ told[c] = "open"

\* A connection that is about to end has left the map.
Leavers ==
    \A c \in Clients : pc[c] \in {"release", "clear"} /\ AfterRelease(c) = "gone"
                          => c \notin attached

\* So has a client whose queue was ended.
Ended == \A c \in Clients : told[c] # "open" => c \notin attached

\* A snapshot is of now until its client is in the map.
SnapshotsCurrent == \A c \in Clients : pc[c] = "insert" => stream[c] = out

\* The inductive invariant.
MapInv == Newcomers /\ Leavers /\ Ended /\ GoneIsForgotten
StreamInv == SnapshotsCurrent /\ NothingMissed
IInv == TypeOK /\ ConnInv /\ LockInv /\ MapInv /\ StreamInv

-----------------------------------------------------------------------------
(* The state variables keep their types.                                   *)

ConnTypes == /\ pc \in [Procs -> Labels]
             /\ op \in [Procs -> {"none", "attach", "control", "focus", "input", "resize",
                                  "detach", "disconnect"}]

\* Setting one flag of many.
LEMMA UpdatedFlags ==
    ASSUME NEW S, NEW f \in [S -> BOOLEAN], NEW x
    PROVE  /\ [f EXCEPT ![x] = TRUE] \in [S -> BOOLEAN]
           /\ [f EXCEPT ![x] = FALSE] \in [S -> BOOLEAN]
<1>1. \A b \in BOOLEAN : [f EXCEPT ![x] = b] \in [S -> BOOLEAN]
  OBVIOUS
<1>2. TRUE \in BOOLEAN /\ FALSE \in BOOLEAN
  BY Zenon
<1> QED
  BY <1>1, <1>2, Zenon

\* No action takes a variable out of its type.
LEMMA TypeStep == TypeOK /\ [Next]_vars => TypeOK'
<1> SUFFICES ASSUME TypeOK, [Next]_vars PROVE TypeOK'
  OBVIOUS
<1> USE SessionAssumption
    DEF TypeOK, vars, clientVars, sizeVars, lifeVars, ptyVars, connVars, parserVars, sentVars,
        Procs, Labels, Goto, Begin
<1>1. ASSUME NEW c \in Clients, Request(c) PROVE TypeOK'
  <2>1. CASE AttachCheck(c)
    BY <2>1 DEF AttachCheck
  <2>2. CASE CommandFails(c)
    BY <2>2 DEF CommandFails, Command
  <2>3. ASSUME NEW o \in {"focus", "input"}, Focus(c, o) PROVE TypeOK'
    BY <2>3 DEF Focus, Command
  <2>4. ASSUME NEW s \in Sizes, Resize(c, s) PROVE TypeOK'
    BY <2>4 DEF Resize, Command
  <2>5. CASE Detach(c)
    <3>1. CASE c \in FrameClients
      BY <2>5, <3>1 DEF Detach, Command
    <3>2. CASE c \notin FrameClients
      <4>1. shown' \in [Clients -> BOOLEAN]
        <5>1. shown' = [shown EXCEPT ![c] = FALSE]
          BY <2>5, <3>2, Zenon DEF Detach
        <5>2. shown \in [Clients -> BOOLEAN]
          BY Zenon
        <5> QED
          BY <5>1, <5>2, UpdatedFlags, Zenon
      <4> QED
        BY <2>5, <3>2, <4>1 DEF Detach, Command
    <3> QED
      BY <3>1, <3>2
  <2>6. CASE Disconnect(c)
    BY <2>6 DEF Disconnect
  <2> QED
    BY <1>1, <2>1, <2>2, <2>3, <2>4, <2>5, <2>6 DEF Request
<1>2. ASSUME NEW c \in Clients, Proceed(c) \/ WriteDone(c) PROVE TypeOK'
  <2>1. ASSUME NEW s \in Sizes, AttachLock(c, s) PROVE TypeOK'
    BY <2>1 DEF AttachLock, TakeEventLock
  <2>2. CASE AttachSnapshot(c)
    BY <2>2 DEF AttachSnapshot
  <2>3. CASE AttachInsert(c)
    BY <2>3 DEF AttachInsert
  <2>4. CASE FocusActivate(c)
    BY <2>4 DEF FocusActivate, AfterActivate
  <2>5. CASE WriteRefused(c) \/ WriteOpen(c) \/ WriteBegin(c) \/ WriteFailed(c) \/ WriteDone(c)
    BY <2>5 DEF WriteRefused, WriteOpen, WriteBegin, WriteFailed, WriteDone
  <2>6. CASE ResizeStore(c)
    <3>1. CASE c \in attached
      <4>1. shown' \in [Clients -> BOOLEAN]
        <5>1. shown' = [shown EXCEPT ![c] = TRUE]
          BY <2>6, <3>1, Zenon DEF ResizeStore
        <5>2. shown \in [Clients -> BOOLEAN]
          BY Zenon
        <5> QED
          BY <5>1, <5>2, UpdatedFlags, Zenon
      <4> QED
        BY <2>6, <3>1, <4>1 DEF ResizeStore
    <3>2. CASE c \notin attached
      BY <2>6, <3>2 DEF ResizeStore
    <3> QED
      BY <3>1, <3>2
  <2>7. CASE ResizeClaim(c) \/ ResizeCompare(c)
    BY <2>7 DEF ResizeClaim, ResizeCompare
  <2>8. CASE ReleaseCheck(c) \/ ReleaseClear(c)
    BY <2>8 DEF ReleaseCheck, ReleaseClear, AfterRelease
  <2> QED
    BY <1>2, <2>1, <2>2, <2>3, <2>4, <2>5, <2>6, <2>7, <2>8 DEF Proceed
<1>3. ASSUME NEW p \in Procs, ResizePty(p) PROVE TypeOK'
  BY <1>3 DEF ResizePty, ResizeRefused, Refuse, ResizeOpen, ResizeFails, ResizeMaster,
              ResizeWidth, ResizeHeight, ResizeScreen, AfterResize
<1>4. ASSUME NEW r \in Resizers, NEW s \in Sizes, ControlResize(r, s) PROVE TypeOK'
  BY <1>4 DEF ControlResize
<1>5. ASSUME NEW k \in Closers, Close(k) PROVE TypeOK'
  <2>1. CASE CloseFlag(k)
    BY <2>1 DEF CloseFlag
  <2>2. CASE CloseKill(k)
    BY <2>2 DEF CloseKill, Kill
  <2>3. CASE CloseWriter(k)
    BY <2>3 DEF CloseWriter
  <2>4. CASE CloseMaster(k)
    <3>1. master' \in BOOLEAN
      BY <2>4, Zenon DEF CloseMaster
    <3> QED
      BY <2>4, <3>1 DEF CloseMaster
  <2>5. CASE CloseDrain(k)
    BY <2>5 DEF CloseDrain, DrainClients, ForgetClients
  <2> QED
    BY <1>5, <2>1, <2>2, <2>3, <2>4, <2>5 DEF Close
<1>6. CASE ChildExit \/ Waiter
  <2>1. CASE ChildExit
    <3>1. alive' \in BOOLEAN
      BY <2>1, Zenon DEF ChildExit
    <3> QED
      BY <2>1, <3>1 DEF ChildExit
  <2>2. CASE WaiterReap
    BY <2>2 DEF WaiterReap
  <2>3. CASE WaiterDrain
    BY <2>3 DEF WaiterDrain, DrainClients, ForgetClients
  <2> QED
    BY <1>6, <2>1, <2>2, <2>3 DEF Waiter
<1>7. CASE ParserAppend \/ ParserStep \/ ParserEof
  <2>1. CASE ParserAppend
    BY <2>1 DEF ParserAppend
  <2>2. ASSUME NEW full \in SUBSET BytesClients, ParserPush(full) PROVE TypeOK'
    <3>1. CASE full = {}
      BY <2>2, <3>1 DEF ParserPush, BytesClients
    <3>2. CASE full # {}
      BY <2>2, <3>2 DEF ParserPush, BytesClients
    <3> QED
      BY <3>1, <3>2
  <2>3. ASSUME NEW c \in Clients, ParserDrop(c) PROVE TypeOK'
    <3>1. CASE c \in attached
      BY <2>3, <3>1 DEF ParserDrop
    <3>2. CASE c \notin attached
      BY <2>3, <3>2 DEF ParserDrop
    <3> QED
      BY <3>1, <3>2
  <2>4. CASE ParserRemove
    BY <2>4 DEF ParserRemove
  <2>5. CASE ParserDropDone
    <3>1. dropping' \in BOOLEAN /\ tookActive' \in BOOLEAN
      BY <2>5, Zenon DEF ParserDropDone
    <3> QED
      BY <2>5, <3>1 DEF ParserDropDone
  <2>6. CASE ParserEof
    BY <2>6 DEF ParserEof
  <2> QED
    BY <1>7, <2>1, <2>2, <2>3, <2>4, <2>5, <2>6 DEF ParserStep
<1>8. CASE UNCHANGED vars
  BY <1>8
<1> QED
  BY <1>1, <1>2, <1>3, <1>4, <1>5, <1>6, <1>7, <1>8 DEF Next

-----------------------------------------------------------------------------
(* Every action preserves the invariant.                                   *)

\* All but the types.
Rest == ConnInv /\ LockInv /\ MapInv /\ StreamInv

\* The rest of the invariant is preserved, action by action.
LEMMA RestStep == IInv /\ [Next]_vars => Rest'
<1> SUFFICES ASSUME IInv, [Next]_vars PROVE Rest'
  OBVIOUS
<1>0. /\ ConnTypes /\ Clients \subseteq Procs /\ Resizers \subseteq Procs
      /\ stream \in [Clients -> Nat] /\ told \in [Clients -> {"open", "exit", "cut"}]
  BY DEF IInv, TypeOK, ConnTypes, Procs
<1> USE <1>0, SessionAssumption
    DEF IInv, Rest, ConnTypes, ConnInv, LockInv, MapInv, StreamInv, Newcomers, Leavers, Ended,
        GoneIsForgotten, SnapshotsCurrent, NothingMissed, Handed, AfterRelease, Resizing,
        vars, clientVars, sizeVars, lifeVars, ptyVars, connVars, parserVars, sentVars,
        Labels, Goto, Begin, Parser, Free
<1>1. ASSUME NEW c \in Clients, Request(c) PROVE Rest'
  <2>1. CASE AttachCheck(c)
    BY <2>1 DEF AttachCheck
  <2>2. CASE CommandFails(c)
    BY <2>2 DEF CommandFails, Command
  <2>3. ASSUME NEW o \in {"focus", "input"}, Focus(c, o) PROVE Rest'
    BY <2>3 DEF Focus, Command
  <2>4. ASSUME NEW s \in Sizes, Resize(c, s) PROVE Rest'
    BY <2>4 DEF Resize, Command
  <2>5. CASE Detach(c)
    <3>1. CASE c \in FrameClients
      BY <2>5, <3>1 DEF Detach, Command, BytesClients
    <3>2. CASE c \notin FrameClients
      BY <2>5, <3>2 DEF Detach, Command, BytesClients
    <3> QED
      BY <3>1, <3>2
  <2>6. CASE Disconnect(c)
    BY <2>6 DEF Disconnect
  <2> QED
    BY <1>1, <2>1, <2>2, <2>3, <2>4, <2>5, <2>6 DEF Request
<1>2. ASSUME NEW c \in Clients, Proceed(c) \/ WriteDone(c) PROVE Rest'
  <2>1. ASSUME NEW s \in Sizes, AttachLock(c, s) PROVE Rest'
    BY <2>1 DEF AttachLock, TakeEventLock
  <2>2. CASE AttachSnapshot(c)
    BY <2>2 DEF AttachSnapshot
  <2>3. CASE AttachInsert(c)
    BY <2>3 DEF AttachInsert
  <2>4. CASE FocusActivate(c)
    BY <2>4 DEF FocusActivate, AfterActivate
  <2>5. CASE WriteRefused(c) \/ WriteOpen(c) \/ WriteBegin(c) \/ WriteFailed(c) \/ WriteDone(c)
    BY <2>5 DEF WriteRefused, WriteOpen, WriteBegin, WriteFailed, WriteDone
  <2>6. CASE ResizeStore(c)
    BY <2>6 DEF ResizeStore
  <2>7. CASE ResizeClaim(c) \/ ResizeCompare(c)
    BY <2>7 DEF ResizeClaim, ResizeCompare
  <2>8. CASE ReleaseCheck(c)
    BY <2>8 DEF ReleaseCheck, NotActive
  <2>9. CASE ReleaseClear(c)
    BY <2>9 DEF ReleaseClear
  <2> QED
    BY <1>2, <2>1, <2>2, <2>3, <2>4, <2>5, <2>6, <2>7, <2>8, <2>9 DEF Proceed
<1>3. ASSUME NEW p \in Procs, ResizePty(p) PROVE Rest'
  <2>1. CASE ResizeRefused(p) \/ ResizeFails(p)
    BY <2>1 DEF ResizeRefused, ResizeFails, Refuse, Procs
  <2>2. CASE ResizeOpen(p) \/ ResizeMaster(p) \/ ResizeWidth(p) \/ ResizeHeight(p)
    BY <2>2 DEF ResizeOpen, ResizeMaster, ResizeWidth, ResizeHeight
  <2>3. CASE ResizeScreen(p)
    BY <2>3 DEF ResizeScreen, AfterResize, Procs
  <2> QED
    BY <1>3, <2>1, <2>2, <2>3 DEF ResizePty
<1>4. ASSUME NEW r \in Resizers, NEW s \in Sizes, ControlResize(r, s) PROVE Rest'
  BY <1>4 DEF ControlResize
<1>5. ASSUME NEW k \in Closers, Close(k) PROVE Rest'
  <2>1. CASE CloseDrain(k)
    BY <2>1 DEF CloseDrain, DrainClients, ForgetClients
  <2>2. CASE CloseFlag(k) \/ CloseKill(k) \/ CloseWriter(k) \/ CloseMaster(k)
    BY <2>2 DEF CloseFlag, CloseKill, CloseWriter, CloseMaster
  <2> QED
    BY <1>5, <2>1, <2>2 DEF Close
<1>6. CASE WaiterDrain
  BY <1>6 DEF WaiterDrain, DrainClients, ForgetClients
<1>7. CASE ChildExit \/ WaiterReap
  BY <1>7 DEF ChildExit, WaiterReap
<1>8. CASE ParserAppend \/ ParserStep \/ ParserEof
  <2>1. CASE ParserAppend
    BY <2>1 DEF ParserAppend, TypeOK
  <2>2. ASSUME NEW full \in SUBSET BytesClients, ParserPush(full) PROVE Rest'
    <3>1. \A c \in Clients : stream'[c] = IF c \in attached \ full THEN out ELSE stream[c]
      BY <2>2 DEF ParserPush
    <3>2. Handed' = out
      BY <2>2 DEF ParserPush
    <3>3. NothingMissed'
      BY <2>2, <3>1, <3>2 DEF ParserPush, TypeOK
    <3>4. SnapshotsCurrent'
      BY <2>2, <3>1 DEF ParserPush
    <3>5. ConnInv' /\ MapInv'
      BY <2>2 DEF ParserPush
    <3>6. LockInv'
      BY <2>2 DEF ParserPush
    <3> QED
      BY <3>3, <3>4, <3>5, <3>6
  <2>3. CASE ParserRemove
    BY <2>3 DEF ParserRemove
  <2>4. ASSUME NEW c \in Clients, ParserDrop(c) PROVE Rest'
    <3>1. CASE c \in attached
      BY <2>4, <3>1 DEF ParserDrop
    <3>2. CASE c \notin attached
      BY <2>4, <3>2 DEF ParserDrop
    <3> QED
      BY <3>1, <3>2
  <2>5. CASE ParserDropDone
    BY <2>5 DEF ParserDropDone
  <2>6. CASE ParserEof
    BY <2>6 DEF ParserEof
  <2> QED
    BY <1>8, <2>1, <2>2, <2>3, <2>4, <2>5, <2>6 DEF ParserStep
<1>9. CASE UNCHANGED vars
  BY <1>9
<1> QED
  BY <1>1, <1>2, <1>3, <1>4, <1>5, <1>6, <1>7, <1>8, <1>9 DEF Next, Waiter

-----------------------------------------------------------------------------

\* Only who is in the map is told of an end ...
LEMMA ToldStep ==
    ASSUME TypeOK, [Next]_vars, NEW c \in Clients, c \notin attached
    PROVE  told'[c] = told[c]
<1> USE DEF vars, clientVars, sizeVars, lifeVars, ptyVars, connVars, parserVars, sentVars
<1>1. CASE UNCHANGED told
  BY <1>1
<1>2. CASE DrainClients
  BY <1>2 DEF DrainClients
<1>3. ASSUME NEW d \in Clients, ParserDrop(d) PROVE told'[c] = told[c]
  BY <1>3 DEF ParserDrop, TypeOK
<1> QED
  BY <1>1, <1>2, <1>3
     DEF Next, Request, Proceed, AttachCheck, CommandFails, Focus, Resize, Detach, Disconnect,
         AttachLock, AttachSnapshot, AttachInsert, FocusActivate, WriteRefused, WriteOpen,
         WriteBegin, WriteFailed, WriteDone, ResizeStore, ResizeClaim, ResizeCompare,
         ReleaseCheck, ReleaseClear, ResizePty, ResizeRefused, Refuse, ResizeOpen,
         ResizeFails, ResizeMaster, ResizeWidth, ResizeHeight, ResizeScreen, ControlResize, Close, CloseFlag, CloseKill,
         CloseWriter, CloseMaster, CloseDrain, ChildExit, Waiter, WaiterReap, WaiterDrain,
         ParserAppend, ParserStep, ParserPush, ParserRemove, ParserDropDone, ParserEof

\* ... and only who is in the map, or attaches, is handed a batch.
LEMMA StreamStep ==
    ASSUME IInv, [Next]_vars, NEW c \in Clients, c \notin attached, told[c] # "open"
    PROVE  stream'[c] = stream[c]
<1> USE DEF vars, clientVars, sizeVars, lifeVars, ptyVars, connVars, parserVars, sentVars
<1>1. CASE UNCHANGED stream
  BY <1>1
<1>2. ASSUME NEW d \in Clients, AttachSnapshot(d) PROVE stream'[c] = stream[c]
  BY <1>2 DEF AttachSnapshot, IInv, TypeOK, ConnInv, MapInv, Newcomers
<1>3. ASSUME NEW full \in SUBSET BytesClients, ParserPush(full) PROVE stream'[c] = stream[c]
  BY <1>3 DEF ParserPush
<1> QED
  BY <1>1, <1>2, <1>3
     DEF Next, Request, Proceed, AttachCheck, CommandFails, Focus, Resize, Detach, Disconnect,
         AttachLock, AttachInsert, FocusActivate, WriteRefused, WriteOpen,
         WriteBegin, WriteFailed, WriteDone, ResizeStore, ResizeClaim, ResizeCompare,
         ReleaseCheck, ReleaseClear, ResizePty, ResizeRefused, Refuse, ResizeOpen,
         ResizeFails, ResizeMaster, ResizeWidth, ResizeHeight, ResizeScreen, ControlResize, Close, CloseFlag, CloseKill,
         CloseWriter, CloseMaster, CloseDrain, DrainClients, ChildExit, Waiter, WaiterReap,
         WaiterDrain, ParserAppend, ParserStep, ParserRemove, ParserDrop, ParserDropDone, ParserEof

\* Nobody has attached yet.
LEMMA InitIInv == Init => IInv
<1> SUFFICES ASSUME Init PROVE IInv
  OBVIOUS
<1>1. PICK s \in Sizes : pty = s /\ width = s /\ height = s /\ screen = s
  BY DEF Init
<1>2. TypeOK
  BY <1>1 DEF Init, TypeOK, Procs, Labels
<1>3. ConnInv /\ LockInv
  BY SessionAssumption DEF Init, ConnInv, LockInv, Procs, Parser, Free
<1>4. MapInv /\ StreamInv
  BY SessionAssumption DEF Init, MapInv, Newcomers, Leavers, Ended, GoneIsForgotten,
     StreamInv, SnapshotsCurrent, NothingMissed, Procs
<1> QED
  BY <1>2, <1>3, <1>4 DEF IInv

\* Every step preserves the invariant.
LEMMA NextIInv == IInv /\ [Next]_vars => IInv'
  BY TypeStep, RestStep DEF IInv, Rest

\* The inductive invariant is one.
LEMMA Inductive == Spec => []IInv
  BY InitIInv, NextIInv, PTL DEF Spec

\* The state of session and threads is well-typed.
THEOREM TypeCorrect == Spec => []TypeOK
<1>1. IInv => TypeOK
  BY DEF IInv
<1> QED
  BY <1>1, Inductive, PTL

\* Whatever the interleaving, the session forgets a connection that has ended.
THEOREM GoneAreForgotten == Spec => []GoneIsForgotten
<1>1. IInv => GoneIsForgotten
  BY DEF IInv, MapInv
<1> QED
  BY <1>1, Inductive, PTL

\* No client in the map misses a batch or gets one twice.
THEOREM NoBatchMissed == Spec => []NothingMissed
<1>1. IInv => NothingMissed
  BY DEF IInv, StreamInv
<1> QED
  BY <1>1, Inductive, PTL

\* Who was told of the end hears nothing more.
THEOREM NothingAfterTheEnd == Spec => EndIsFinal
<1>1. ASSUME IInv, IInv', [Next]_vars
      PROVE  [\A c \in Clients : told[c] # "open" =>
                told'[c] = told[c] /\ stream'[c] = stream[c] /\ c \notin attached']_vars
  <2> SUFFICES ASSUME NEW c \in Clients, told[c] # "open"
               PROVE  told'[c] = told[c] /\ stream'[c] = stream[c] /\ c \notin attached'
    BY Zenon
  <2>1. c \notin attached
    BY <1>1 DEF IInv, MapInv, Ended
  <2>2. told'[c] = told[c]
    BY <1>1, <2>1, ToldStep DEF IInv
  <2>3. stream'[c] = stream[c]
    BY <1>1, <2>1, StreamStep
  <2>4. c \notin attached'
    BY <1>1, <2>2 DEF IInv, MapInv, Ended
  <2> QED
    BY <2>2, <2>3, <2>4
<1> QED
  BY <1>1, Inductive, PTL DEF Spec, EndIsFinal

-----------------------------------------------------------------------------
(* RecentOwnsSize does not hold of all behaviours: operations of two       *)
(* clients that overlap may leave the PTY with either size.  It holds as   *)
(* long as they do not (OneAtATime), and as no control-plane request sets  *)
(* another size.                                                           *)

\* The client that attached, focused or typed last is there.
RecentIsThere == recent \in attached /\ shown[recent]

\* It has the active role, or is about to take it.
RecentActive ==
    RecentIsThere => active = recent \/ pc[recent] \in {"activate", "claim"}

\* Who gives the role up has it, and is no longer there.
Releasing ==
    \A c \in Clients :
       /\ pc[c] \in {"release", "clear"} => c \notin attached \/ ~shown[c]
       /\ pc[c] = "clear" => active \in {c, Nobody}

\* The parser thread takes the role from a client that it removed.
RoleTaken == /\ ppc = "drop" => dropping
             /\ tookActive => ppc = "drop" /\ active \notin attached

\* Only a closed session has no master.
MasterTaken == /\ \A k \in Closers : kpc[k] # "flag" => closed
               /\ ~master => closed

RoleInv == RecentActive /\ Releasing /\ RoleTaken /\ MasterTaken

\* The operation will end with the client's size, or another one, on the PTY.  (An
\* attach may still fail as long as the PTY has not taken its size.)
Pending(c) == \/ op[c] = "attach" /\ pc[c] \notin {"open", "master"}
              \/ op[c] # "attach" /\ pc[c] \in Resizing \cup {"activate", "claim"}
              \/ pc[c] = "compare" /\ c = recent

\* How far resize_pty() is, and for whom.
ResizeInProgress ==
    \A c \in Clients :
       /\ pc[c] \in {"width", "height", "screen", "snapshot", "insert"} => pty = sz[c]
       /\ pc[c] \in {"height", "screen", "snapshot", "insert"} => width = sz[c]
       /\ pc[c] \in {"screen", "snapshot", "insert"} => height = sz[c]
       /\ pc[c] \in {"snapshot", "insert"} => screen = sz[c]
       /\ op[c] # "attach" /\ pc[c] \in Resizing \cup {"activate", "claim", "compare"}
             => sz[c] = size[c]
       /\ op[c] # "attach" /\ pc[c] \in Resizing /\ RecentIsThere => c = recent

\* Otherwise the recent client's size is the one on the PTY.
SizeInPlace ==
    ~closed /\ RecentIsThere /\ (\A c \in Clients : ~Pending(c))
       => /\ pty = size[recent] /\ width = size[recent]
          /\ height = size[recent] /\ screen = size[recent]

SizeInv == ResizeInProgress /\ SizeInPlace

\* While a client is in an operation nobody else is.
LEMMA OthersIdle ==
    ASSUME OneAtATime, ConnTypes, NEW c \in Clients, pc[c] \notin {"start", "lock", "idle", "gone"}
    PROVE  /\ ppc # "drop"
           /\ \A d \in Clients \ {c} : pc[d] \in {"start", "lock", "idle", "gone"}
  BY SessionAssumption DEF OneAtATime, Busy, Procs

\* The same while the parser thread removes clients.
LEMMA AllIdle ==
    ASSUME OneAtATime, ConnTypes, ppc = "drop"
    PROVE  \A d \in Clients : pc[d] \in {"start", "lock", "idle", "gone"}
  BY SessionAssumption DEF OneAtATime, Busy, Procs

\* No step of an operation takes the active role from the recent client.
LEMMA RoleStep ==
    ASSUME Resizers = {}, IInv, OneAtATime, RoleInv, [Next]_vars
    PROVE  RoleInv'
<1>0. /\ ConnTypes /\ Clients \subseteq Procs /\ shown \in [Clients -> BOOLEAN]
      /\ attached \subseteq Clients
      /\ kpc \in [Closers -> {"flag", "kill", "writer", "master", "drain", "done"}]
      /\ Nobody \notin Clients
  BY SessionAssumption DEF IInv, TypeOK, ConnTypes, Procs
<1> USE <1>0
    DEF RoleInv, RecentActive, RecentIsThere, Releasing, RoleTaken, MasterTaken,
        ConnTypes, vars, clientVars, sizeVars, lifeVars, ptyVars, connVars, parserVars, sentVars,
        Goto, Begin, Labels
<1>1. ASSUME NEW c \in Clients, Request(c) PROVE RoleInv'
  <2>1. CASE AttachCheck(c)
    BY <2>1 DEF AttachCheck
  <2>2. CASE CommandFails(c)
    BY <2>2 DEF CommandFails, Command
  <2>3. ASSUME NEW o \in {"focus", "input"}, Focus(c, o) PROVE RoleInv'
    BY <2>3 DEF Focus, Command
  <2>4. ASSUME NEW s \in Sizes, Resize(c, s) PROVE RoleInv'
    BY <2>4 DEF Resize, Command
  <2>5. CASE Detach(c)
    <3>1. CASE c \in FrameClients
      BY <2>5, <3>1 DEF Detach, Command
    <3>2. CASE c \notin FrameClients
      BY <2>5, <3>2 DEF Detach, Command
    <3> QED
      BY <3>1, <3>2
  <2>6. CASE Disconnect(c)
    BY <2>6 DEF Disconnect
  <2> QED
    BY <1>1, <2>1, <2>2, <2>3, <2>4, <2>5, <2>6 DEF Request
<1>2. ASSUME NEW c \in Clients, Proceed(c) \/ WriteDone(c) PROVE RoleInv'
  <2>1. ASSUME NEW s \in Sizes, AttachLock(c, s) PROVE RoleInv'
    BY <2>1 DEF AttachLock
  <2>2. CASE AttachSnapshot(c)
    BY <2>2 DEF AttachSnapshot
  <2>3. CASE AttachInsert(c)
    BY <2>3, OthersIdle DEF AttachInsert
  <2>4. CASE FocusActivate(c)
    BY <2>4, OthersIdle DEF FocusActivate, AfterActivate
  <2>5. CASE WriteRefused(c) \/ WriteOpen(c) \/ WriteBegin(c) \/ WriteFailed(c) \/ WriteDone(c)
    BY <2>5 DEF WriteRefused, WriteOpen, WriteBegin, WriteFailed, WriteDone
  <2>6. CASE ResizeStore(c)
    <3>1. CASE c \in attached
      BY <2>6, <3>1, OthersIdle DEF ResizeStore
    <3>2. CASE c \notin attached
      BY <2>6, <3>2 DEF ResizeStore
    <3> QED
      BY <3>1, <3>2
  <2>7. CASE ResizeClaim(c)
    BY <2>7, OthersIdle DEF ResizeClaim
  <2>8. CASE ResizeCompare(c)
    BY <2>8, OthersIdle DEF ResizeCompare
  <2>9. CASE ReleaseCheck(c)
    BY <2>9 DEF ReleaseCheck, NotActive, AfterRelease
  <2>10. CASE ReleaseClear(c)
    BY <2>10, OthersIdle DEF ReleaseClear, AfterRelease
  <2> QED
    BY <1>2, <2>1, <2>2, <2>3, <2>4, <2>5, <2>6, <2>7, <2>8, <2>9, <2>10 DEF Proceed
<1>3. ASSUME NEW p \in Clients, ResizePty(p) PROVE RoleInv'
  <2>1. CASE ResizeRefused(p) \/ ResizeFails(p)
    BY <2>1 DEF ResizeRefused, ResizeFails, Refuse
  <2>2. CASE ResizeOpen(p)
    BY <2>2 DEF ResizeOpen
  <2>3. CASE ResizeMaster(p)
    BY <2>3, OthersIdle DEF ResizeMaster
  <2>4. CASE ResizeWidth(p)
    BY <2>4, OthersIdle DEF ResizeWidth
  <2>5. CASE ResizeHeight(p)
    BY <2>5, OthersIdle DEF ResizeHeight
  <2>6. CASE ResizeScreen(p)
    BY <2>6, OthersIdle DEF ResizeScreen, AfterResize
  <2> QED
    BY <1>3, <2>1, <2>2, <2>3, <2>4, <2>5, <2>6 DEF ResizePty
<1>4. ASSUME NEW k \in Closers, Close(k) PROVE RoleInv'
  <2>1. CASE CloseDrain(k)
    BY <2>1 DEF CloseDrain, DrainClients, ForgetClients
  <2>2. CASE CloseFlag(k)
    BY <2>2 DEF CloseFlag
  <2>3. CASE CloseKill(k)
    BY <2>3 DEF CloseKill
  <2>4. CASE CloseWriter(k)
    BY <2>4 DEF CloseWriter
  <2>5. CASE CloseMaster(k)
    BY <2>5 DEF CloseMaster
  <2> QED
    BY <1>4, <2>1, <2>2, <2>3, <2>4, <2>5 DEF Close
<1>5. CASE WaiterDrain
  BY <1>5 DEF WaiterDrain, DrainClients, ForgetClients
<1>6. CASE ChildExit \/ WaiterReap
  BY <1>6 DEF ChildExit, WaiterReap
<1>7. CASE ParserAppend \/ ParserStep \/ ParserEof
  <2>1. CASE ParserAppend \/ ParserEof
    BY <2>1 DEF ParserAppend, ParserEof
  <2>2. ASSUME NEW full \in SUBSET BytesClients, ParserPush(full) PROVE RoleInv'
    BY <2>2 DEF ParserPush
  <2>3. CASE ParserRemove
    BY <2>3 DEF ParserRemove
  <2>4. ASSUME NEW c \in Clients, ParserDrop(c) PROVE RoleInv'
    <3>1. CASE c \in attached
      BY <2>4, <3>1, AllIdle DEF ParserDrop
    <3>2. CASE c \notin attached
      BY <2>4, <3>2 DEF ParserDrop
    <3> QED
      BY <3>1, <3>2
  <2>5. CASE ParserDropDone
    BY <2>5, AllIdle DEF ParserDropDone
  <2> QED
    BY <1>7, <2>1, <2>2, <2>3, <2>4, <2>5 DEF ParserStep
<1>8. CASE UNCHANGED vars
  BY <1>8
<1> QED
  BY <1>1, <1>2, <1>3, <1>4, <1>5, <1>6, <1>7, <1>8 DEF Next, Waiter, Procs

\* An operation that changes the size leaves the recent client's in place.
LEMMA SizeStep ==
    ASSUME Resizers = {}, IInv, OneAtATime, OneAtATime', RoleInv, SizeInv, [Next]_vars
    PROVE  SizeInv'
<1>0. /\ ConnTypes /\ Clients \subseteq Procs /\ shown \in [Clients -> BOOLEAN]
      /\ size \in [Clients -> Sizes] /\ sz \in [Procs -> Sizes]
      /\ attached \subseteq Clients
      /\ Nobody \notin Clients
      /\ ConnInv /\ Newcomers /\ RoleInv /\ SizeInv
  BY SessionAssumption DEF IInv, TypeOK, ConnTypes, Procs, MapInv
<1> USE <1>0
    DEF SizeInv, ResizeInProgress, SizeInPlace, Pending, Resizing,
        RoleInv, RecentActive, RecentIsThere, MasterTaken, ConnTypes, ConnInv, Newcomers,
        vars, clientVars, sizeVars, lifeVars, ptyVars, connVars, parserVars, sentVars,
        Goto, Begin, Labels
<1>1. ASSUME NEW c \in Clients, Request(c) PROVE SizeInv'
  <2>1. CASE AttachCheck(c)
    BY <2>1 DEF AttachCheck
  <2>2. CASE CommandFails(c)
    BY <2>2 DEF CommandFails, Command
  <2>3. ASSUME NEW o \in {"focus", "input"}, Focus(c, o) PROVE SizeInv'
    <3>1. /\ ConnTypes' /\ pc'[c] = "activate"
          /\ \A d \in Clients \ {c} : pc'[d] = pc[d] /\ op'[d] = op[d]
      BY <2>3 DEF Focus
    <3>2. \A d \in Clients \ {c} : pc[d] \in {"start", "lock", "idle", "gone"}
      <4>1. \A d \in Clients \ {c} : pc'[d] \in {"start", "lock", "idle", "gone"}
        BY <3>1 DEF OneAtATime, Busy, Procs
      <4> QED
        BY <3>1, <4>1
    <3>3. ResizeInProgress'
      BY <2>3, <3>1, <3>2 DEF Focus
    <3>4. SizeInPlace'
      BY <3>1
    <3> QED
      BY <3>3, <3>4
  <2>4. ASSUME NEW s \in Sizes, Resize(c, s) PROVE SizeInv'
    BY <2>4 DEF Resize, Command
  <2>5. CASE Detach(c)
    <3>1. CASE c \in FrameClients
      BY <2>5, <3>1 DEF Detach, Command
    <3>2. CASE c \notin FrameClients
      BY <2>5, <3>2 DEF Detach, Command
    <3> QED
      BY <3>1, <3>2
  <2>6. CASE Disconnect(c)
    BY <2>6 DEF Disconnect
  <2> QED
    BY <1>1, <2>1, <2>2, <2>3, <2>4, <2>5, <2>6 DEF Request
<1>2. ASSUME NEW c \in Clients, Proceed(c) \/ WriteDone(c) PROVE SizeInv'
  <2>1. ASSUME NEW s \in Sizes, AttachLock(c, s) PROVE SizeInv'
    BY <2>1 DEF AttachLock
  <2>2. CASE AttachSnapshot(c)
    BY <2>2 DEF AttachSnapshot
  <2>3. CASE AttachInsert(c)
    BY <2>3, OthersIdle DEF AttachInsert
  <2>4. CASE FocusActivate(c)
    BY <2>4, OthersIdle DEF FocusActivate, AfterActivate
  <2>5. CASE WriteRefused(c) \/ WriteOpen(c) \/ WriteBegin(c) \/ WriteFailed(c) \/ WriteDone(c)
    BY <2>5 DEF WriteRefused, WriteOpen, WriteBegin, WriteFailed, WriteDone
  <2>6. CASE ResizeStore(c)
    <3>1. CASE c \in attached
      BY <2>6, <3>1, OthersIdle DEF ResizeStore
    <3>2. CASE c \notin attached
      BY <2>6, <3>2 DEF ResizeStore
    <3> QED
      BY <3>1, <3>2
  <2>7. CASE ResizeClaim(c)
    BY <2>7, OthersIdle DEF ResizeClaim
  <2>8. CASE ResizeCompare(c)
    BY <2>8, OthersIdle DEF ResizeCompare
  <2>9. CASE ReleaseCheck(c)
    BY <2>9 DEF ReleaseCheck, NotActive, AfterRelease
  <2>10. CASE ReleaseClear(c)
    BY <2>10, OthersIdle DEF ReleaseClear, AfterRelease
  <2> QED
    BY <1>2, <2>1, <2>2, <2>3, <2>4, <2>5, <2>6, <2>7, <2>8, <2>9, <2>10 DEF Proceed
<1>3. ASSUME NEW p \in Clients, ResizePty(p) PROVE SizeInv'
  <2>1. CASE ResizeRefused(p)
    BY <2>1, OthersIdle DEF ResizeRefused, Refuse
  <2>7. CASE ResizeFails(p)
    BY <2>7, OthersIdle DEF ResizeFails, Refuse
  <2>2. CASE ResizeOpen(p)
    BY <2>2 DEF ResizeOpen
  <2>3. CASE ResizeMaster(p)
    BY <2>3, OthersIdle DEF ResizeMaster
  <2>4. CASE ResizeWidth(p)
    BY <2>4, OthersIdle DEF ResizeWidth
  <2>5. CASE ResizeHeight(p)
    BY <2>5, OthersIdle DEF ResizeHeight
  <2>6. CASE ResizeScreen(p)
    BY <2>6, OthersIdle DEF ResizeScreen, AfterResize
  <2> QED
    BY <1>3, <2>1, <2>2, <2>3, <2>4, <2>5, <2>6, <2>7 DEF ResizePty
<1>4. ASSUME NEW k \in Closers, Close(k) PROVE SizeInv'
  <2>1. CASE CloseDrain(k)
    BY <2>1 DEF CloseDrain, DrainClients, ForgetClients
  <2>2. CASE CloseFlag(k)
    BY <2>2 DEF CloseFlag
  <2>3. CASE CloseKill(k)
    BY <2>3 DEF CloseKill
  <2>4. CASE CloseWriter(k)
    BY <2>4 DEF CloseWriter
  <2>5. CASE CloseMaster(k)
    BY <2>5 DEF CloseMaster
  <2> QED
    BY <1>4, <2>1, <2>2, <2>3, <2>4, <2>5 DEF Close
<1>5. CASE WaiterDrain
  BY <1>5 DEF WaiterDrain, DrainClients, ForgetClients
<1>6. CASE ChildExit \/ WaiterReap
  BY <1>6 DEF ChildExit, WaiterReap
<1>7. CASE ParserAppend \/ ParserStep \/ ParserEof
  <2>1. CASE ParserAppend \/ ParserEof
    BY <2>1 DEF ParserAppend, ParserEof
  <2>2. ASSUME NEW full \in SUBSET BytesClients, ParserPush(full) PROVE SizeInv'
    BY <2>2 DEF ParserPush
  <2>3. CASE ParserRemove
    BY <2>3 DEF ParserRemove
  <2>4. ASSUME NEW c \in Clients, ParserDrop(c) PROVE SizeInv'
    <3>1. CASE c \in attached
      BY <2>4, <3>1, AllIdle DEF ParserDrop
    <3>2. CASE c \notin attached
      BY <2>4, <3>2 DEF ParserDrop
    <3> QED
      BY <3>1, <3>2
  <2>5. CASE ParserDropDone
    BY <2>5, AllIdle DEF ParserDropDone
  <2> QED
    BY <1>7, <2>1, <2>2, <2>3, <2>4, <2>5 DEF ParserStep
<1>8. CASE UNCHANGED vars
  BY <1>8
<1> QED
  BY <1>1, <1>2, <1>3, <1>4, <1>5, <1>6, <1>7, <1>8 DEF Next, Waiter, Procs

\* Nobody is recent yet.
LEMMA InitRecent == Init => RoleInv /\ SizeInv
  BY SessionAssumption
     DEF Init, RoleInv, RecentActive, RecentIsThere, Releasing, RoleTaken, MasterTaken,
         SizeInv, ResizeInProgress, SizeInPlace, Resizing, Procs

\* Between operations nothing is pending, and nobody is about to take the role.
LEMMA SettledRecent == TypeOK /\ RoleInv /\ SizeInv /\ ConnInv => RecentOwnsSize
<1> SUFFICES ASSUME TypeOK, RoleInv, SizeInv, ConnInv, Settled, RecentIsThere
             PROVE  active = recent /\ (~closed => {pty, width, height, screen} = {size[recent]})
  BY DEF RecentOwnsSize, RecentSizeOnPty, RecentIsThere
<1>1. \A c \in Clients : pc[c] \in {"start", "idle", "gone"} /\ ~Pending(c)
  BY DEF Settled, Procs, Pending, Resizing, ConnInv
<1> QED
  BY <1>1 DEF TypeOK, RoleInv, RecentActive, RecentIsThere, SizeInv, SizeInPlace

\* As long as the operations of different clients do not overlap, and no control-plane
\* request resizes the session, the client that attached, focused or typed last is the
\* active one and the PTY has its size, whatever closers, exits and overflows do.
THEOREM RecentHasItsSize ==
    ASSUME Resizers = {}
    PROVE  Spec /\ []OneAtATime => []RecentOwnsSize
<1>1. IInv /\ OneAtATime /\ OneAtATime' /\ RoleInv /\ SizeInv /\ [Next]_vars
        => (RoleInv /\ SizeInv)'
  BY RoleStep, SizeStep
<1>2. IInv /\ RoleInv /\ SizeInv => RecentOwnsSize
  BY SettledRecent DEF IInv
<1> QED
  BY <1>1, <1>2, InitRecent, Inductive, PTL DEF Spec
=============================================================================
