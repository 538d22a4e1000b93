-------------------------- MODULE EventQueue_proofs --------------------------
(***************************************************************************)
(* Proofs about EventQueue, for every capacity, batch size and mode: the   *)
(* safety properties its runs check, from one inductive invariant.         *)
(***************************************************************************)
EXTENDS EventQueue, SequenceTheorems, TLAPS

\* Only a registered client is broadcast to, an overflowed one not again, and
\* a producer keeps attached_clients until it has notified, and who leaves is
\* no longer registered.
LockInv == /\ lock = "broadcast" => registered /\ (overflowed => todo = 0)
           /\ lock # "broadcast" => todo = 0
           /\ notifying => lock # "free"
           /\ leaving => ~registered

\* Frames are numbered up to the newest one.
FramesUpToMade == Mode = "Frame" => /\ seen <= made
                                    /\ \A i \in 1..Len(events) : events[i] <= made

\* The part of the invariant about locks, flags and the writer task ...
ControlInv == LockInv /\ NoLostWakeup /\ NoMissedPermit /\ RegisteredIsOpen

\* ... and the part about what the queue holds.
StreamInv == /\ ExitIsLast /\ Bounded
             /\ BytesInOrder /\ NoSilentLoss
             /\ FramesUpToMade /\ FramesInOrder /\ NewestFrameKept

\* The inductive invariant.
IInv == TypeOK /\ ControlInv /\ StreamInv

-----------------------------------------------------------------------------

\* What SMT does not see by itself about the two shortest sequences.
LEMMA ShortSequences ==
    /\ <<>> \in Seq(Nat) /\ Len(<<>>) = 0
    /\ \A n \in Nat : /\ <<n>> \in Seq(Nat) /\ <<n>> # <<>>
                      /\ Len(<<n>>) = 1 /\ <<n>>[1] = n
  BY EmptySeq

\* What appending does to the elements and the length of a queue.
LEMMA Appended ==
    ASSUME NEW s \in Seq(Nat), NEW n \in Nat
    PROVE  /\ Append(s, n) \in Seq(Nat) /\ Append(s, n) # <<>>
           /\ Len(s) \in Nat /\ Len(Append(s, n)) = Len(s) + 1
           /\ Append(s, n)[Len(s) + 1] = n
           /\ \A i \in 1..Len(s) : Append(s, n)[i] = s[i]
  BY AppendProperties, LenProperties

\* What taking the first element does.
LEMMA Popped ==
    ASSUME NEW s \in Seq(Nat), s # <<>>
    PROVE  /\ Head(s) = s[1] /\ Head(s) \in Nat
           /\ Tail(s) \in Seq(Nat)
           /\ Len(s) \in Nat \ {0} /\ Len(Tail(s)) = Len(s) - 1
           /\ \A i \in 1..(Len(s) - 1) : Tail(s)[i] = s[i + 1]
           /\ Tail(s) = <<>> <=> Len(s) = 1
<1>1. Len(s) \in Nat \ {0} /\ Head(s) \in Nat /\ Tail(s) \in Seq(Nat)
  BY EmptySeq, HeadTailProperties
<1>2. /\ Len(Tail(s)) = Len(s) - 1
      /\ \A i \in 1..(Len(s) - 1) : Tail(s)[i] = s[i + 1]
  BY <1>1
<1>3. Head(s) = s[1]
  OBVIOUS
<1>4. Tail(s) = <<>> <=> Len(s) = 1
  <2>1. Tail(s) = <<>> => Len(Tail(s)) = 0
    BY EmptySeq
  <2>2. Tail(s) # <<>> => Len(Tail(s)) # 0
    BY <1>1, EmptySeq
  <2> QED
    BY <1>1, <1>2, <2>1, <2>2
<1> QED
  BY <1>1, <1>2, <1>3, <1>4

\* The state variables keep their types.
LEMMA TypeStep == TypeOK /\ [Next]_vars => TypeOK'
<1> SUFFICES ASSUME TypeOK, [Next]_vars PROVE TypeOK'
  OBVIOUS
<1> USE QueueAssumption DEF TypeOK
<1>1. ASSUME NEW chunks \in 1..MaxChunks, BeginBroadcast(chunks) PROVE TypeOK'
  BY <1>1 DEF BeginBroadcast, queueVars
<1>2. CASE PushFrame
  <2>1. made + 1 \in Nat /\ <<made + 1>> \in Seq(Nat)
    OBVIOUS
  <2>2. FrameEvents(made + 1) \in Seq(Nat)
    BY <2>1 DEF FrameEvents
  <2> QED
    BY <1>2, <2>1, <2>2 DEF PushFrame, Pushing
<1>3. CASE TryPushOutput
  BY <1>3 DEF TryPushOutput, Pushing
<1>4. CASE Overflow
  BY <1>4 DEF Overflow, MarkOverflowed, queueVars
<1>5. CASE RemoveOverflowed
  BY <1>5 DEF RemoveOverflowed, CloseWhenDrained
<1>6. CASE PushExit
  <2>1. Exit \in Nat /\ <<Exit>> \in Seq(Nat)
    BY ShortSequences DEF Exit
  <2> QED
    <3>1. events' \in Seq(Nat)
      BY <1>6, <2>1, Appended DEF PushExit
    <3>2. pendingExit' \in BOOLEAN
      BY <1>6 DEF PushExit, KeepExitPending
    <3> QED
      BY <1>6, <3>1, <3>2 DEF PushExit, Drain
<1>7. CASE Notify
  BY <1>7 DEF Notify, NotifyOne, queueVars, senderVars
<1>8. CASE Release
  BY <1>8 DEF Release, queueVars
<1>9. CASE RecvEvent
  BY <1>9 DEF RecvEvent, senderVars, Exit
<1>10. CASE RecvPendingExit \/ RecvClosed \/ RecvNothing \/ AwaitNotified
  BY <1>10 DEF RecvPendingExit, RecvClosed, RecvNothing, AwaitNotified,
               TakePendingExit, queueVars, senderVars
<1>11. CASE Written \/ WriteFailed \/ AbortWriter
  BY <1>11 DEF Written, WriteFailed, AbortWriter, queueVars, senderVars
<1>12. CASE Deregister
  BY <1>12 DEF Deregister, queueVars
<1>13. CASE UNCHANGED vars
  BY <1>13 DEF vars
<1> QED
  BY <1>1, <1>2, <1>3, <1>4, <1>5, <1>6, <1>7, <1>8, <1>9, <1>10, <1>11,
     <1>12, <1>13 DEF Next, Produce, Recv

\* TypeOK is an invariant.
THEOREM TypeCorrect == Spec => []TypeOK
<1>1. Init => TypeOK
  <2> SUFFICES ASSUME Init PROVE TypeOK
    OBVIOUS
  <2>1. events \in Seq(Nat)
    BY ShortSequences DEF Init
  <2> QED
    BY <2>1 DEF Init, TypeOK
<1> QED
  BY <1>1, TypeStep, PTL DEF Spec

-----------------------------------------------------------------------------

\* The control part is inductive relative to the types.
LEMMA ControlStep == TypeOK /\ ControlInv /\ [Next]_vars => ControlInv'
<1> SUFFICES ASSUME TypeOK, ControlInv, [Next]_vars PROVE ControlInv'
  OBVIOUS
<1> USE DEF ControlInv, LockInv, NoLostWakeup, NoMissedPermit, RegisteredIsOpen, Ready
<1>1. ASSUME NEW chunks \in 1..MaxChunks, BeginBroadcast(chunks) PROVE ControlInv'
  BY <1>1 DEF BeginBroadcast, queueVars
<1>2. CASE PushFrame
  BY <1>2 DEF PushFrame, Pushing
<1>3. CASE TryPushOutput
  BY <1>3 DEF TryPushOutput, Pushing, TypeOK
<1>4. CASE Overflow
  BY <1>4 DEF Overflow, Pushing, MarkOverflowed, queueVars
<1>5. CASE RemoveOverflowed
  BY <1>5 DEF RemoveOverflowed, CloseWhenDrained
<1>6. CASE PushExit
  BY <1>6 DEF PushExit, Drain, KeepExitPending
<1>7. CASE Notify
  BY <1>7 DEF Notify, NotifyOne, queueVars, senderVars
<1>8. CASE Release
  BY <1>8 DEF Release, queueVars
<1>9. CASE RecvEvent
  BY <1>9 DEF RecvEvent, senderVars
<1>10. CASE RecvPendingExit \/ RecvClosed \/ RecvNothing
  BY <1>10 DEF RecvPendingExit, RecvClosed, RecvNothing, TakePendingExit,
               queueVars, senderVars
<1>11. CASE AwaitNotified
  BY <1>11 DEF AwaitNotified, queueVars, senderVars
<1>12. CASE Written \/ WriteFailed \/ AbortWriter
  BY <1>12 DEF Written, WriteFailed, AbortWriter, queueVars, senderVars
<1>13. CASE Deregister
  BY <1>13 DEF Deregister, queueVars
<1>14. CASE UNCHANGED vars
  BY <1>14 DEF vars
<1> QED
  BY <1>1, <1>2, <1>3, <1>4, <1>5, <1>6, <1>7, <1>8, <1>9, <1>10, <1>11,
     <1>12, <1>13, <1>14 DEF Next, Produce, Recv

\* A step that leaves the queue and the counters alone, and neither registers
\* a client, nor reopens a queue, nor forgets an overflow of a registered
\* client, keeps the stream part.
LEMMA StreamKept ==
    ASSUME StreamInv, UNCHANGED <<events, pendingExit, seen, made>>,
           registered' => registered, closed => closed',
           registered' => (overflowed => overflowed'),
           rx' = "exit" => rx = "exit"
    PROVE  StreamInv'
  BY DEF StreamInv, ExitIsLast, Bounded, BytesInOrder, NoSilentLoss,
         FramesUpToMade, FramesInOrder, NewestFrameKept, Latest

\* A bytes queue that is registered and has not overflowed holds exactly the
\* chunks between seen and made.
LEMMA BytesContiguous ==
    ASSUME IInv, Mode = "Bytes", registered, ~overflowed
    PROVE  made = seen + Len(events)
<1> USE DEF IInv, ControlInv, StreamInv
<1>1. CASE events = <<>>
  BY <1>1, ShortSequences DEF TypeOK, NoSilentLoss, Latest
<1>2. CASE events # <<>>
  <2>1. Len(events) \in Nat \ {0}
    BY <1>2, Popped DEF TypeOK
  <2>2. events[Len(events)] # Exit
    BY <2>1 DEF RegisteredIsOpen, ExitIsLast
  <2>3. events[Len(events)] = seen + Len(events)
    BY <2>1, <2>2 DEF BytesInOrder
  <2> QED
    BY <1>2, <2>3 DEF NoSilentLoss, Latest
<1> QED
  BY <1>1, <1>2

\* An accepted chunk continues the stream.
LEMMA StreamTryPushOutput == IInv /\ TryPushOutput => StreamInv'
<1> SUFFICES ASSUME IInv, TryPushOutput PROVE StreamInv'
  OBVIOUS
<1>1. /\ Mode = "Bytes" /\ registered /\ ~overflowed /\ ~closed /\ ~pendingExit
      /\ events' = Append(events, made + 1) /\ made' = made + 1 /\ ~Full
      /\ UNCHANGED <<seen, rx, closed, pendingExit, registered, overflowed>>
  BY DEF IInv, ControlInv, LockInv, RegisteredIsOpen, TryPushOutput, Pushing, TypeOK
<1>2. made = seen + Len(events) /\ made \in Nat /\ seen \in Nat
  BY <1>1, BytesContiguous DEF IInv, TypeOK
<1>3. /\ Len(events) \in Nat /\ Len(events') = Len(events) + 1
      /\ events' # <<>>
      /\ events'[Len(events) + 1] = made + 1
      /\ \A i \in 1..Len(events) : events'[i] = events[i]
  BY <1>1, <1>2, Appended DEF IInv, TypeOK
<1>4. \A i \in 1..Len(events) : events[i] # Exit
  BY <1>1 DEF IInv, StreamInv, ExitIsLast
<1>5. ExitIsLast'
  <2>1. \A i \in 1..Len(events') : events'[i] # Exit
    BY <1>2, <1>3, <1>4 DEF Exit
  <2>2. rx # "exit"
    BY <1>1 DEF IInv, StreamInv, ExitIsLast
  <2> QED
    BY <1>1, <2>1, <2>2 DEF ExitIsLast
<1>6. Bounded'
  BY <1>1, <1>3, QueueAssumption DEF Bounded, Full
<1>7. BytesInOrder'
  <2>1. \A i \in 1..Len(events) : events[i] = seen + i
    BY <1>1, <1>4 DEF IInv, StreamInv, BytesInOrder
  <2>2. \A i \in 1..Len(events') : events'[i] = seen + i
    BY <1>2, <1>3, <2>1
  <2> QED
    BY <1>1, <2>2 DEF BytesInOrder
<1>8. NoSilentLoss'
  BY <1>1, <1>2, <1>3 DEF NoSilentLoss, Latest
<1> QED
  BY <1>1, <1>5, <1>6, <1>7, <1>8
  DEF StreamInv, FramesUpToMade, FramesInOrder, NewestFrameKept

\* A frame queue that is open ends with the newest frame.
LEMMA StreamPushFrame == IInv /\ PushFrame => StreamInv'
<1> SUFFICES ASSUME IInv, PushFrame PROVE StreamInv'
  OBVIOUS
<1>1. /\ Mode = "Frame" /\ registered /\ ~closed /\ ~pendingExit
      /\ events' = FrameEvents(made + 1) /\ made' = made + 1
      /\ UNCHANGED <<seen, rx, closed, pendingExit, registered, overflowed>>
  BY DEF IInv, ControlInv, LockInv, RegisteredIsOpen, PushFrame, Pushing, TypeOK
<1>2. made \in Nat /\ seen \in Nat /\ seen <= made /\ rx # "exit"
  BY <1>1 DEF IInv, TypeOK, StreamInv, FramesUpToMade, ExitIsLast
<1>3. \A i \in 1..Len(events) : /\ events[i] # Exit
                              /\ seen < events[i] /\ events[i] <= made
                              /\ \A j \in 1..(i - 1) : events[j] < events[i]
  BY <1>1 DEF IInv, StreamInv, ExitIsLast, FramesUpToMade, FramesInOrder
<1>4. \A i \in 1..Len(events) : events[i] \in Nat
  BY ElementOfSeq DEF IInv, TypeOK
<1>5. Len(events) \in Nat
  BY LenProperties DEF IInv, TypeOK
<1>6. /\ Len(events') \in Nat /\ events' # <<>>
      /\ events'[Len(events')] = made + 1
      /\ Len(events') <= Capacity
      /\ \A i \in 1..Len(events') : /\ seen < events'[i] /\ events'[i] <= made + 1
                                  /\ \A j \in 1..(i - 1) : events'[j] < events'[i]
  <2>1. CASE Full
    <3>1. events' = <<made + 1>> /\ made + 1 \in Nat
      BY <1>1, <1>2, <2>1 DEF FrameEvents
    <3>2. Len(events') = 1 /\ events' # <<>> /\ events'[1] = made + 1
      BY <3>1, ShortSequences
    <3> QED
      BY <3>2, <1>2, QueueAssumption
  <2>2. CASE ~Full
    <3>1. events' = Append(events, made + 1) /\ made + 1 \in Nat
      BY <1>1, <1>2, <2>2 DEF FrameEvents
    <3>2. /\ events' # <<>> /\ Len(events') = Len(events) + 1
          /\ events'[Len(events) + 1] = made + 1
          /\ \A i \in 1..Len(events) : events'[i] = events[i]
      BY <3>1, Appended DEF IInv, TypeOK
    <3>3. Len(events') <= Capacity
      BY <3>2, <2>2, <1>5, QueueAssumption DEF Full
    <3>4. ASSUME NEW i \in 1..Len(events')
          PROVE  /\ seen < events'[i] /\ events'[i] <= made + 1
                 /\ \A j \in 1..(i - 1) : events'[j] < events'[i]
      <4>1. CASE i = Len(events) + 1
        BY <4>1, <3>2, <1>2, <1>3, <1>4, <1>5
      <4>2. CASE i \in 1..Len(events)
        BY <4>2, <3>2, <1>2, <1>3, <1>4, <1>5
      <4> QED
        BY <4>1, <4>2, <3>2, <1>5
    <3> QED
      BY <3>2, <3>3, <3>4, <1>5
  <2> QED
    BY <2>1, <2>2
<1>7. ExitIsLast'
  BY <1>1, <1>2, <1>6 DEF ExitIsLast, Exit
<1>8. Bounded' /\ FramesUpToMade' /\ FramesInOrder'
  BY <1>1, <1>2, <1>6 DEF Bounded, FramesUpToMade, FramesInOrder
<1>9. NewestFrameKept'
  BY <1>1, <1>6 DEF NewestFrameKept, Latest
<1> QED
  BY <1>1, <1>7, <1>8, <1>9 DEF StreamInv, BytesInOrder, NoSilentLoss

\* The exit is put behind the waiting bytes, in place of the waiting frames, or
\* kept pending; the queue is closed with it.
LEMMA StreamPushExit == IInv /\ PushExit => StreamInv'
<1> SUFFICES ASSUME IInv, PushExit PROVE StreamInv'
  OBVIOUS
<1>1. /\ registered /\ ~registered' /\ ~closed /\ closed' /\ ~pendingExit
      /\ UNCHANGED <<seen, rx, made, overflowed>>
  BY DEF IInv, ControlInv, RegisteredIsOpen, PushExit, Drain
<1>2. /\ Len(events) \in Nat /\ Len(events) <= Capacity /\ rx # "exit"
      /\ \A i \in 1..Len(events) : events[i] # Exit
  BY <1>1, LenProperties DEF IInv, TypeOK, StreamInv, ExitIsLast, Bounded
<1>3. CASE Mode = "Frame"
  <2>1. events' = <<Exit>> /\ pendingExit' = FALSE
    BY <1>3, <1>1 DEF PushExit
  <2>2. Len(events') = 1 /\ events'[1] = Exit
    BY <2>1, ShortSequences DEF Exit
  <2>3. ExitIsLast' /\ Bounded' /\ FramesInOrder'
    BY <1>1, <1>2, <2>1, <2>2, QueueAssumption DEF ExitIsLast, Bounded, FramesInOrder
  <2>4. FramesUpToMade'
    BY <1>1, <1>3, <2>2 DEF FramesUpToMade, IInv, TypeOK, StreamInv, Exit
  <2> QED
    BY <1>1, <1>3, <2>3, <2>4
    DEF StreamInv, BytesInOrder, NoSilentLoss, NewestFrameKept
<1>4. CASE Mode = "Bytes" /\ ~Full
  <2>1. events' = Append(events, Exit) /\ ~pendingExit'
    BY <1>1, <1>4 DEF PushExit
  <2>2. /\ Len(events') = Len(events) + 1 /\ events'[Len(events) + 1] = Exit
        /\ \A i \in 1..Len(events) : events'[i] = events[i]
    BY <2>1, Appended DEF Exit, IInv, TypeOK
  <2>3. ExitIsLast' /\ Bounded'
    BY <1>1, <1>2, <1>4, <2>1, <2>2, QueueAssumption DEF ExitIsLast, Bounded, Full
  <2>4. BytesInOrder'
    BY <1>1, <1>2, <2>2 DEF BytesInOrder, IInv, StreamInv
  <2> QED
    BY <1>1, <1>4, <2>3, <2>4
    DEF StreamInv, NoSilentLoss, FramesUpToMade, FramesInOrder, NewestFrameKept
<1>5. CASE Mode = "Bytes" /\ Full
  <2>1. UNCHANGED events
    BY <1>1, <1>5 DEF PushExit
  <2> QED
    BY <1>1, <1>2, <1>5, <2>1
    DEF StreamInv, ExitIsLast, Bounded, BytesInOrder, NoSilentLoss,
        FramesUpToMade, FramesInOrder, NewestFrameKept, IInv
<1> QED
  BY <1>3, <1>4, <1>5, QueueAssumption

\* recv() takes the oldest event.
LEMMA StreamRecvEvent == IInv /\ RecvEvent => StreamInv'
<1> SUFFICES ASSUME IInv, RecvEvent PROVE StreamInv'
  OBVIOUS
<1>1. /\ events # <<>> /\ events' = Tail(events) /\ rx = "check"
      /\ UNCHANGED <<pendingExit, closed, registered, overflowed, made>>
  BY DEF RecvEvent, senderVars
<1>2. /\ Head(events) = events[1] /\ events[1] \in Nat
      /\ Len(events) \in Nat \ {0} /\ Len(events') = Len(events) - 1
      /\ \A i \in 1..(Len(events) - 1) : events'[i] = events[i + 1]
      /\ events' = <<>> <=> Len(events) = 1
  BY <1>1, Popped DEF IInv, TypeOK
<1>3. seen \in Nat /\ made \in Nat
  BY DEF IInv, TypeOK
<1> DEFINE n == Len(events)
<1>4. Len(events') = n - 1 /\ 1 \in 1..n /\ \A i \in 1..(n - 1) : i + 1 \in 1..n
  BY <1>2
<1>5. CASE Head(events) = Exit
  <2>1. n = 1 /\ events' = <<>> /\ closed /\ ~pendingExit
    BY <1>2, <1>4, <1>5 DEF IInv, StreamInv, ExitIsLast
  <2>2. Len(events') = 0 /\ UNCHANGED seen
    BY <1>2, <1>5, <2>1 DEF RecvEvent
  <2>3. ~registered
    BY <2>1 DEF IInv, ControlInv, RegisteredIsOpen
  <2> QED
    BY <1>1, <1>3, <2>1, <2>2, <2>3, QueueAssumption
    DEF StreamInv, ExitIsLast, Bounded, BytesInOrder, NoSilentLoss,
        FramesUpToMade, FramesInOrder, NewestFrameKept, IInv
<1>6. CASE Head(events) # Exit
  <2>1. seen' = events[1] /\ rx' = "write"
    BY <1>2, <1>6 DEF RecvEvent
  <2>2. ExitIsLast' /\ Bounded'
    <3>1. \A i \in 1..n : events[i] = Exit => closed /\ ~pendingExit /\ i = n
      BY DEF IInv, StreamInv, ExitIsLast
    <3>2. \A i \in 1..(n - 1) : events'[i] = Exit => closed /\ ~pendingExit /\ i = n - 1
      BY <3>1, <1>2, <1>4
    <3>3. pendingExit => closed
      BY DEF IInv, StreamInv, ExitIsLast
    <3>4. ExitIsLast'
      BY <3>2, <3>3, <1>1, <1>4, <2>1 DEF ExitIsLast
    <3> QED
      BY <3>4, <1>2, <1>4, QueueAssumption DEF Bounded, IInv, StreamInv
  <2>3. Latest' = Latest
    <3>1. CASE n = 1
      BY <3>1, <1>1, <1>2, <2>1 DEF Latest
    <3>2. CASE n # 1
      <4>1. n - 1 \in 1..(n - 1)
        BY <3>2, <1>2
      <4>2. events'[n - 1] = events[n]
        BY <4>1, <1>2
      <4> QED
        BY <4>2, <3>2, <1>1, <1>2, <1>4 DEF Latest
    <3> QED
      BY <3>1, <3>2
  <2>4. BytesInOrder'
    <3>1. SUFFICES ASSUME Mode = "Bytes", NEW i \in 1..(n - 1)
                   PROVE  \/ events'[i] = seen' + i
                          \/ events'[i] = Exit /\ i = n - 1
      BY <1>4 DEF BytesInOrder
    <3>2. seen' = seen + 1
      BY <1>2, <1>4, <1>6, <2>1, <3>1 DEF IInv, StreamInv, BytesInOrder
    <3>3. \/ events[i + 1] = seen + (i + 1)
          \/ events[i + 1] = Exit /\ i + 1 = n
      BY <1>4, <3>1 DEF IInv, StreamInv, BytesInOrder
    <3> QED
      BY <3>2, <3>3, <1>2, <1>3
  <2>5. FramesInOrder'
    <3>1. SUFFICES ASSUME Mode = "Frame", NEW i \in 1..(n - 1)
                   PROVE  \/ /\ events'[i] > seen'
                             /\ \A j \in 1..(i - 1) : events'[j] < events'[i]
                          \/ events'[i] = Exit /\ n - 1 = 1
      BY <1>4 DEF FramesInOrder
    <3>2. /\ events[i + 1] > seen
          /\ \A j \in 1..((i + 1) - 1) : events[j] < events[i + 1]
      BY <1>2, <1>4, <3>1 DEF IInv, StreamInv, FramesInOrder
    <3>3. events[1] < events[i + 1]
      BY <3>2
    <3>4. \A j \in 1..(i - 1) : events'[j] = events[j + 1] /\ j + 1 \in 1..((i + 1) - 1)
      BY <1>2
    <3>5. events[i + 1] \in Nat
      BY <1>4, ElementOfSeq DEF IInv, TypeOK
    <3> QED
      BY <3>2, <3>3, <3>4, <3>5, <1>2, <2>1
  <2>6. FramesUpToMade'
    BY <1>1, <1>2, <1>4, <2>1 DEF FramesUpToMade, IInv, StreamInv
  <2> QED
    BY <1>1, <2>2, <2>3, <2>4, <2>5, <2>6
    DEF StreamInv, NoSilentLoss, NewestFrameKept, IInv
<1> QED
  BY <1>5, <1>6

\* The stream part is inductive.
LEMMA StreamStep == IInv /\ [Next]_vars => StreamInv'
<1> SUFFICES ASSUME IInv, [Next]_vars PROVE StreamInv'
  OBVIOUS
<1> USE DEF IInv
<1>1. ASSUME NEW chunks \in 1..MaxChunks, BeginBroadcast(chunks) PROVE StreamInv'
  BY <1>1, StreamKept DEF BeginBroadcast, queueVars
<1>2. CASE PushFrame
  BY <1>2, StreamPushFrame
<1>3. CASE TryPushOutput
  BY <1>3, StreamTryPushOutput
<1>4. CASE Overflow
  BY <1>4 DEF Overflow, MarkOverflowed, queueVars, StreamInv, ExitIsLast, Bounded,
              BytesInOrder, NoSilentLoss, FramesUpToMade, FramesInOrder, NewestFrameKept
<1>5. CASE RemoveOverflowed
  BY <1>5, StreamKept DEF RemoveOverflowed, CloseWhenDrained
<1>6. CASE PushExit
  BY <1>6, StreamPushExit
<1>7. CASE Notify
  BY <1>7, StreamKept DEF Notify, NotifyOne, queueVars, senderVars
<1>8. CASE Release
  BY <1>8, StreamKept DEF Release, queueVars
<1>9. CASE RecvEvent
  BY <1>9, StreamRecvEvent
<1>10. CASE RecvPendingExit
  BY <1>10, ShortSequences
  DEF RecvPendingExit, TakePendingExit, senderVars, StreamInv, ExitIsLast, Bounded,
      BytesInOrder, NoSilentLoss, FramesUpToMade, FramesInOrder, NewestFrameKept, Latest
<1>11. CASE RecvClosed \/ RecvNothing \/ AwaitNotified \/ Written \/ WriteFailed \/ AbortWriter
  BY <1>11, StreamKept
  DEF RecvClosed, RecvNothing, AwaitNotified, Written, WriteFailed, AbortWriter,
      queueVars, senderVars
<1>12. CASE Deregister
  BY <1>12, StreamKept DEF Deregister, queueVars
<1>13. CASE UNCHANGED vars
  BY <1>13, StreamKept DEF vars
<1> QED
  BY <1>1, <1>2, <1>3, <1>4, <1>5, <1>6, <1>7, <1>8, <1>9, <1>10, <1>11,
     <1>12, <1>13 DEF Next, Produce, Recv

\* The inductive invariant holds in every behaviour.
THEOREM Invariance == Spec => []IInv
<1>1. Init => IInv
  <2> SUFFICES ASSUME Init PROVE IInv
    OBVIOUS
  <2>1. TypeOK
    <3>1. events \in Seq(Nat)
      BY ShortSequences DEF Init
    <3> QED
      BY <3>1 DEF Init, TypeOK
  <2>2. ControlInv
    BY DEF Init, ControlInv, LockInv, NoLostWakeup, NoMissedPermit, RegisteredIsOpen
  <2>3. StreamInv
    BY ShortSequences, QueueAssumption
    DEF Init, StreamInv, ExitIsLast, Bounded, BytesInOrder, NoSilentLoss,
        FramesUpToMade, FramesInOrder, NewestFrameKept, Latest
  <2> QED
    BY <2>1, <2>2, <2>3 DEF IInv
<1>2. IInv /\ [Next]_vars => IInv'
  BY TypeStep, ControlStep, StreamStep DEF IInv
<1> QED
  BY <1>1, <1>2, PTL DEF Spec

-----------------------------------------------------------------------------
(* The properties the runs check.                                          *)

\* The writer task never sleeps through an event: while it is parked and
\* recv() has something to return, the notify_one() of a push is still to come.
THEOREM WakeupNotLost == Spec => []NoLostWakeup
<1>1. IInv => NoLostWakeup
  BY DEF IInv, ControlInv
<1> QED
  BY <1>1, Invariance, PTL

\* A bytes client gets the chunks in order and without a gap.
THEOREM BytesStreamExact == Spec => []BytesInOrder
<1>1. IInv => BytesInOrder
  BY DEF IInv, StreamInv
<1> QED
  BY <1>1, Invariance, PTL

\* A bytes client that is still registered and not marked overflowed was handed
\* every chunk: what a full queue drops costs it the attachment, never bytes it
\* would not know of.
THEOREM LossIsNeverSilent == Spec => []NoSilentLoss
<1>1. IInv => NoSilentLoss
  BY DEF IInv, StreamInv
<1> QED
  BY <1>1, Invariance, PTL

\* A frame client sees frames in order, and the newest one is never dropped.
THEOREM FramesConverge == Spec => [](FramesInOrder /\ NewestFrameKept)
<1>1. IInv => FramesInOrder /\ NewestFrameKept
  BY DEF IInv, StreamInv
<1> QED
  BY <1>1, Invariance, PTL

\* The exit ends the stream; a registered client's queue is open and bounded.
THEOREM ExitEndsStream == Spec => [](ExitIsLast /\ RegisteredIsOpen /\ Bounded)
<1>1. IInv => ExitIsLast /\ RegisteredIsOpen /\ Bounded
  BY DEF IInv, StreamInv, ControlInv
<1> QED
  BY <1>1, Invariance, PTL

\* A closed queue only shrinks, from the front.
THEOREM ClosedOnlyDrains == Spec => NothingAfterClose
<1> DEFINE Drains == closed => events' = events \/ (events # <<>> /\ events' = Tail(events))
<1>1. IInv /\ [Next]_vars => [Drains]_vars
  <2> SUFFICES ASSUME IInv, Next, closed PROVE Drains
    OBVIOUS
  <2>1. ~registered /\ lock # "broadcast"
    BY DEF IInv, ControlInv, RegisteredIsOpen, LockInv
  <2>2. CASE RecvEvent
    BY <2>2 DEF RecvEvent
  <2>3. CASE ~RecvEvent
    BY <2>1, <2>3
    DEF Next, Produce, Recv, BeginBroadcast, PushFrame, TryPushOutput, Overflow,
        RemoveOverflowed, PushExit, Notify, Release, RecvPendingExit, RecvClosed,
        RecvNothing, AwaitNotified, Written, WriteFailed, Deregister, AbortWriter,
        Pushing, queueVars, senderVars
  <2> QED
    BY <2>2, <2>3
<1>2. Spec => [][Drains]_vars
  BY <1>1, Invariance, PTL DEF Spec
<1> QED
  BY <1>2 DEF NothingAfterClose

-----------------------------------------------------------------------------
(* EventQueue implements ClientStream (its safety part).                   *)

\* The refinement mapping, named.
Backlog == IF pendingExit THEN Append(events, Exit) ELSE events
Over == rx \in {"exit", "done", "aborted"}

\* Taking the first of a queue's events and appending an exit commute.
LEMMA TailAppend ==
    ASSUME NEW s \in Seq(Nat), s # <<>>, NEW n \in Nat
    PROVE  Tail(Append(s, n)) = Append(Tail(s), n) /\ Head(Append(s, n)) = Head(s)
  BY HeadTailAppend

\* What a step does to the phase depends on the senders' three flags alone.
LEMMA PhaseKept ==
    ASSUME UNCHANGED <<leaving, registered, overflowed>> PROVE Phase' = Phase
  BY DEF Phase

\* The phases told apart.
LEMMA Phases ==
    ASSUME IInv
    PROVE  /\ registered => ~leaving
           /\ leaving => Phase = "left"
           /\ ~leaving /\ ~registered => Phase = "ended"
           /\ registered /\ overflowed => Phase = "lossy"
           /\ registered /\ ~overflowed => Phase = "open"
  BY DEF Phase, IInv, ControlInv, LockInv, TypeOK

\* Taking an event is a step of the stream.
LEMMA TakeStep == IInv /\ (RecvEvent \/ RecvPendingExit) => Stream!Take
<1> SUFFICES ASSUME IInv, RecvEvent \/ RecvPendingExit PROVE Stream!Take
  OBVIOUS
<1>1. CASE RecvEvent
  <2>1. /\ rx = "check" /\ events # <<>> /\ events' = Tail(events)
        /\ UNCHANGED <<pendingExit, Phase, made>>
        /\ events \in Seq(Nat)
    BY <1>1, PhaseKept DEF RecvEvent, senderVars, IInv, TypeOK
  <2>2. Backlog # <<>> /\ Head(Backlog) = Head(events) /\ Backlog' = Tail(Backlog)
    BY <2>1, TailAppend, Appended DEF Backlog, Exit
  <2>3. IF Head(events) = 0 THEN Over' /\ UNCHANGED seen
                            ELSE seen' = Head(events) /\ ~Over'
    BY <1>1 DEF RecvEvent, Over, Exit
  <2> QED
    BY <2>1, <2>2, <2>3 DEF Stream!Take, Backlog, Over
<1>2. CASE RecvPendingExit
  <2>1. /\ rx = "check" /\ rx' = "exit" /\ events = <<>> /\ pendingExit /\ ~pendingExit'
        /\ UNCHANGED <<events, Phase, made, seen>>
    BY <1>2, PhaseKept DEF RecvPendingExit, TakePendingExit, senderVars
  <2>2. <<Exit>> # <<>> /\ Head(<<Exit>>) = 0 /\ Tail(<<Exit>>) = <<>>
    BY DEF Exit
  <2>3. Backlog = <<Exit>> /\ Backlog' = <<>>
    BY <2>1 DEF Backlog
  <2> QED
    BY <2>1, <2>2, <2>3 DEF Stream!Take, Backlog, Over
<1> QED
  BY <1>1, <1>2

\* Pushing the exit is a step of the stream, whether or not there is room.
LEMMA FinishStep == IInv /\ PushExit => Stream!Finish
<1> SUFFICES ASSUME IInv, PushExit PROVE Stream!Finish
  OBVIOUS
<1>1. /\ registered /\ ~registered' /\ ~closed /\ ~pendingExit
      /\ UNCHANGED <<seen, rx, made, leaving>>
  BY DEF IInv, ControlInv, RegisteredIsOpen, PushExit, Drain
<1>2. Backlog = events
  BY <1>1 DEF Backlog
<1>3. Backlog' = IF Mode = "Frame" THEN <<0>> ELSE Append(events, 0)
  <2>1. CASE Mode = "Frame"
    <3>1. events' = <<0>> /\ ~pendingExit'
      BY <2>1 DEF PushExit, Exit
    <3> QED
      BY <2>1, <3>1 DEF Backlog
  <2>2. CASE Mode = "Bytes" /\ ~Full
    <3>1. events' = Append(events, 0) /\ ~pendingExit'
      BY <1>1, <2>2 DEF PushExit, Exit
    <3> QED
      BY <2>2, <3>1 DEF Backlog
  <2>3. CASE Mode = "Bytes" /\ Full
    <3>1. events' = events /\ pendingExit'
      BY <1>1, <2>3 DEF PushExit, KeepExitPending
    <3> QED
      BY <2>3, <3>1 DEF Backlog, Exit
  <2> QED
    BY <2>1, <2>2, <2>3, QueueAssumption
<1>4. Over' = Over
  BY <1>1 DEF Over
<1>5. Phase \in {"open", "lossy"} /\ Phase' = "ended"
  <2>1. ~leaving /\ overflowed \in BOOLEAN
    BY <1>1, Phases DEF IInv, TypeOK
  <2> QED
    BY <2>1, <1>1, Phases DEF Phase
<1> QED
  BY <1>1, <1>2, <1>3, <1>4, <1>5 DEF Stream!Finish, Backlog, Over

\* Every step of the queue is a step of the stream, or changes nothing of it.
LEMMA StreamRefined == IInv /\ [Next]_vars => [Stream!Next]_(Stream!vars)
<1> SUFFICES ASSUME IInv, [Next]_vars PROVE [Stream!Next]_(Stream!vars)
  OBVIOUS
<1> USE DEF IInv, Stream!Next, Stream!vars
<1>1. ASSUME NEW chunks \in 1..MaxChunks, BeginBroadcast(chunks)
      PROVE  UNCHANGED Stream!vars
  BY <1>1, PhaseKept DEF BeginBroadcast, queueVars
<1>2. CASE PushFrame
  <2>0. Phase = "open" /\ Phase' = "open"
    BY <1>2, Phases, PhaseKept DEF ControlInv, LockInv, PushFrame, Pushing, TypeOK
  <2>1. /\ Mode = "Frame" /\ ~pendingExit
        /\ events' = FrameEvents(made + 1) /\ made' = made + 1
        /\ UNCHANGED <<seen, rx, pendingExit, Phase>>
    BY <1>2, <2>0 DEF ControlInv, LockInv, RegisteredIsOpen, PushFrame, Pushing, TypeOK
  <2>2. CASE Full
    BY <2>0, <2>1, <2>2 DEF Stream!Supersede, FrameEvents
  <2>3. CASE ~Full
    BY <2>0, <2>1, <2>3, LenProperties, QueueAssumption
    DEF Stream!Offer, FrameEvents, Full, TypeOK
  <2> QED
    BY <2>2, <2>3
<1>3. CASE TryPushOutput
  <2>1. Phase = "open" /\ Phase' = "open" /\ ~pendingExit
    BY <1>3, Phases, PhaseKept
    DEF ControlInv, LockInv, RegisteredIsOpen, TryPushOutput, Pushing, TypeOK
  <2> QED
    BY <1>3, <2>1, LenProperties, QueueAssumption
    DEF TryPushOutput, Full, Stream!Offer, TypeOK
<1>4. CASE Overflow
  <2>0. Phase = "open" /\ Phase' = "lossy"
    <3>1. registered /\ ~overflowed /\ overflowed' = TRUE /\ UNCHANGED <<leaving, registered>>
      BY <1>4 DEF ControlInv, LockInv, Overflow, MarkOverflowed, Pushing, TypeOK
    <3> QED
      BY <3>1, Phases DEF Phase
  <2>1. /\ Mode = "Bytes" /\ ~closed /\ ~pendingExit /\ Full /\ Len(events) <= Capacity
        /\ todo > 0 /\ made' = made + todo
        /\ UNCHANGED <<events, pendingExit, seen, rx>>
    BY <1>4 DEF ControlInv, LockInv, RegisteredIsOpen, StreamInv, Bounded,
                Overflow, Pushing, queueVars
  <2>2. Len(events) = Capacity /\ made' > made
    BY <2>1, LenProperties, QueueAssumption DEF Full, TypeOK
  <2> QED
    BY <2>0, <2>1, <2>2 DEF Stream!Lose
<1>5. CASE RemoveOverflowed
  <2>1. CASE registered
    <3>1. Phase = "lossy" /\ Phase' = "ended"
      <4>1. overflowed /\ ~leaving /\ ~registered' /\ UNCHANGED leaving
        BY <1>5, <2>1, Phases DEF RemoveOverflowed
      <4> QED
        BY <2>1, <4>1, Phases DEF Phase
    <3> QED
      BY <1>5, <2>1, <3>1 DEF RemoveOverflowed, Stream!Cut
  <2>2. CASE ~registered
    <3>1. UNCHANGED Phase
      BY <1>5, <2>2 DEF RemoveOverflowed, Phase
    <3> QED
      BY <1>5, <2>2, <3>1 DEF RemoveOverflowed
  <2> QED
    BY <2>1, <2>2
<1>6. CASE PushExit
  BY <1>6, FinishStep
<1>7. CASE Notify
  BY <1>7, PhaseKept DEF Notify, NotifyOne, queueVars, senderVars
<1>8. CASE Release \/ RecvNothing \/ AwaitNotified
  BY <1>8, PhaseKept DEF Release, RecvNothing, AwaitNotified, queueVars, senderVars
<1>9. CASE RecvEvent \/ RecvPendingExit
  BY <1>9, TakeStep
<1>10. CASE RecvClosed \/ Written \/ WriteFailed \/ AbortWriter
  BY <1>10, PhaseKept DEF RecvClosed, Written, WriteFailed, AbortWriter, queueVars, senderVars,
               Stream!Stop, TypeOK
<1>11. CASE Deregister
  <2>1. Phase # "left" /\ Phase' = "left"
    BY <1>11 DEF Deregister, Phase, TypeOK
  <2> QED
    BY <1>11, <2>1 DEF Deregister, queueVars, Stream!Leave
<1>12. CASE UNCHANGED vars
  BY <1>12, PhaseKept DEF vars
<1> QED
  BY <1>1, <1>2, <1>3, <1>4, <1>5, <1>6, <1>7, <1>8, <1>9, <1>10, <1>11, <1>12
  DEF Next, Produce, Recv

\* The queue implements the stream promised to a client, for every capacity.
THEOREM ImplementsStream == Spec => Stream!Init /\ [][Stream!Next]_(Stream!vars)
<1>1. Init => Stream!Init
  BY DEF Init, Stream!Init, Phase
<1> QED
  BY <1>1, Invariance, StreamRefined, PTL DEF Spec

=============================================================================
