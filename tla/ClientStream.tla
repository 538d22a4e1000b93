---------------------------- MODULE ClientStream ----------------------------
(***************************************************************************)
(* What the daemon promises one attached client: a stream of numbered      *)
(* events (output chunks, or screen frames) that ends either with an exit  *)
(* event or, when the client was too slow, without one.                    *)
(*                                                                         *)
(* This is the abstract specification of SessionEventQueue.  It knows      *)
(* nothing of the mutex, the closed flag, the pending_exit slot or the     *)
(* Notify permit: EventQueue shows that those implement it.                *)
(***************************************************************************)
EXTENDS Naturals, Sequences

CONSTANTS Mode,      \* the client's attach mode, "Frame" or "Bytes"
          Capacity   \* how many data events may wait for the client

VARIABLES backlog,   \* what waits for the client: data numbers, 0 is the exit
          phase,     \* "open": the session sends, "lossy": and a datum was lost,
                     \* "ended": it sends no more, "left": the client is gone
          newest,    \* the number of the newest datum offered
          seen,      \* the number of the newest datum the client was given
          over       \* the client's stream has ended

vars == <<backlog, phase, newest, seen, over>>

Init == /\ backlog = <<>>
        /\ phase = "open"
        /\ newest = 0
        /\ seen = 0
        /\ over = FALSE

\* The next datum joins the backlog.
Offer == /\ phase = "open"
         /\ Len(backlog) < Capacity
         /\ newest' = newest + 1
         /\ backlog' = Append(backlog, newest')
         /\ UNCHANGED <<phase, seen, over>>

\* A frame makes the frames still waiting superfluous.
Supersede == /\ phase = "open"
             /\ Mode = "Frame"
             /\ newest' = newest + 1
             /\ backlog' = <<newest'>>
             /\ UNCHANGED <<phase, seen, over>>

\* Bytes that find the backlog full are lost; no datum may follow them.
Lose == /\ phase = "open"
        /\ Mode = "Bytes"
        /\ Len(backlog) = Capacity
        /\ newest' > newest
        /\ phase' = "lossy"
        /\ UNCHANGED <<backlog, seen, over>>

\* The session ends: the exit follows whatever bytes wait, and replaces the
\* frames that wait.  It needs no room.
Finish == /\ phase \in {"open", "lossy"}
          /\ phase' = "ended"
          /\ backlog' = IF Mode = "Frame" THEN <<0>> ELSE Append(backlog, 0)
          /\ UNCHANGED <<newest, seen, over>>

\* Only a stream that lost bytes is cut without an exit.
Cut == /\ phase = "lossy"
       /\ phase' = "ended"
       /\ UNCHANGED <<backlog, newest, seen, over>>

\* The client detaches, or its connection goes away.
Leave == /\ phase # "left"
         /\ phase' = "left"
         /\ UNCHANGED <<backlog, newest, seen, over>>

\* The client is given the oldest waiting event; the exit ends the stream.
Take == /\ ~over
        /\ backlog # <<>>
        /\ backlog' = Tail(backlog)
        /\ IF Head(backlog) = 0
             THEN over' = TRUE /\ UNCHANGED seen
             ELSE seen' = Head(backlog) /\ UNCHANGED over
        /\ UNCHANGED <<phase, newest>>

\* A stream that was cut is over once the backlog is drained, and any stream
\* is over when writing to the client fails.
Stop == /\ ~over
        /\ over' = TRUE
        /\ UNCHANGED <<backlog, phase, newest, seen>>

Next == Offer \/ Supersede \/ Lose \/ Finish \/ Cut \/ Leave \/ Take \/ Stop

\* A client that keeps reading is given what waits for it.
Spec == Init /\ [][Next]_vars /\ WF_vars(Take)

=============================================================================
