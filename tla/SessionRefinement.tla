-------------------------- MODULE SessionRefinement --------------------------
(* Session implements Stream.                                               *)
EXTENDS Session

\* A session of the table is open, one whose id was given out before is closed.
Life ==
  [s \in Sids |-> IF s \in table THEN "open" ELSE IF s < id THEN "closed" ELSE "unborn"]

\* A queue holds at most the limit (at least one) and one event per thread.
Room == (IF Limit = 0 THEN 1 ELSE Limit) + Cardinality(Threads)

Abstract == INSTANCE Stream
            WITH Sids <- Sids, Events <- Events, Room <- Room,
                 life <- Life, buf <- eventq, out <- popped, last <- event

\* Every behaviour of session.c and event.c, with all their interleavings, is
\* one of the simple event streams: ids never come back, events reach only
\* open sessions, each at most once, and leave in order.
ImplementsStream == Abstract!Spec
=============================================================================
