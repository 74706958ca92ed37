------------------------------- MODULE Stream -------------------------------
(***************************************************************************)
(* What sessions promise about events, without threads, locks or glib      *)
(* queues: a session is opened once and closed once; while it is open it   *)
(* takes in published events, each at most once and only the one being     *)
(* published; what it took in leaves in the order of publication; a closed *)
(* session takes in nothing.  An event may be left out (no subscription, a *)
(* full queue).  Session implements this specification, see                *)
(* SessionRefinement.                                                      *)
(***************************************************************************)
EXTENDS Integers, Sequences

CONSTANTS Sids,    \* ids of sessions, numbers
          Events,  \* numbers of events, from 1
          Room     \* how many events a session can hold

VARIABLES life,    \* of each session: unborn, open, closed
          buf,     \* of each session: events taken in and not yet out
          out,     \* of each session: the last event that left it
          last     \* the event published last, 0 at first

vars == <<life, buf, out, last>>

Init ==
  /\ life = [s \in Sids |-> "unborn"]
  /\ buf = [s \in Sids |-> <<>>]
  /\ out = [s \in Sids |-> 0]
  /\ last = 0

\* Ids are given out in order and never again.
Open(s) ==
  /\ life[s] = "unborn"
  /\ \A r \in Sids : r < s => life[r] # "unborn"
  /\ life' = [life EXCEPT ![s] = "open"]
  /\ UNCHANGED <<buf, out, last>>

Close(s) ==
  /\ life[s] = "open"
  /\ life' = [life EXCEPT ![s] = "closed"]
  /\ UNCHANGED <<buf, out, last>>

Publish ==
  /\ last + 1 \in Events
  /\ last' = last + 1
  /\ UNCHANGED <<life, buf, out>>

\* The event being published has neither left s nor waits in it.
Fresh(s) == out[s] < last /\ \A i \in 1 .. Len(buf[s]) : buf[s][i] # last

TakeIn(s) ==
  /\ life[s] = "open"
  /\ last \in Events
  /\ Fresh(s)
  /\ Len(buf[s]) < Room
  /\ buf' = [buf EXCEPT ![s] = Append(@, last)]
  /\ UNCHANGED <<life, out, last>>

LetOut(s) ==
  /\ buf[s] # <<>>
  /\ out' = [out EXCEPT ![s] = Head(buf[s])]
  /\ buf' = [buf EXCEPT ![s] = Tail(@)]
  /\ UNCHANGED <<life, last>>

Next ==
  \/ Publish
  \/ \E s \in Sids : Open(s) \/ Close(s) \/ TakeIn(s) \/ LetOut(s)

Spec == Init /\ [][Next]_vars
=============================================================================
