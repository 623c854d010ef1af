---------------------------- MODULE BoundedFifo ----------------------------
(***************************************************************************)
(* What a byte queue of the firmware promises its two users, with no ring, *)
(* no cursor and no interrupt in it.  Bytes join a line of at most Capacity*)
(* of them, one at a time or, where a MIDI message is queued for output, a *)
(* message at a time, all of it or none; what finds no room is refused.    *)
(* They leave one at a time in the order they joined.                      *)
(***************************************************************************)
EXTENDS Naturals, Sequences

CONSTANTS
  Item,      \* what can join at once, as sequences of bytes
  Capacity   \* the most bytes it holds at once

VARIABLES
  fifo,      \* the bytes waiting, oldest first
  out,       \* the bytes taken so far, in the order they were taken
  dropped    \* how many items found no room

vars == <<fifo, out, dropped>>

Init ==
  /\ fifo = << >>
  /\ out = << >>
  /\ dropped = 0

Join(m) ==
  /\ Len(fifo) + Len(m) <= Capacity
  /\ fifo' = fifo \o m
  /\ UNCHANGED <<out, dropped>>

Refuse(m) ==
  /\ Len(fifo) + Len(m) > Capacity
  /\ dropped' = dropped + 1
  /\ UNCHANGED <<fifo, out>>

Take ==
  /\ fifo # << >>
  /\ out' = Append(out, Head(fifo))
  /\ fifo' = Tail(fifo)
  /\ UNCHANGED dropped

Next ==
  \/ \E m \in Item : Join(m) \/ Refuse(m)
  \/ Take

Spec == Init /\ [][Next]_vars
=============================================================================
