------------------------------ MODULE ByteFifo ------------------------------
(***************************************************************************)
(* What a ring buffer promises: a queue of bytes of bounded length, from   *)
(* which bytes come out in the order in which they went in.                *)
(***************************************************************************)
EXTENDS Integers, Sequences

CONSTANTS Bytes, Capacity, None

VARIABLES contents, got

Init == contents = << >> /\ got = None

\* A byte that does not fit is refused.
Put(c) ==
  /\ contents' = IF Len(contents) < Capacity THEN Append(contents, c) ELSE contents
  /\ UNCHANGED got

Get ==
  /\ contents # << >>
  /\ got' = Head(contents)
  /\ contents' = Tail(contents)

Next == Get \/ \E c \in Bytes : Put(c)

Spec == Init /\ [][Next]_<<contents, got>>
=============================================================================
