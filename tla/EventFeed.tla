----------------------------- MODULE EventFeed ------------------------------
(***************************************************************************)
(* What a reader of a run's events is promised: it sees the events in the  *)
(* order of their numbers, each once, none left out.  It may see them late *)
(* and, when it starts over, again from the first.                         *)
(***************************************************************************)
EXTENDS Naturals, Sequences

VARIABLES produced,    \* how many events the run has
          delivered    \* the numbers the reader has seen

FeedInit == produced = 0 /\ delivered = <<>>

Produce == produced' = produced + 1 /\ UNCHANGED delivered

\* One event of the stream, or a page of them.
Deliver ==
  /\ \E n \in (Len(delivered) + 1)..produced : delivered' = [i \in 1..n |-> i]
  /\ UNCHANGED produced

StartOver == delivered' = <<>> /\ UNCHANGED produced

FeedSpec == FeedInit /\ [][Produce \/ Deliver \/ StartOver]_<<produced, delivered>>
=============================================================================
