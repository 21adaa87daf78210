----------------------------- MODULE LossyFifo -----------------------------
(***************************************************************************)
(* What a frame queue of laniakea promises to those who use it: a FIFO     *)
(* buffer of at most Limit frames that never refuses a frame.  A frame put *)
(* into a full buffer displaces the oldest frame held.                     *)
(*                                                                         *)
(* Frames are numbered 1, 2, 3, ... in the order in which they are put, so *)
(* a number is the identity of a frame and comparing numbers compares ages.*)
(* Module Queue is shown to implement this specification.                  *)
(***************************************************************************)
EXTENDS Naturals, Sequences

CONSTANT Limit      \* Capacity of the buffer, at least 1.

VARIABLES
  held,             \* The frames in the buffer, oldest first.
  produced,         \* How many frames have been put so far.
  taken             \* The frames that were handed to a consumer.

fifoVars == <<held, produced, taken>>

FifoInit ==
  /\ held = << >>
  /\ produced = 0
  /\ taken = {}

(* A frame enters at the back; the oldest one makes room if there is none. *)
Put ==
  /\ produced' = produced + 1
  /\ \/ /\ Len(held) < Limit
        /\ held' = Append(held, produced + 1)
     \/ /\ Len(held) = Limit
        /\ held' = Append(Tail(held), produced + 1)
  /\ UNCHANGED taken

(* The oldest frame leaves, for exactly one consumer.                      *)
Take ==
  /\ held # << >>
  /\ held' = Tail(held)
  /\ taken' = taken \cup {Head(held)}
  /\ UNCHANGED produced

FifoNext == Put \/ Take

FifoSpec == FifoInit /\ [][FifoNext]_fifoVars
=============================================================================
