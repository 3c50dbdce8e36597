----------------------------- MODULE RankedDrain -----------------------------
(***************************************************************************)
(* Abstract specification of draining a ranking queue, as the design of   *)
(* the MIMO phase states it (RankByMinStreamSnr): entries are taken one   *)
(* at a time, always one of the highest key, each written out exactly     *)
(* once, and the drain finishes only when nothing is left. Entries are    *)
(* records with a key field snr.                                           *)
(***************************************************************************)
EXTENDS Naturals, Sequences

VARIABLES
  pending,   \* entries not yet taken
  out,       \* entries taken, in the order they were taken
  done       \* the drain has finished

Init == out = <<>> /\ done = FALSE

\* Take an entry of the highest key and write it out.
Pop ==
  /\ ~done
  /\ \E e \in pending :
       /\ \A d \in pending : d.snr <= e.snr
       /\ out' = Append(out, e)
       /\ pending' = pending \ {e}
       /\ UNCHANGED done

\* Nothing is left: the drain finishes.
Finish ==
  /\ ~done
  /\ pending = {}
  /\ done' = TRUE
  /\ UNCHANGED <<pending, out>>

Spec == Init /\ [][Pop \/ Finish]_<<pending, out, done>>

=============================================================================
