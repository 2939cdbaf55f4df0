----------------------------- MODULE MCEventLoop -----------------------------
(* Bounded instances of EventLoop for TLC: see README.md for the bounds. *)
EXTENDS EventLoop, TLC

MCSymmetry == Permutations(Recs)

(* A delay that is not a whole number of milliseconds. *)
MCTimeos == {[tv_sec |-> 0, tv_usec |-> 1]}
=============================================================================
