---------------------------- MODULE MCSubscriber ----------------------------
(* Instances of Subscriber for TLC: see the .cfg files.                    *)
EXTENDS Subscriber, TLC

(* ticker, trade and index, of which the last has no bit.                  *)
MCFlags == {1, 3, 5}

Symmetric == Permutations(Targets) \cup Permutations(Threads)
=============================================================================
