--------------------------- MODULE MCProgressTasks ---------------------------
(* Instances of ProgressTasks.  A price of 1 with 100 percent gives a target  *)
(* of 2 in both directions: the prices 1 and 3 are on either side of it, the *)
(* price 2 is right there.                                                    *)
EXTENDS ProgressTasks, TLC

BothWays == {-100, 100}
Upwards == {100}
TwoPrices == {1, 3}
RisingPrices == {1, 2}
TokenSymmetry == Permutations(Tokens)
KeySymmetry == Permutations(Keys)
WatcherSymmetry == Permutations(Watchers)
Symmetry == TokenSymmetry \cup KeySymmetry \cup WatcherSymmetry
=============================================================================
