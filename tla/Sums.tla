--------------------------------- MODULE Sums ---------------------------------
(***************************************************************************)
(* Sums over arrays, as the loops of the code make them.  The folds of the *)
(* library take the operation as a parameter; a recursive function says    *)
(* the same in a form that theorems can be proved about.                   *)
(***************************************************************************)
EXTENDS Integers

(* f[0] + ... + f[n - 1].                                                  *)
Total(f, n) ==
  LET sum[k \in 0 .. n] == IF k = 0 THEN 0 ELSE sum[k - 1] + f[k - 1]
  IN  sum[n]
===============================================================================
