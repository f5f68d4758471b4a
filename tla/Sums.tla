-------------------------------- MODULE Sums --------------------------------
(* Running totals and filtered lists.  A total over orders or markets is    *)
(* the last value of the running total of a function over 1, 2, 3, ...; a   *)
(* list comprehension with a condition is the last of the lists it goes     *)
(* through.  Both are recursive functions, to be reasoned about as well as  *)
(* evaluated.                                                               *)
EXTENDS Integers, Sequences

\* PrefixSum(f)[n] = f[1] + ... + f[n].
PrefixSum(f) ==
    LET sum[n \in Nat] == IF n = 0 THEN 0 ELSE sum[n - 1] + f[n]
    IN  sum

Total(f, n) == PrefixSum(f)[n]

\* The members of a sequence at the indexes given, in order.
MembersAt(s, indexes) ==
    LET taken[n \in 0 .. Len(s)] ==
            IF n = 0 THEN <<>> ELSE IF n \in indexes THEN Append(taken[n - 1], s[n]) ELSE taken[n - 1]
    IN  taken[Len(s)]
=============================================================================
