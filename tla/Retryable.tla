------------------------------ MODULE Retryable ------------------------------
(***************************************************************************)
(* isRetryableError (metrics-collector/storage/timescaledb.go), which      *)
(* decides whether StoreMetric retries a failed insert, and the recursive  *)
(* substring test `contains` with which it matches an error message        *)
(* against its retryable patterns. Strings are sequences of characters     *)
(* drawn from a small alphabet with both cases of a letter; the pair       *)
(* (s, substr) is chosen once and kept, so every reachable state is one    *)
(* input of the function.                                                  *)
(***************************************************************************)
EXTENDS Integers, SequencesExt

CONSTANTS
    Chars,       \* the alphabet
    MaxLen,      \* bound on the length of both strings
    retryablePatterns  \* the pattern list, as strings of Chars

ASSUME MaxLen \in Nat /\ retryablePatterns \in Seq(Seq(Chars))

VARIABLES s, substr

vars == <<s, substr>>

Strings == BoundedSeq(Chars, MaxLen)

\* Mutant: recursion on the tail only while s is two characters longer.
RECURSIVE containsShortRecursion(_, _)
containsShortRecursion(x, y) ==
    /\ Len(x) >= Len(y)
    /\ \/ x = y
       \/ /\ Len(x) > Len(y) + 1
          /\ \/ containsShortRecursion(Tail(x), y)
             \/ SubSeq(x, 1, Len(y)) = y

(* contains(s, substr): true if s is at least as long as substr and either *)
(* equals it, or is longer and contains it in s[1:] or starts with it.      *)
RECURSIVE contains(_, _)
contains(x, y) ==
    /\ Len(x) >= Len(y)
    /\ \/ x = y
       \/ /\ Len(x) > Len(y)
          /\ \/ contains(Tail(x), y)
             \/ SubSeq(x, 1, Len(y)) = y

(* isRetryableError on a non-nil error: some pattern of the list, tried   *)
(* in order, is contained in the error text.                               *)
isRetryableError(errStr) ==
    \E i \in 1..Len(retryablePatterns) : contains(errStr, retryablePatterns[i])

Init == s \in Strings /\ substr \in Strings

Next == UNCHANGED vars

Spec == Init /\ [][Next]_vars

-----------------------------------------------------------------------------
(* contains must say exactly whether substr occurs as a contiguous run of *)
(* s (the empty string occurs in every string), and so isRetryableError   *)
(* exactly whether the error text has one of the patterns as a substring: *)
(* otherwise StoreMetric gives up on a transient error or retries a       *)
(* permanent one. The reference is the plain substring scan spec 9       *)
(* prescribes for contains, so matching is case-sensitive: the comment on  *)
(* contains (timescaledb.go:343) calls it case-insensitive, which spec 9   *)
(* notes the source is not ("wrong for mixed-case").                       *)
ContainsIsSubstring ==
    /\ contains(s, substr) <=> substr \in SubSeqs(s)
    /\ isRetryableError(s) <=> \E p \in Range(retryablePatterns) : p \in SubSeqs(s)

=============================================================================
