------------------------------ MODULE DirentCache ------------------------------
(***************************************************************************)
(* dirent_cache.c: the names of a directory's files, one after the other,  *)
(* each with its NUL, and the iterators over them.  An iterator is the     *)
(* position of a character in this buffer; NULL is position 0.             *)
(***************************************************************************)
EXTENDS Integers, Sequences, SequencesExt

NUL == 0
NULL == 0

\* What iterate_dir writes for the entries it reads.
iterate_dir(names) ==
  FlattenSeq([k \in 1..Len(names) |-> Append(names[k], NUL)])

iter_valid(cache, iter) == iter \in 1..Len(cache)

\* The end of the string that iter points into.
Terminator(cache, iter) == Min({k \in iter..Len(cache) : cache[k] = NUL})
StringAt(cache, iter) == SubSeq(cache, iter, Terminator(cache, iter) - 1)

\* The last NUL up to iter; NULL before the first.
BackToNul(cache, iter) == Max({NULL} \cup {k \in 1..iter : cache[k] = NUL})

iter_first(cache) == IF cache = <<>> THEN NULL ELSE 1

iter_last(cache) ==
  IF Len(cache) < 2 THEN NULL ELSE BackToNul(cache, Len(cache) - 1) + 1

iter_next(cache, iter) ==
  IF iter_valid(cache, iter) /\ iter_valid(cache, Terminator(cache, iter) + 1)
  THEN Terminator(cache, iter) + 1 ELSE NULL

\* Mutant: no step into the string before.
PrevIsSame(cache, iter) ==
  IF iter_valid(cache, iter) /\ BackToNul(cache, iter) # NULL
  THEN BackToNul(cache, iter) + 1 ELSE NULL

iter_prev(cache, iter) ==
  IF iter_valid(cache, iter) /\ BackToNul(cache, iter) # NULL
       /\ iter_valid(cache, BackToNul(cache, iter) - 1)
  THEN BackToNul(cache, BackToNul(cache, iter) - 1) + 1 ELSE NULL

find_entry(cache, name) ==
  LET from[iter \in 0..Len(cache)] ==
        IF ~iter_valid(cache, iter) THEN NULL
        ELSE IF StringAt(cache, iter) = name THEN iter ELSE from[iter_next(cache, iter)]
  IN from[iter_first(cache)]
================================================================================
