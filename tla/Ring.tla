---------------------------------- MODULE Ring ----------------------------------
(* The ring buffer of ring.c. Pointers are offsets into the data; one cell stays *)
(* free, so that equal pointers mean an empty ring. What the rest of the program *)
(* does not call (ring_write, ring_peek, ring_free_space) is left out.           *)
EXTENDS Naturals, Sequences

\* A new ring; what is in its memory does not matter.
ring_alloc(size, any) == [size |-> size, data |-> [p \in 0..(size - 1) |-> any], read |-> 0, write |-> 0]

\* Bytes that can be read.
ring_available(r) ==
  IF r.write >= r.read THEN r.write - r.read ELSE r.size - (r.read - r.write)

\* Bytes that can be read before the end of the data.
ring_available_contig(r) ==
  IF r.write >= r.read THEN r.write - r.read ELSE r.size - r.read

\* Bytes that can be written before the end of the data.
ring_free_space_contig(r) ==
  IF r.read > r.write THEN r.read - r.write - 1
  ELSE r.size - r.write - (IF r.read = 0 THEN 1 ELSE 0)

ring_next(r, p) == IF p < r.size - 1 THEN p + 1 ELSE 0

Advanced(r, p, offset) ==
  IF offset = 0 THEN p
  ELSE IF p + offset < r.size THEN ring_next(r, p + offset - 1)
  ELSE offset - r.size + p

ring_advance_read(r, offset) == [r EXCEPT !.read = Advanced(r, @, offset)]
ring_advance_write(r, offset) == [r EXCEPT !.write = Advanced(r, @, offset)]
ring_inc_read(r) == [r EXCEPT !.read = ring_next(r, @)]

\* The reader of a file stores behind ptr_write, without the ring knowing.
Stored(r, bytes) ==
  [r EXCEPT !.data = [p \in DOMAIN @ |-> IF p \in r.write..(r.write + Len(bytes) - 1)
                                         THEN bytes[p - r.write + 1] ELSE @[p]]]

\* The byte that is read after k others: the data is in two parts at most.
Peeked(r, k) ==
  IF k < ring_available_contig(r) THEN r.data[r.read + k]
  ELSE r.data[k - ring_available_contig(r)]

\* The ring begins with ref (and has that much).
ring_memcmp(r, ref) ==
  ring_available(r) >= Len(ref) /\ \A k \in 1..Len(ref) : Peeked(r, k - 1) = ref[k]

\* What ring_read copies out.
ring_read(r, len) == [k \in 1..len |-> Peeked(r, k - 1)]

\* All there is to read.
Unread(r) == ring_read(r, ring_available(r))
================================================================================
