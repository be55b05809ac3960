-------------------------------- MODULE Templates --------------------------------
(* Pages with templates (template.c): a page is parsed once, through a ring      *)
(* buffer, into slices of text and of templates, and rendered by reading it      *)
(* again. A template is an identifier, arguments and a terminator.               *)
EXTENDS Naturals, Sequences, FiniteSets, FiniteSetsExt, Ring

CONSTANTS
  Bytes,          \* what pages are made of
  Entries,        \* the templates' identifiers, prefix included
  Suffix,         \* the terminator
  IdLenDefault,   \* TEMPLATE_ID_LEN_DEFAULT
  MaxArgLen,      \* TEMPLATE_MAX_ARG_LEN
  BuffSize,       \* TEMPLATE_BUFF_SIZE
  Text            \* what is no template

\* No identifier is empty, or another one's beginning.
ASSUME TemplatesAssumption ==
  /\ Suffix \in Seq(Bytes) /\ Suffix # <<>>
  /\ Entries \subseteq Seq(Bytes) /\ IsFiniteSet(Entries)
  /\ \A e \in Entries : e # <<>>
  /\ \A e, f \in Entries : Len(e) <= Len(f) /\ SubSeq(f, 1, Len(e)) = e => e = f
  /\ Text \notin Entries
  /\ MaxArgLen \in Nat /\ {IdLenDefault, BuffSize} \subseteq Nat \ {0}

VARIABLES
  file,       \* the page
  given,      \* bytes of it that were read
  ring, read_len, filepos,
  slices,     \* the slices so far, the last one open until its end is known
  templ,      \* what template_alloc_instance_ or template_apply_ is at
  slice,      \* the slice being rendered
  out         \* what was sent

templVars == <<file, given, ring, read_len, filepos, slices, templ, slice, out>>

id_len(e) == Len(e)
suffix_len == Len(Suffix)
max_id_len == Max({IdLenDefault} \cup {id_len(e) + suffix_len : e \in Entries})

Slice(start, end, entry, args) == [start |-> start, end |-> end, entry |-> entry, args |-> args]

\* The bytes that a read of at most n gets: an embedded page, or a file on flash,
\* gives less only where it ends.
ReadLen(n) == Min({n, Len(file) - given})
ReadBytes(n) == SubSeq(file, given + 1, given + ReadLen(n))

\* What is sent: bytes, each by itself, and what stands for templates.
Sent(bytes) == [k \in 1..Len(bytes) |-> <<bytes[k]>>]

TemplInit(files) ==
  /\ file \in files /\ given = 0 /\ read_len = 0 /\ filepos = 0
  /\ ring = ring_alloc(MaxArgLen + 2 * max_id_len, Text)
  /\ slices = <<Slice(0, 0, Text, <<>>)>>
  /\ templ = "read" /\ slice = 1 /\ out = <<>>

--------------------------------------------------------------------------------
(* template_alloc_instance_.                                                     *)

\* read_more: the ring gets what fits behind its write pointer.
ReadMore ==
  /\ templ = "read"
  /\ read_len' = ReadLen(ring_free_space_contig(ring))
  /\ given' = given + read_len'
  /\ ring' = ring_advance_write(Stored(ring, ReadBytes(ring_free_space_contig(ring))), read_len')
  /\ templ' = "scan"
  /\ UNCHANGED <<file, filepos, slices, slice, out>>

\* Mutant: templates are looked for whatever is left in the ring.
AnythingToScan == ring_available(ring) >= 1

\* There is enough in the ring for any identifier; at the end of the page for one byte.
EnoughToScan == ring_available(ring) >= (IF read_len = 0 THEN 1 ELSE max_id_len)

Matches(e) == ring_memcmp(ring, e)

\* The lengths of arguments after which there is a terminator in the ring.
ArgLens(e) ==
  LET args == ring_advance_read(ring, id_len(e))
  IN {n \in 0..ring_available(args) : ring_memcmp(ring_advance_read(args, n), Suffix)}

\* No template begins here.
SkipByte ==
  /\ templ = "scan" /\ EnoughToScan
  /\ \A e \in Entries : ~Matches(e)
  /\ ring' = ring_inc_read(ring) /\ filepos' = filepos + 1
  /\ UNCHANGED <<file, given, read_len, slices, templ, slice, out>>

\* A template: the slice of text before it ends, the template is a slice, and
\* the next slice of text begins behind it.
TakeTemplate(e) ==
  /\ templ = "scan" /\ EnoughToScan
  /\ Matches(e)
  /\ \E arg_len \in ArgLens(e) :
       /\ \A n \in ArgLens(e) : arg_len <= n
       /\ LET args == ring_advance_read(ring, id_len(e))
              template_end == filepos + id_len(e) + arg_len + suffix_len
          IN IF arg_len > MaxArgLen
             THEN templ' = "failed" /\ UNCHANGED <<ring, filepos, slices>>
             ELSE /\ ring' = ring_advance_read(ring_advance_read(args, arg_len), suffix_len)
                  /\ filepos' = template_end
                  /\ slices' = [slices EXCEPT ![Len(slices)].end = filepos]
                                 \o <<Slice(filepos, template_end, e, ring_read(args, arg_len)),
                                      Slice(template_end, 0, Text, <<>>)>>
                  /\ UNCHANGED templ
  /\ UNCHANGED <<file, given, read_len, slice, out>>

\* Mutant: the identifier is not put back.
SeekBehind(e) ==
  /\ templ = "scan" /\ EnoughToScan
  /\ Matches(e) /\ ArgLens(e) = {}
  /\ ring' = ring_advance_read(ring, id_len(e))
  /\ templ' = IF read_len = 0 \/ ring_available(ring) >= max_id_len + MaxArgLen + suffix_len
              THEN "failed" ELSE "read"
  /\ UNCHANGED <<file, given, read_len, filepos, slices, slice, out>>

\* The terminator is not in the ring: more is read, unless there is no more, or
\* the arguments are too long already.
SeekTerminator(e) ==
  /\ templ = "scan" /\ EnoughToScan
  /\ Matches(e) /\ ArgLens(e) = {}
  /\ templ' = IF read_len = 0 \/ ring_available(ring) >= max_id_len + MaxArgLen + suffix_len
              THEN "failed" ELSE "read"
  /\ UNCHANGED <<file, given, ring, read_len, filepos, slices, slice, out>>

\* The ring has too little: more is read, or the page has ended.
EndOfRing ==
  /\ templ = "scan" /\ ~EnoughToScan
  /\ IF read_len # 0
     THEN templ' = "read" /\ UNCHANGED <<slices, filepos, given>>
     ELSE /\ slices' = [slices EXCEPT ![Len(slices)].end = filepos]
          /\ templ' = "render" /\ filepos' = 0 /\ given' = 0
  /\ UNCHANGED <<file, ring, read_len, slice, out>>

--------------------------------------------------------------------------------
(* template_apply_: the page is read from its start again.                       *)

\* What a slice says is not sent (templates, their text) is read and dropped; the
\* text of a slice is sent as it is read.
ReadSlice(limit, sends) ==
  LET n == Min({BuffSize, limit - filepos})
  IN /\ IF ReadLen(n) = 0
        THEN templ' = "cut short" /\ UNCHANGED out
        ELSE templ' = templ /\ out' = IF sends THEN out \o Sent(ReadBytes(n)) ELSE out
     /\ given' = given + ReadLen(n) /\ filepos' = filepos + ReadLen(n)

SkipToSlice ==
  /\ templ = "render" /\ slice <= Len(slices)
  /\ filepos < slices[slice].start
  /\ ReadSlice(slices[slice].start, FALSE)
  /\ UNCHANGED <<file, ring, read_len, slices, slice>>

WriteSlice ==
  /\ templ = "render" /\ slice <= Len(slices)
  /\ filepos >= slices[slice].start
  /\ slices[slice].entry = Text /\ filepos < slices[slice].end
  /\ ReadSlice(slices[slice].end, TRUE)
  /\ UNCHANGED <<file, ring, read_len, slices, slice>>

\* The callback of the template writes what stands for it.
ApplyTemplate ==
  /\ templ = "render" /\ slice <= Len(slices)
  /\ filepos >= slices[slice].start /\ slices[slice].entry # Text
  /\ out' = Append(out, <<slices[slice].entry, slices[slice].args>>)
  /\ slice' = slice + 1
  /\ UNCHANGED <<file, given, ring, read_len, filepos, slices, templ>>

NextSlice ==
  /\ templ = "render" /\ slice <= Len(slices)
  /\ filepos >= slices[slice].start
  /\ slices[slice].entry = Text /\ filepos >= slices[slice].end
  /\ slice' = slice + 1
  /\ UNCHANGED <<file, given, ring, read_len, filepos, slices, templ, out>>

Rendered ==
  /\ templ = "render" /\ slice > Len(slices)
  /\ templ' = "rendered"
  /\ UNCHANGED <<file, given, ring, read_len, filepos, slices, slice, out>>

TemplNext ==
  \/ ReadMore \/ SkipByte \/ EndOfRing
  \/ \E e \in Entries : TakeTemplate(e) \/ SeekTerminator(e)
  \/ SkipToSlice \/ WriteSlice \/ ApplyTemplate \/ NextSlice \/ Rendered

--------------------------------------------------------------------------------
(* What a page means, from its text alone.                                       *)

Bad == <<>>
OccursAt(page, w, p) == p + Len(w) - 1 <= Len(page) /\ SubSeq(page, p, p + Len(w) - 1) = w
Ends(page, p) == {q \in p..Len(page) : OccursAt(page, Suffix, q)}

\* From each position on: each byte, each template with its arguments.
Meant(page) ==
  LET meant[p \in 1..(Len(page) + 1)] ==
        IF p > Len(page) THEN <<>>
        ELSE LET begins == {e \in Entries : OccursAt(page, e, p)}
             IN IF begins = {} THEN <<<<page[p]>>>> \o meant[p + 1]
                ELSE LET e == CHOOSE x \in begins : TRUE
                         args == p + id_len(e)
                         end == Min(Ends(page, args))
                     IN IF Ends(page, args) = {} \/ end - args > MaxArgLen THEN <<Bad>>
                        ELSE <<<<e, SubSeq(page, args, end - 1)>>>> \o meant[end + suffix_len]
  IN meant

Meaning == Meant(file)[1]

IsBad(page) == page # <<>> /\ page[Len(page)] = Bad
================================================================================
