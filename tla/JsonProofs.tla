------------------------------- MODULE JsonProofs -------------------------------
(* The JSON parser and its user. No text makes an assertion of the parser fail,   *)
(* for any paths and however deep the text is nested, nor does it in the release  *)
(* check, which goes on after an error. When the user has left the list of        *)
(* releases nothing of it is left, and what is shown of it exists, for any server *)
(* and any number of releases.                                                    *)
EXTENDS ReleaseCheck, JsonText, SequenceTheorems, WellFoundedInduction, TLAPS

--------------------------------------------------------------------------------
(* The invariant. A path that is looked at, or put aside for a key, goes down as  *)
(* often as the parser; one that is held by a stack entry goes down to the        *)
(* container of that entry. It only went where it goes, and not below the parser: *)
(* it may be behind when a callback for an object failed, before paths went down  *)
(* into it. A path that goes down not quite as far is still looked at then.       *)

\* A parser has these fields.
Fields == {"stack", "stack_size", "moved", "at", "match", "strbuf", "strbuf_size", "in_literal",
           "literal_type", "escaped", "str_is_key", "in_array", "array_index"}
IsParser(k) == DOMAIN k = Fields

\* Path p is where the parser is at depth d: it can go back one level from there.
WentDown(k, p, d) ==
  /\ path_depth[p] >= d - 1 /\ (path_depth[p] = d - 1 => d \in ObjectDepths)
  /\ \E e \in 0..path_depth[p] : e <= d /\ k.match[p] = path_seek_to_depth(p, e)

PathsInPlace(k) ==
  \A p \in Paths :
    /\ k.at[p] \in non_matching_paths..depth(k)
    /\ k.at[p] <= paths => WentDown(k, p, depth(k))
    /\ k.at[p] > paths => WentDown(k, p, k.at[p] - 1)

Entries == [array : BOOLEAN, index : Int]

Inv(k) ==
  /\ IsParser(k)
  /\ k.in_array \in BOOLEAN /\ k.array_index \in Int /\ k.moved \in Nat /\ k.stack \in Seq(Entries)
  /\ k.at \in [Paths -> Int] /\ k.match \in [Paths -> Nat]
  /\ PathsInPlace(k)

\* A callback that fails leaves the paths behind. Only a list that was lost with the
\* memory of the stack makes the outcome undefined.
Safe(r) ==
  /\ r.err # "ASSERT"
  /\ r.err # "CALLBACK" \/ ObjectsApart => Inv(r.cbj)
  /\ r.err = "UNDEFINED" => r.cbj.moved > 0

--------------------------------------------------------------------------------
(* What changes nothing about the paths.                                          *)

\* Only the text of a literal, and what is known of it, changes.
LEMMA SamePlace ==
  ASSUME NEW k, NEW l, Inv(k), IsParser(l), l.stack = k.stack, l.at = k.at, l.match = k.match,
         l.in_array \in BOOLEAN, l.array_index \in Int, l.moved \in Nat
  PROVE  Inv(l)
<1>1. PathsInPlace(l)
  BY DEF Inv, PathsInPlace, WentDown, depth
<1> QED
  BY <1>1 DEF Inv

LEMMA LiteralFields ==
  ASSUME NEW k, Inv(k), NEW b
  PROVE  Inv([k EXCEPT !.in_literal = b]) /\ Inv([k EXCEPT !.escaped = b])
<1>1. ASSUME NEW l, l \in {[k EXCEPT !.in_literal = b], [k EXCEPT !.escaped = b]} PROVE Inv(l)
  <2>1. IsParser(l) /\ l.stack = k.stack /\ l.at = k.at /\ l.match = k.match
        /\ l.in_array = k.in_array /\ l.array_index = k.array_index /\ l.moved = k.moved
    BY <1>1 DEF Inv, IsParser, Fields
  <2>2. l.in_array \in BOOLEAN /\ l.array_index \in Int /\ l.moved \in Nat
    BY <2>1 DEF Inv
  <2> QED BY <2>1, <2>2, SamePlace
<1> QED
  BY <1>1

LEMMA AddChar ==
  ASSUME NEW k, Inv(k), NEW c, NEW mem \in BOOLEAN
  PROVE  Safe(cbjson_add_char(k, c, mem)) /\ cbjson_add_char(k, c, mem).err # "CALLBACK"
<1> DEFINE r == cbjson_add_char(k, c, mem)
<1>1. r.err \notin {"ASSERT", "CALLBACK", "UNDEFINED"}
  BY DEF cbjson_add_char, Fail, Done, Result
<1>2. IsParser(r.cbj)
  BY DEF cbjson_add_char, Fail, Done, Result, Inv, IsParser, Fields
<1>3. /\ r.cbj.stack = k.stack /\ r.cbj.at = k.at /\ r.cbj.match = k.match
      /\ r.cbj.in_array = k.in_array /\ r.cbj.array_index = k.array_index /\ r.cbj.moved = k.moved
  BY DEF cbjson_add_char, Fail, Done, Result, Inv, IsParser, Fields
<1>4. Inv(r.cbj)
  <2> HIDE DEF r
  <2> QED BY <1>2, <1>3, SamePlace DEF Inv
<1> QED
  BY <1>1, <1>4 DEF Safe

\* Callbacks get to see the values, not the parser.
LEMMA CallKeeps ==
  ASSUME NEW k, NEW hit, NEW type, NEW string, NEW mem \in BOOLEAN
  PROVE  /\ Call(k, hit, type, string, mem).cbj = k
         /\ Call(k, hit, type, string, mem).err \in {"OK", "CALLBACK"}
  BY DEF Call, Result

--------------------------------------------------------------------------------
(* Taking back paths, from a list that is at the same depth.                      *)

LEMMA OtherLists ==
  ASSUME NEW k, IsParser(k), NEW f, NEW l, l = [k EXCEPT !.at = f]
  PROVE  /\ IsParser(l) /\ l.at = f
         /\ l.stack = k.stack /\ l.match = k.match
         /\ l.in_array = k.in_array /\ l.array_index = k.array_index /\ l.moved = k.moved
  BY DEF IsParser, Fields

LEMMA Restored ==
  ASSUME NEW k, Inv(k)
  PROVE  Inv(restore_non_matching_paths(k))
<1> DEFINE l == restore_non_matching_paths(k)
<1> DEFINE f == [p \in Paths |-> IF k.at[p] = non_matching_paths THEN paths ELSE k.at[p]]
<1>0. l = [k EXCEPT !.at = f]
  BY DEF restore_non_matching_paths, Moved
<1> HIDE DEF f, l
<1>1. IsParser(l)
  BY <1>0, OtherLists DEF Inv
<1>2. /\ l.stack = k.stack /\ l.match = k.match
      /\ l.in_array = k.in_array /\ l.array_index = k.array_index /\ l.moved = k.moved
  BY <1>0, OtherLists DEF Inv
<1>3. l.at = [p \in Paths |-> IF k.at[p] = non_matching_paths THEN paths ELSE k.at[p]]
  BY <1>0, OtherLists DEF Inv, f
<1>4. l.at \in [Paths -> Int]
  BY <1>3 DEF Inv, paths
<1>5. PathsInPlace(l)
  <2> SUFFICES ASSUME NEW p \in Paths
               PROVE  /\ l.at[p] \in non_matching_paths..depth(l)
                      /\ l.at[p] <= paths => WentDown(l, p, depth(l))
                      /\ l.at[p] > paths => WentDown(l, p, l.at[p] - 1)
    BY DEF PathsInPlace
  <2>1. depth(l) = depth(k) /\ depth(k) \in Nat
    BY <1>2 DEF depth, Inv
  <2>2. /\ k.at[p] \in non_matching_paths..depth(k)
        /\ k.at[p] <= paths => WentDown(k, p, depth(k))
        /\ k.at[p] > paths => WentDown(k, p, k.at[p] - 1)
    BY DEF Inv, PathsInPlace
  <2>3. l.at[p] = IF k.at[p] = non_matching_paths THEN paths ELSE k.at[p]
    BY <1>3
  <2>4. \A d : WentDown(l, p, d) <=> WentDown(k, p, d)
    BY <1>2 DEF WentDown
  <2> QED
    BY <2>1, <2>2, <2>3, <2>4 DEF paths, non_matching_paths
<1>6. Inv(l)
  BY <1>1, <1>2, <1>4, <1>5 DEF Inv
<1> QED
  BY <1>6 DEF l

LEMMA EndOfLiteral ==
  ASSUME NEW k, Inv(k), NEW type, NEW string, NEW mem \in BOOLEAN
  PROVE  Safe(process_end_of_literal(k, type, string, mem))
<1> DEFINE c == Call(k, {p \in current(k) : match_path(k, p)}, type, string, mem)
           next(l) == Done(IF l.in_array THEN l ELSE restore_non_matching_paths(l))
<1>1. Safe(c) /\ c.cbj = k
  BY CallKeeps DEF Safe
<1>2. Safe(next(k))
  BY Restored DEF Safe, Done, Result
<1>3. process_end_of_literal(k, type, string, mem) =
        IF c.err # "OK" THEN c ELSE Result(next(k).cbj, next(k).err, c.calls \o next(k).calls)
  BY <1>1 DEF process_end_of_literal, Then, Behind
<1> HIDE DEF c, next
<1> QED
  BY <1>1, <1>2, <1>3 DEF Safe, Result

LEMMA EndOfString ==
  ASSUME NEW k, Inv(k), NEW mem \in BOOLEAN
  PROVE  Safe(process_end_of_string(k, mem))
<1> DEFINE open == [k EXCEPT !.in_literal = FALSE]
           c == cbjson_add_char(open, NUL, mem)
           next(l) == IF l.str_is_key THEN Done(l) ELSE process_end_of_literal(l, "STRING", Front(l.strbuf), mem)
<1>1. Inv(open)
  BY LiteralFields
<1> HIDE DEF open
<1>2. Safe(c) /\ c.err # "CALLBACK"
  BY <1>1, AddChar
<1>3. Safe(next(c.cbj))
  <2> HIDE DEF c
  <2>1. Inv(c.cbj)
    BY <1>2 DEF Safe
  <2>2. Safe(Done(c.cbj))
    BY <2>1 DEF Safe, Done, Result
  <2>3. Safe(process_end_of_literal(c.cbj, "STRING", Front(c.cbj.strbuf), mem))
    BY <2>1, EndOfLiteral
  <2> QED BY <2>2, <2>3
<1>4. process_end_of_string(k, mem) =
        IF c.err # "OK" THEN c ELSE Result(next(c.cbj).cbj, next(c.cbj).err, c.calls \o next(c.cbj).calls)
  BY DEF process_end_of_string, Then, Behind, open
<1> HIDE DEF c, next
<1> QED
  BY <1>2, <1>3, <1>4 DEF Safe, Result

LEMMA CharInString ==
  ASSUME NEW k, Inv(k), NEW c, NEW mem \in BOOLEAN
  PROVE  /\ Safe(process_char_in_string(k, c, mem))
         /\ Safe(process_char_escaped(k, c, mem))
<1>1. Safe(process_end_of_string(k, mem)) /\ Safe(cbjson_add_char(k, c, mem))
  BY EndOfString, AddChar
<1>2. \A e : Inv([k EXCEPT !.escaped = e])
  BY LiteralFields
<1>3. Safe(Done([k EXCEPT !.escaped = TRUE]))
  BY <1>2 DEF Safe, Done, Result
<1>4. Safe(process_char_in_string(k, c, mem))
  BY <1>1, <1>3 DEF process_char_in_string
<1>5. Safe(cbjson_add_char([k EXCEPT !.escaped = FALSE], EscapeChars[c], mem))
  BY <1>2, AddChar
<1>6. Safe(Fail(k, "UNKNOWN_ESCAPE_CHAR"))
  BY DEF Safe, Fail, Result
<1> QED
  BY <1>4, <1>5, <1>6 DEF process_char_escaped

LEMMA EndOfOtherLiteral ==
  ASSUME NEW k, Inv(k), NEW mem \in BOOLEAN
  PROVE  Safe(EndLiteral(k, mem))
<1> DEFINE ended == [k EXCEPT !.in_literal = FALSE]
           type == k.literal_type
           c == IF type = "FLOAT" THEN Done(ended) ELSE cbjson_add_char(ended, NUL, mem)
           wrong == LiteralError(type, k.strbuf)
           next(l) == IF wrong # "OK" THEN Fail(l, wrong) ELSE process_end_of_literal(l, type, <<>>, mem)
<1>1. Inv(ended)
  BY LiteralFields
<1>2. wrong \notin {"ASSERT", "UNDEFINED"}
  BY DEF LiteralError
<1> HIDE DEF ended, wrong
<1>3. Safe(c) /\ c.err # "CALLBACK"
  BY <1>1, AddChar DEF Safe, Done, Result
<1>4. Safe(next(c.cbj))
  <2> HIDE DEF c
  <2>1. Inv(c.cbj)
    BY <1>3 DEF Safe
  <2>2. Safe(Fail(c.cbj, wrong))
    BY <2>1, <1>2 DEF Safe, Fail, Result
  <2>3. Safe(process_end_of_literal(c.cbj, type, <<>>, mem))
    BY <2>1, EndOfLiteral
  <2> QED BY <2>2, <2>3
<1>5. EndLiteral(k, mem) =
        IF c.err # "OK" THEN c ELSE Result(next(c.cbj).cbj, next(c.cbj).err, c.calls \o next(c.cbj).calls)
  BY DEF EndLiteral, Then, Behind, ended, wrong
<1> HIDE DEF c, next
<1> QED
  BY <1>3, <1>4, <1>5 DEF Safe, Result

--------------------------------------------------------------------------------
(* Going up: whatever is looked at goes as deep, so it can go back.               *)

LEMMA Pop ==
  ASSUME NEW k, Inv(k), \A p \in Paths : k.at[p] # non_matching_paths
  PROVE  Safe(pop_stack_entry(k))
<1> DEFINE n == depth(k)
           top == k.stack[n]
           sought == [p \in Paths |-> IF p \in current(k) THEN path_seek_to_depth(p, n - 1) ELSE k.match[p]]
           popped == [k EXCEPT !.stack = SubSeq(@, 1, n - 1), !.match = sought, !.in_array = top.array,
                               !.array_index = IF top.array THEN top.index ELSE @]
           l == Moved(popped, n - 1 + 1, paths)
<1>0. pop_stack_entry(k) =
        CASE n = 0 -> Fail(k, "NOT_NESTED")
          [] n > 0 /\ (\E p \in current(k) : sought[p] = 0) -> Fail(k, "ASSERT")
          [] n \in 1..k.moved -> Fail(k, "UNDEFINED")
          [] OTHER -> Done(l)
  BY DEF pop_stack_entry, PopTo
<1>1. n \in Nat /\ n = Len(k.stack)
  BY DEF Inv, depth
<1>2. Safe(Fail(k, "NOT_NESTED")) /\ (n \in 1..k.moved => Safe(Fail(k, "UNDEFINED")))
  <2>1. k.moved \in Nat
    BY DEF Inv
  <2> QED BY <1>1, <2>1 DEF Safe, Fail, Result
<1>3. \A p \in Paths : k.at[p] = paths => WentDown(k, p, n)
  BY DEF Inv, PathsInPlace, paths
<1>4. ASSUME n > 0, NEW p \in Paths, k.at[p] = paths
      PROVE  /\ n - 1 \in 0..path_depth[p]
             /\ path_seek_to_depth(p, n - 1) \in Nat \ {0}
  <2>1. path_depth[p] >= n - 1 /\ path_depth[p] \in Nat
    BY <1>3, <1>4, PathsAssumption DEF WentDown
  <2>2. n - 1 \in 0..path_depth[p]
    BY <2>1, <1>4, <1>1
  <2> QED BY <2>2, PathsAssumption
<1>5. n > 0 => \A p \in current(k) : sought[p] # 0
  BY <1>4 DEF current
<1>6. ASSUME n > 0 PROVE Inv(l)
  <2> DEFINE s == SubSeq(k.stack, 1, n - 1)
             i == IF top.array THEN top.index ELSE k.array_index
             f == [p \in Paths |-> IF popped.at[p] = n - 1 + 1 THEN paths ELSE popped.at[p]]
             g == [p \in Paths |-> IF k.at[p] = n THEN paths ELSE k.at[p]]
  <2>1. k.stack \in Seq(Entries) /\ top \in Entries
    BY <1>6, <1>1 DEF Inv
  <2>2. s \in Seq(Entries) /\ Len(s) = n - 1
    BY <2>1, <1>1, <1>6
  <2>3. top.array \in BOOLEAN /\ i \in Int
    BY <2>1 DEF Entries, Inv
  <2>4. popped.at = k.at
    BY DEF Inv, IsParser, Fields
  <2>5. f = g
    BY <2>4, <1>1
  <2>6. /\ IsParser(l) /\ l.stack = s /\ l.match = sought /\ l.in_array = top.array
        /\ l.array_index = i /\ l.moved = k.moved /\ l.at = f
    BY DEF Moved, Inv, IsParser, Fields
  <2> HIDE DEF s, i, f, sought, top, popped, l
  <2>7. /\ IsParser(l) /\ l.stack = s /\ l.match = sought /\ l.in_array = top.array
        /\ l.array_index = i /\ l.moved = k.moved /\ l.at = g
    BY <2>5, <2>6
  <2>8. sought \in [Paths -> Nat]
    <3>1. \A p \in Paths : sought[p] \in Nat
      BY <1>4, <1>6 DEF sought, Inv, current
    <3> QED BY <3>1 DEF sought
  <2>9. g \in [Paths -> Int]
    BY DEF Inv, paths
  <2>10. ASSUME NEW p \in Paths
         PROVE  /\ l.at[p] \in non_matching_paths..(n - 1)
                /\ l.at[p] <= paths => WentDown(l, p, n - 1)
                /\ l.at[p] > paths => WentDown(l, p, l.at[p] - 1)
    <3>1. l.at[p] = IF k.at[p] = n THEN paths ELSE k.at[p]
      BY <2>7
    <3>2. /\ k.at[p] \in paths..n /\ k.at[p] # non_matching_paths
          /\ k.at[p] > paths => WentDown(k, p, k.at[p] - 1)
      BY <1>1 DEF Inv, PathsInPlace, paths, non_matching_paths
    <3>3. l.match[p] = IF k.at[p] = paths THEN path_seek_to_depth(p, n - 1) ELSE k.match[p]
      BY <2>7 DEF sought, current
    <3>4. CASE k.at[p] = paths
      <4>1. path_depth[p] >= n - 1 /\ n - 1 \in 0..path_depth[p] /\ n - 1 <= n - 1 /\ path_depth[p] # n - 1 - 1
        BY <3>4, <1>1, <1>3, <1>4, <1>6, PathsAssumption
      <4>2. path_depth[p] >= n - 1 - 1
        BY <4>1, <1>1, PathsAssumption
      <4>3. WentDown(l, p, n - 1)
        BY <3>3, <3>4, <4>1, <4>2 DEF WentDown
      <4> QED BY <4>3, <3>1, <3>4, <1>1, <1>6 DEF paths, non_matching_paths
    <3>5. CASE k.at[p] = n
      <4>1. WentDown(l, p, n - 1)
        BY <3>2, <3>3, <3>5, <1>6 DEF WentDown, paths
      <4> QED BY <4>1, <3>1, <3>5, <1>1, <1>6 DEF paths, non_matching_paths
    <3>6. CASE k.at[p] \in 1..(n - 1)
      <4>1. WentDown(l, p, k.at[p] - 1)
        BY <3>2, <3>3, <3>6, <1>1 DEF WentDown, paths
      <4> QED BY <4>1, <3>1, <3>6, <1>1 DEF paths, non_matching_paths
    <3> QED BY <3>2, <3>4, <3>5, <3>6, <1>1 DEF paths
  <2>11. PathsInPlace(l)
    BY <2>2, <2>7, <2>10 DEF PathsInPlace, depth
  <2> QED
    BY <2>2, <2>3, <2>7, <2>8, <2>9, <2>11 DEF Inv
<1>7. n > 0 => Safe(Done(l))
  BY <1>6 DEF Safe, Done, Result
<1> HIDE DEF n, l, sought
<1> QED
  BY <1>0, <1>1, <1>2, <1>5, <1>7

--------------------------------------------------------------------------------
(* Going down: whatever is still looked at goes down as deep as the parser.       *)

\* A container was opened, but no path went down into it yet.
Pushed(k) ==
  /\ IsParser(k)
  /\ k.in_array \in BOOLEAN /\ k.array_index \in Int /\ k.moved \in Nat
  /\ k.stack \in Seq(Entries) /\ depth(k) > 0
  /\ k.at \in [Paths -> Int] /\ k.match \in [Paths -> Nat]
  /\ \A p \in Paths :
       /\ k.at[p] \in non_matching_paths..(depth(k) - 1)
       /\ k.at[p] <= paths => WentDown(k, p, depth(k) - 1)
       /\ k.at[p] > paths => WentDown(k, p, k.at[p] - 1)

LEMMA Push ==
  ASSUME NEW k, Inv(k), NEW mem \in BOOLEAN
  PROVE  /\ push_stack_entry(k, mem).err = "OK" => Pushed(push_stack_entry(k, mem).cbj)
         /\ push_stack_entry(k, mem).err # "OK" => Safe(push_stack_entry(k, mem))
<1> DEFINE e == [array |-> k.in_array, index |-> IF k.in_array THEN k.array_index ELSE 0]
           r == push_stack_entry(k, mem)
           l == r.cbj
<1>1. r.err # "OK" => Safe(r)
  BY DEF push_stack_entry, Fail, Done, Result, Safe
<1>2. ASSUME r.err = "OK" PROVE Pushed(l)
  <2>1. /\ IsParser(l) /\ l.stack = Append(k.stack, e)
        /\ l.at = k.at /\ l.match = k.match /\ l.in_array = k.in_array /\ l.array_index = k.array_index
        /\ l.moved \in {depth(k), k.moved}
    BY <1>2 DEF push_stack_entry, Fail, Done, Result, Inv, IsParser, Fields
  <2>2. e \in Entries /\ k.stack \in Seq(Entries)
    BY DEF Entries, Inv
  <2> HIDE DEF e, l
  <2>3. l.stack \in Seq(Entries) /\ depth(l) = depth(k) + 1 /\ depth(k) \in Nat
    BY <2>1, <2>2 DEF depth
  <2>5. l.moved \in Nat
    BY <2>1, <2>3 DEF Inv
  <2>4. ASSUME NEW p \in Paths
        PROVE  /\ l.at[p] \in non_matching_paths..(depth(l) - 1)
               /\ l.at[p] <= paths => WentDown(l, p, depth(l) - 1)
               /\ l.at[p] > paths => WentDown(l, p, l.at[p] - 1)
    <3>1. /\ k.at[p] \in non_matching_paths..depth(k)
          /\ k.at[p] <= paths => WentDown(k, p, depth(k))
          /\ k.at[p] > paths => WentDown(k, p, k.at[p] - 1)
      BY DEF Inv, PathsInPlace
    <3>2. \A d : WentDown(l, p, d) <=> WentDown(k, p, d)
      BY <2>1 DEF WentDown
    <3>3. depth(l) - 1 = depth(k)
      BY <2>3
    <3> QED BY <3>1, <3>2, <3>3, <2>1
  <2> QED
    BY <2>1, <2>3, <2>4, <2>5 DEF Pushed, Inv
<1> QED
  BY <1>1, <1>2

LEMMA Store ==
  ASSUME NEW k, Pushed(k)
  PROVE  /\ store_non_matching_paths_in_stack_entry(k).err = "OK"
         /\ Inv(store_non_matching_paths_in_stack_entry(k).cbj)
<1> DEFINE d == depth(k)
           down == {p \in current(k) : GoesDown(k, p)}
           gone == [p \in Paths |-> IF p \in down THEN path_descend(p, k.match[p]) ELSE k.match[p]]
           f == [p \in Paths |-> IF k.at[p] = non_matching_paths \/ p \in current(k) \ down
                                  THEN d ELSE k.at[p]]
           l == [k EXCEPT !.match = gone, !.at = f]
           lost(p) == \/ ReachesDepth(k, p) /\ component(k, p) = NoComponent
                      \/ p \in down /\ gone[p] = 0
<1>0. store_non_matching_paths_in_stack_entry(k) =
        IF \E p \in current(k) : lost(p) THEN Fail(k, "ASSERT") ELSE Done(l)
  BY DEF store_non_matching_paths_in_stack_entry, GoDown, StoreOthers
<1>1. d \in Nat \ {0} /\ d = Len(k.stack)
  BY DEF Pushed, depth
<1>2. \A p \in Paths :
        /\ k.at[p] \in non_matching_paths..(d - 1)
        /\ k.at[p] <= paths => WentDown(k, p, d - 1)
        /\ k.at[p] > paths => WentDown(k, p, k.at[p] - 1)
  BY DEF Pushed
<1>3. ASSUME NEW p \in current(k), ReachesDepth(k, p)
      PROVE  /\ component(k, p) # NoComponent
             /\ path_depth[p] >= d
             /\ \E e \in 0..path_depth[p] : e <= d /\ path_descend(p, k.match[p]) = path_seek_to_depth(p, e)
  <2>1. p \in Paths /\ k.at[p] = paths /\ path_depth[p] \in Nat
    BY PathsAssumption DEF current
  <2>2. PICK e \in 0..path_depth[p] : e <= d - 1 /\ k.match[p] = path_seek_to_depth(p, e)
    BY <2>1, <1>2 DEF WentDown, paths
  <2>3. path_depth[p] >= d /\ e \in 0..(path_depth[p] - 1) /\ e + 1 \in 0..path_depth[p] /\ e + 1 <= d
    BY <2>1, <2>2, <1>1, <1>3 DEF ReachesDepth
  <2> HIDE DEF d
  <2>4. path_descend(p, k.match[p]) = path_seek_to_depth(p, e + 1)
        /\ parse_next_path_component(p, k.match[p]) # NoComponent
    BY <2>1, <2>2, <2>3, PathsAssumption
  <2> QED BY <2>3, <2>4 DEF component
<1>4. ASSUME NEW p \in down
      PROVE  /\ p \in current(k) /\ ReachesDepth(k, p) /\ path_depth[p] >= d
             /\ \E e \in 0..path_depth[p] : e <= d /\ gone[p] = path_seek_to_depth(p, e)
  <2>1. p \in current(k) /\ ReachesDepth(k, p) /\ p \in Paths
    BY DEF GoesDown, current
  <2> QED BY <2>1, <1>3
<1>5. \A p \in current(k) : ~lost(p)
  <2>1. ASSUME NEW p \in current(k), p \in down PROVE gone[p] # 0
    <3>1. p \in Paths
      BY DEF current
    <3> HIDE DEF d, gone
    <3> QED BY <3>1, <2>1, <1>4, PathsAssumption
  <2> QED BY <2>1, <1>3
<1>6. /\ IsParser(l) /\ l.match = gone /\ l.at = f /\ l.stack = k.stack
      /\ l.in_array = k.in_array /\ l.array_index = k.array_index /\ l.moved = k.moved
  BY DEF Pushed, IsParser, Fields
<1>7. gone \in [Paths -> Nat] /\ f \in [Paths -> Int]
  <2>1. \A p \in Paths : gone[p] \in Nat
    <3> SUFFICES ASSUME NEW p \in Paths PROVE gone[p] \in Nat
      OBVIOUS
    <3>1. CASE p \in down
      <4> HIDE DEF d, gone, down
      <4> QED BY <3>1, <1>4, PathsAssumption
    <3>2. CASE p \notin down
      BY <3>2 DEF Pushed
    <3> QED BY <3>1, <3>2
  <2>2. \A p \in Paths : f[p] \in Int
    BY <1>1 DEF Pushed
  <2> QED BY <2>1, <2>2
<1> HIDE DEF l, gone, f, down, d
<1>8. ASSUME NEW p \in Paths
      PROVE  /\ l.at[p] \in non_matching_paths..d
             /\ l.at[p] <= paths => WentDown(l, p, d)
             /\ l.at[p] > paths => WentDown(l, p, l.at[p] - 1)
  <2>1. CASE p \in down
    <3>1. k.at[p] = paths /\ l.at[p] = paths
      BY <2>1, <1>4, <1>6 DEF current, f, paths, non_matching_paths
    <3>2. path_depth[p] >= d - 1 /\ path_depth[p] # d - 1
      BY <2>1, <1>1, <1>4, PathsAssumption
    <3>3. \E e \in 0..path_depth[p] : e <= d /\ l.match[p] = path_seek_to_depth(p, e)
      BY <2>1, <1>4, <1>6
    <3>4. WentDown(l, p, d)
      BY <3>2, <3>3 DEF WentDown
    <3> QED BY <3>1, <3>4, <1>1 DEF paths, non_matching_paths
  <2>2. ASSUME ~(p \in down), k.at[p] <= paths
        PROVE  l.at[p] = d /\ WentDown(l, p, d - 1)
    <3>1. k.at[p] = non_matching_paths \/ p \in current(k) \ down
      BY <2>2, <1>2 DEF current, paths, non_matching_paths
    <3>2. l.at[p] = d
      BY <3>1, <1>6 DEF f
    <3>3. l.match[p] = k.match[p]
      BY <2>2, <1>6 DEF gone
    <3>4. WentDown(k, p, d - 1)
      BY <2>2, <1>2
    <3> QED BY <3>2, <3>3, <3>4 DEF WentDown
  <2>3. ASSUME ~(p \in down), k.at[p] > paths
        PROVE  l.at[p] = k.at[p] /\ WentDown(l, p, k.at[p] - 1)
    <3>1. l.at[p] = k.at[p]
      BY <2>3, <1>6 DEF f, current, paths, non_matching_paths
    <3>2. l.match[p] = k.match[p]
      BY <2>3, <1>6 DEF gone
    <3> QED BY <2>3, <3>1, <3>2, <1>2 DEF WentDown
  <2> QED
    BY <2>1, <2>2, <2>3, <1>1, <1>2 DEF paths, non_matching_paths
<1>9. Inv(l)
  <2>1. depth(l) = d
    BY <1>6 DEF depth, d
  <2>2. PathsInPlace(l)
    BY <2>1, <1>8 DEF PathsInPlace
  <2> QED BY <2>2, <1>6, <1>7 DEF Inv, Pushed
<1> QED
  BY <1>0, <1>5, <1>9 DEF Done, Result

--------------------------------------------------------------------------------
(* The characters outside of a literal.                                           *)

\* When the callback of one path for an object fails, all paths stay where they
\* are. The object above it was none that a path looks for, so whatever is looked
\* at goes down to it at least.
LEMMA NotGoneDown ==
  ASSUME NEW k, Pushed(k), ObjectsApart, \E p \in current(k) : IsForObject(k, p)
  PROVE  Inv(k)
<1> DEFINE d == depth(k)
<1>1. d \in Nat \ {0}
  BY DEF Pushed, depth
<1>2. \A p \in Paths :
        /\ k.at[p] \in non_matching_paths..(d - 1)
        /\ k.at[p] <= paths => WentDown(k, p, d - 1)
        /\ k.at[p] > paths => WentDown(k, p, k.at[p] - 1)
  BY DEF Pushed
<1>3. d \in ObjectDepths
  <2>1. PICK p \in current(k) : IsForObject(k, p)
    OBVIOUS
  <2>2. p \in Paths /\ k.at[p] <= paths
    BY DEF current, paths
  <2>3. PICK e \in 0..path_depth[p] : k.match[p] = path_seek_to_depth(p, e)
    BY <2>2, <1>2 DEF WentDown
  <2>4. /\ d = path_depth[p]
        /\ parse_next_path_component(p, path_seek_to_depth(p, e)).type = "DESCEND"
        /\ parse_next_path_component(p, path_seek_to_depth(p, e)).next > Len(PathText[p])
    BY <2>1, <2>3 DEF IsForObject, component
  <2> HIDE DEF d
  <2> QED BY <2>2, <2>4 DEF ObjectDepths
<1>4. d - 1 \notin ObjectDepths
  <2>1. d - 1 + 1 = d
    BY <1>1
  <2> QED BY <1>3, <2>1 DEF ObjectsApart
<1> HIDE DEF d
<1>5. ASSUME NEW p \in Paths, k.at[p] <= paths PROVE WentDown(k, p, d)
  <2>1. /\ path_depth[p] \in Nat /\ path_depth[p] >= d - 1 - 1
        /\ path_depth[p] = d - 1 - 1 => d - 1 \in ObjectDepths
    BY <1>2, <1>5, PathsAssumption DEF WentDown
  <2>2. path_depth[p] >= d - 1
    BY <2>1, <1>1, <1>4
  <2>3. PICK e \in 0..path_depth[p] : e <= d - 1 /\ k.match[p] = path_seek_to_depth(p, e)
    BY <1>2, <1>5 DEF WentDown
  <2>4. e <= d
    BY <2>1, <2>3, <1>1
  <2> QED BY <2>2, <2>3, <2>4, <1>3 DEF WentDown
<1>6. PathsInPlace(k)
  <2> SUFFICES ASSUME NEW p \in Paths
               PROVE  /\ k.at[p] \in non_matching_paths..d
                      /\ k.at[p] <= paths => WentDown(k, p, d)
                      /\ k.at[p] > paths => WentDown(k, p, k.at[p] - 1)
    BY DEF PathsInPlace, d
  <2>1. k.at[p] \in non_matching_paths..d
    BY <1>1, <1>2 DEF non_matching_paths
  <2> QED BY <2>1, <1>2, <1>5
<1> QED
  BY <1>6 DEF Inv, Pushed

LEMMA StartOfObject ==
  ASSUME NEW k, Inv(k), NEW mem \in BOOLEAN
  PROVE  Safe(process_start_of_object(k, mem))
<1> DEFINE pushed == push_stack_entry(k, mem)
           told(l) == Call(l, {p \in current(l) : IsForObject(l, p)}, "NONE", <<>>, mem)
           began(l) == Done([l EXCEPT !.str_is_key = TRUE, !.in_array = FALSE])
           stored(l) == store_non_matching_paths_in_stack_entry(l)
           j == pushed.cbj
           i == stored(j).cbj
<1>1. CASE pushed.err # "OK"
  <2>1. process_start_of_object(k, mem) = pushed
    BY <1>1 DEF process_start_of_object, Then
  <2> QED BY <2>1, <1>1, Push
<1>2. ASSUME pushed.err = "OK" PROVE Safe(process_start_of_object(k, mem))
  <2>1. Pushed(j)
    BY <1>2, Push
  <2>2. told(j).cbj = j /\ told(j).err \in {"OK", "CALLBACK"}
    BY CallKeeps
  <2>3. stored(j).err = "OK" /\ Inv(i)
    BY <2>1, Store
  <2>4. Inv(began(i).cbj) /\ began(i).err = "OK"
    <3> DEFINE l == [i EXCEPT !.str_is_key = TRUE, !.in_array = FALSE]
    <3>1. /\ IsParser(l) /\ l.stack = i.stack /\ l.at = i.at /\ l.match = i.match
          /\ l.in_array = FALSE /\ l.array_index = i.array_index /\ l.moved = i.moved
      BY <2>3 DEF Inv, IsParser, Fields
    <3>2. Inv(l)
      <4> HIDE DEF l, i
      <4> QED BY <3>1, <2>3, SamePlace DEF Inv
    <3> QED BY <3>2 DEF Done, Result
  <2>5. CASE told(j).err = "OK"
    <3>1. process_start_of_object(k, mem).err = "OK" /\ process_start_of_object(k, mem).cbj = began(i).cbj
      BY <1>2, <2>2, <2>3, <2>4, <2>5 DEF process_start_of_object, Then, Behind, Result
    <3> HIDE DEF pushed, began, i, j
    <3> QED BY <2>4, <3>1 DEF Safe
  <2>6. CASE told(j).err = "CALLBACK"
    <3>1. process_start_of_object(k, mem).err = "CALLBACK" /\ process_start_of_object(k, mem).cbj = j
      BY <1>2, <2>2, <2>6 DEF process_start_of_object, Then, Behind, Result
    <3>2. \E p \in current(j) : IsForObject(j, p)
      BY <2>6 DEF Call, Result
    <3> HIDE DEF pushed, i, j
    <3>3. ObjectsApart => Inv(j)
      BY <2>1, <3>2, NotGoneDown
    <3> QED BY <3>1, <3>3 DEF Safe
  <2> QED BY <2>2, <2>5, <2>6
<1> QED
  BY <1>1, <1>2

LEMMA StartOfArray ==
  ASSUME NEW k, Inv(k), NEW mem \in BOOLEAN
  PROVE  Safe(process_start_of_array(k, mem))
<1> DEFINE pushed == push_stack_entry(k, mem)
           began(l) == Done([l EXCEPT !.str_is_key = FALSE, !.array_index = 0])
           stored(l) == store_non_matching_paths_in_stack_entry(l)
           j == [pushed.cbj EXCEPT !.in_array = TRUE]
           i == stored(j).cbj
<1>1. CASE pushed.err # "OK"
  <2>1. process_start_of_array(k, mem) = pushed
    BY <1>1 DEF process_start_of_array, Then
  <2> QED BY <2>1, <1>1, Push
<1>2. ASSUME pushed.err = "OK" PROVE Safe(process_start_of_array(k, mem))
  <2>1. Pushed(j)
    <3> DEFINE q == pushed.cbj
    <3>1. Pushed(q)
      BY <1>2, Push
    <3> HIDE DEF pushed, q
    <3>2. /\ IsParser(j) /\ j.stack = q.stack /\ j.at = q.at /\ j.match = q.match
          /\ j.in_array = TRUE /\ j.array_index = q.array_index /\ j.moved = q.moved
      BY <3>1 DEF q, Pushed, IsParser, Fields
    <3> HIDE DEF j
    <3>3. depth(j) = depth(q) /\ \A p, d : WentDown(j, p, d) <=> WentDown(q, p, d)
      BY <3>2 DEF depth, WentDown
    <3> QED BY <3>1, <3>2, <3>3 DEF Pushed
  <2>2. stored(j).err = "OK" /\ Inv(i)
    BY <2>1, Store
  <2>3. Inv(began(i).cbj) /\ began(i).err = "OK"
    <3> DEFINE l == [i EXCEPT !.str_is_key = FALSE, !.array_index = 0]
    <3>1. /\ IsParser(l) /\ l.stack = i.stack /\ l.at = i.at /\ l.match = i.match
          /\ l.in_array = i.in_array /\ l.array_index = 0 /\ l.moved = i.moved
      BY <2>2 DEF Inv, IsParser, Fields
    <3>2. Inv(l)
      <4> HIDE DEF l, i
      <4> QED BY <3>1, <2>2, SamePlace DEF Inv
    <3> QED BY <3>2 DEF Done, Result
  <2>4. process_start_of_array(k, mem).err = "OK" /\ process_start_of_array(k, mem).cbj = began(i).cbj
    BY <1>2, <2>2, <2>3 DEF process_start_of_array, Then, Behind, Result
  <2> HIDE DEF pushed, began, i, j
  <2> QED BY <2>3, <2>4 DEF Safe
<1> QED
  BY <1>1, <1>2

LEMMA EndOfContainer ==
  ASSUME NEW k, Inv(k)
  PROVE  Safe(process_end_of_object(k)) /\ Safe(process_end_of_array(k))
<1>1. ASSUME NEW l, Inv(l) PROVE Safe(pop_stack_entry(restore_non_matching_paths(l)))
  <2> DEFINE r == restore_non_matching_paths(l)
  <2>1. Inv(r)
    BY <1>1, Restored
  <2>2. \A p \in Paths : r.at[p] # non_matching_paths
    <3> DEFINE f == [p \in Paths |-> IF l.at[p] = non_matching_paths THEN paths ELSE l.at[p]]
    <3>1. r = [l EXCEPT !.at = f]
      BY DEF restore_non_matching_paths, Moved
    <3>2. \A p \in Paths : f[p] # non_matching_paths
      BY DEF paths, non_matching_paths
    <3>3. r.at = f
      <4>1. IsParser(l)
        BY <1>1 DEF Inv
      <4> HIDE DEF f, r
      <4> QED BY <3>1, <4>1, OtherLists
    <3> HIDE DEF f, r
    <3> QED BY <3>2, <3>3
  <2> HIDE DEF r
  <2> QED BY <2>1, <2>2, Pop DEF r
<1>2. Inv([k EXCEPT !.in_array = FALSE])
  <2> DEFINE l == [k EXCEPT !.in_array = FALSE]
  <2>1. /\ IsParser(l) /\ l.stack = k.stack /\ l.at = k.at /\ l.match = k.match
        /\ l.in_array = FALSE /\ l.array_index = k.array_index /\ l.moved = k.moved
    BY DEF Inv, IsParser, Fields
  <2> HIDE DEF l
  <2>2. Inv(l)
    BY <2>1, SamePlace DEF Inv
  <2> QED BY <2>2 DEF l
<1> QED
  BY <1>1, <1>2 DEF process_end_of_object, process_end_of_array

\* A path that is put aside for a key stays as deep as it is.
LEMMA Separators ==
  ASSUME NEW k, Inv(k)
  PROVE  Safe(process_key_value_separator(k)) /\ Safe(process_entry_separator(k))
<1> DEFINE f == [p \in Paths |-> IF k.at[p] = paths /\ ~path_match_key(k, p)
                                  THEN non_matching_paths ELSE k.at[p]]
           l == [k EXCEPT !.str_is_key = FALSE, !.at = f]
<1>1. Inv(l)
  <2>1. /\ IsParser(l) /\ l.stack = k.stack /\ l.at = f /\ l.match = k.match
        /\ l.in_array = k.in_array /\ l.array_index = k.array_index /\ l.moved = k.moved
    BY DEF Inv, IsParser, Fields
  <2>2. \A p \in Paths : f[p] = k.at[p] \/ (f[p] = non_matching_paths /\ k.at[p] = paths)
    BY Zenon
  <2>3. f \in [Paths -> Int]
    BY DEF Inv, non_matching_paths
  <2> HIDE DEF l, f
  <2>4. depth(l) = depth(k) /\ depth(k) \in Nat
    BY <2>1 DEF depth, Inv
  <2>5. PathsInPlace(l)
    <3> SUFFICES ASSUME NEW p \in Paths
                 PROVE  /\ l.at[p] \in non_matching_paths..depth(l)
                        /\ l.at[p] <= paths => WentDown(l, p, depth(l))
                        /\ l.at[p] > paths => WentDown(l, p, l.at[p] - 1)
      BY DEF PathsInPlace
    <3>1. /\ k.at[p] \in non_matching_paths..depth(k)
          /\ k.at[p] <= paths => WentDown(k, p, depth(k))
          /\ k.at[p] > paths => WentDown(k, p, k.at[p] - 1)
      BY DEF Inv, PathsInPlace
    <3>2. \A d : WentDown(l, p, d) <=> WentDown(k, p, d)
      BY <2>1 DEF WentDown
    <3> QED BY <3>1, <3>2, <2>1, <2>2, <2>4 DEF paths, non_matching_paths
  <2> QED BY <2>1, <2>3, <2>5 DEF Inv
<1>2. Safe(process_key_value_separator(k))
  <2>1. Safe(Fail(k, "KEY_IN_ARRAY")) /\ Safe(Fail(k, "NO_KEY"))
    BY DEF Safe, Fail, Result
  <2>2. Safe(Done(l))
    BY <1>1 DEF Safe, Done, Result
  <2> QED BY <2>1, <2>2 DEF process_key_value_separator
<1>3. Safe(process_entry_separator(k))
  <2>1. Inv([k EXCEPT !.array_index = @ + 1])
    <3> DEFINE m == [k EXCEPT !.array_index = @ + 1]
    <3>1. /\ IsParser(m) /\ m.stack = k.stack /\ m.at = k.at /\ m.match = k.match
          /\ m.in_array = k.in_array /\ m.array_index = k.array_index + 1 /\ m.moved = k.moved
      BY DEF Inv, IsParser, Fields
    <3> HIDE DEF m
    <3>2. Inv(m)
      BY <3>1, SamePlace DEF Inv
    <3> QED BY <3>2 DEF m
  <2>2. Inv([k EXCEPT !.str_is_key = TRUE])
    <3> DEFINE m == [k EXCEPT !.str_is_key = TRUE]
    <3>1. /\ IsParser(m) /\ m.stack = k.stack /\ m.at = k.at /\ m.match = k.match
          /\ m.in_array = k.in_array /\ m.array_index = k.array_index /\ m.moved = k.moved
      BY DEF Inv, IsParser, Fields
    <3> HIDE DEF m
    <3>2. Inv(m)
      BY <3>1, SamePlace DEF Inv
    <3> QED BY <3>2 DEF m
  <2> QED BY <2>1, <2>2 DEF process_entry_separator, Safe, Done, Result
<1> QED
  BY <1>2, <1>3

LEMMA StartOfLiteral ==
  ASSUME NEW k, Inv(k), NEW type
  PROVE  Inv(process_start_of_literal(k, type))
<1> DEFINE l == process_start_of_literal(k, type)
<1>1. /\ IsParser(l) /\ l.stack = k.stack /\ l.at = k.at /\ l.match = k.match
      /\ l.in_array = k.in_array /\ l.array_index = k.array_index /\ l.moved = k.moved
  BY DEF process_start_of_literal, Inv, IsParser, Fields
<1>2. Inv(l)
  <2> HIDE DEF l
  <2> QED BY <1>1, SamePlace DEF Inv
<1> QED
  BY <1>2

LEMMA CharOutsideLiteral ==
  ASSUME NEW k, Inv(k), NEW c, NEW mem \in BOOLEAN
  PROVE  Safe(process_char_outside_literal(k, c, mem))
<1>1. \A type : Safe(Done(process_start_of_literal(k, type)))
  BY StartOfLiteral DEF Safe, Done, Result
<1>2. \A type : Safe(cbjson_add_char(process_start_of_literal(k, type), c, mem))
  BY StartOfLiteral, AddChar
<1>3. Safe(Done(k))
  BY DEF Safe, Done, Result
<1>4. Safe(process_start_of_object(k, mem)) /\ Safe(process_start_of_array(k, mem))
  BY StartOfObject, StartOfArray
<1>5. Safe(process_end_of_object(k)) /\ Safe(process_end_of_array(k))
  BY EndOfContainer
<1>6. Safe(process_key_value_separator(k)) /\ Safe(process_entry_separator(k))
  BY Separators
<1> QED
  BY <1>1, <1>2, <1>3, <1>4, <1>5, <1>6 DEF process_char_outside_literal

--------------------------------------------------------------------------------
(* Every character.                                                               *)

LEMMA CharInLiteral ==
  ASSUME NEW k, Inv(k), NEW c, NEW mem \in BOOLEAN
  PROVE  Safe(process_char_in_literal(k, c, mem))
<1> DEFINE type == IF k.literal_type = "INTEGER" /\ c \in {".", "e"} THEN "FLOAT" ELSE k.literal_type
           typed == [k EXCEPT !.literal_type = type]
           e == EndLiteral(k, mem)
           next(l) == process_char_outside_literal(l, c, mem)
           r == Then(e, LAMBDA l : process_char_outside_literal(l, c, mem))
<1>1. Safe(process_char_in_string(k, c, mem))
  BY CharInString
<1>2. Safe(cbjson_add_char(typed, c, mem))
  <2>1. /\ IsParser(typed) /\ typed.stack = k.stack /\ typed.at = k.at /\ typed.match = k.match
        /\ typed.in_array = k.in_array /\ typed.array_index = k.array_index /\ typed.moved = k.moved
    BY DEF Inv, IsParser, Fields
  <2> HIDE DEF typed
  <2>2. Inv(typed)
    BY <2>1, SamePlace DEF Inv
  <2> QED BY <2>2, AddChar
<1>3. Safe(r)
  <2>1. Safe(e)
    BY EndOfOtherLiteral
  <2>2. r = IF e.err # "OK" THEN e ELSE Result(next(e.cbj).cbj, next(e.cbj).err, e.calls \o next(e.cbj).calls)
    BY DEF Then, Behind
  <2> HIDE DEF e, r
  <2>3. e.err = "OK" => Safe(next(e.cbj))
    BY <2>1, CharOutsideLiteral DEF Safe
  <2> HIDE DEF next
  <2> QED BY <2>1, <2>2, <2>3 DEF Safe, Result
<1>4. \/ process_char_in_literal(k, c, mem) = process_char_in_string(k, c, mem)
      \/ process_char_in_literal(k, c, mem) = cbjson_add_char(typed, c, mem)
      \/ process_char_in_literal(k, c, mem) = r
  BY DEF process_char_in_literal
<1> QED
  BY <1>1, <1>2, <1>3, <1>4

LEMMA Char ==
  ASSUME NEW k, Inv(k), NEW c, NEW mem \in BOOLEAN
  PROVE  Safe(process_char(k, c, mem))
<1>1. Safe(process_char_escaped(k, c, mem))
  BY CharInString
<1>2. Safe(process_char_in_literal(k, c, mem)) /\ Safe(process_char_outside_literal(k, c, mem))
  BY CharInLiteral, CharOutsideLiteral
<1> QED
  BY <1>1, <1>2 DEF process_char

--------------------------------------------------------------------------------

Kept ==
  /\ result # "ASSERT"
  /\ result # "CALLBACK" \/ ObjectsApart => Inv(parser)

LEMMA NewParser == Inv(cbjson_init)
<1> DEFINE k == cbjson_init
<1>1. /\ IsParser(k) /\ k.stack = <<>> /\ k.at = [p \in Paths |-> paths] /\ k.match = [p \in Paths |-> 1]
      /\ k.in_array = FALSE /\ k.array_index = 0 /\ k.moved = 0
  BY DEF cbjson_init, IsParser, Fields
<1> HIDE DEF k
<1>2. k.stack \in Seq(Entries) /\ depth(k) = 0
  BY <1>1 DEF depth
<1>3. PathsInPlace(k)
  BY <1>1, <1>2, PathsAssumption DEF PathsInPlace, WentDown, paths, non_matching_paths
<1>4. k.at \in [Paths -> Int] /\ k.match \in [Paths -> Nat]
  BY <1>1 DEF paths
<1>5. k.in_array \in BOOLEAN /\ k.array_index \in Int /\ k.moved \in Nat
  <2>1. k.in_array \in BOOLEAN
    BY <1>1, Zenon
  <2> QED BY <1>1, <2>1
<1>6. Inv(k)
  BY <1>1, <1>2, <1>3, <1>4, <1>5 DEF Inv
<1> QED
  BY <1>6 DEF k

LEMMA InitKept == TextInit => Kept
  BY NewParser DEF TextInit, Kept

LEMMA NextKept == Kept /\ [Feed]_textVars => Kept'
<1> SUFFICES ASSUME Kept, [Feed]_textVars PROVE Kept'
  OBVIOUS
<1>1. CASE Feed
  <2>1. PICK c \in Chars, mem \in BOOLEAN :
          parser' = process_char(parser, c, mem).cbj /\ result' = process_char(parser, c, mem).err
    BY <1>1 DEF Feed
  <2>2. Inv(parser)
    BY <1>1 DEF Kept, Feed
  <2>3. Safe(process_char(parser, c, mem))
    BY <2>2, Char
  <2> QED BY <2>1, <2>3 DEF Safe, Kept
<1>2. CASE UNCHANGED textVars
  BY <1>2 DEF textVars, Kept
<1> QED
  BY <1>1, <1>2

\* No text, for any paths, makes an assertion of the parser fail (cbjson.c:286, 656,
\* 672), also behind a callback that failed if the paths look for no object right
\* inside another one.
THEOREM NoTextFailsAssertions == TextSpec => []NoAssertFails
<1>1. Kept => NoAssertFails
  BY DEF Kept, NoAssertFails
<1> QED
  BY <1>1, InitKept, NextKept, PTL DEF TextSpec

--------------------------------------------------------------------------------
(* The release check. What the user has left, and what is shown, follow from      *)
(* where the request is: nothing of the parser matters, only whether it is used.  *)

\* The memory of the last release is freed, or it is in the list.
NothingCurrent ==
  /\ task \in {"cleanup", "delete", "return"} \/ done => current_release = NULL
  /\ task = "judge" => err \/ current_release = NULL

\* The application can be left only behind the last callback.
DoneIsOver == done => task \in {"none", "delete", "return"}

LeftInv == NothingCurrent /\ DoneIsOver /\ LeftIsLeft

LEMMA LeftInit == Init => LeftInv
BY DEF Init, LeftInv, NothingCurrent, DoneIsOver, LeftIsLeft

LEMMA LeftNext == LeftInv /\ [Next]_vars => LeftInv'
<1> SUFFICES ASSUME LeftInv, [Next]_vars PROVE LeftInv'
  OBVIOUS
<1> USE DEF LeftInv, NothingCurrent, DoneIsOver, LeftIsLeft
<1>1. CASE github_release_ota_run
  BY <1>1 DEF github_release_ota_run, github_list_releases
<1>2. CASE ExitPressed
  BY <1>2 DEF ExitPressed, parserVars
<1>3. CASE ExitLeaves
  BY <1>3 DEF ExitLeaves, remove_ota_labels, ota_http_update_free_releases, requestVars
<1>4. CASE OnData
  <2>1. task = "perform" /\ task' \in {"perform", "panic"}
    BY <1>4 DEF OnData, http_progress_cb
  <2>2. UNCHANGED <<err, done, user, wait_modal, app_container, ota_labels>>
    BY <1>4 DEF OnData, screenVars
  <2> QED BY <2>1, <2>2
<1>5. CASE ClientInit
  BY <1>5 DEF ClientInit, parserVars, screenVars
<1>6. CASE ClientInitFails
  BY <1>6 DEF ClientInitFails, http_error_cb, ota_cb_error
<1>7. CASE Restart \/ FreedIsDrawn
  BY <1>7 DEF Restart, FreedIsDrawn, Reset
<1>8. CASE OnFinish
  BY <1>8 DEF OnFinish, http_done_cb, ota_cb
<1>9. CASE OnError
  BY <1>9 DEF OnError, http_error_cb, ota_cb_error
<1>10. CASE PerformFails
  BY <1>10 DEF PerformFails, parserVars, screenVars
<1>11. CASE Judge
  <2>1. CASE err \/ abort
    BY <1>11, <2>1 DEF Judge, http_error_cb, ota_cb_error
  <2>2. CASE ~(err \/ abort)
    BY <1>11, <2>2 DEF Judge, parserVars, screenVars
  <2> QED BY <2>1, <2>2
<1>12. CASE ClientCleanup
  BY <1>12 DEF ClientCleanup, parserVars, screenVars
<1>13. CASE TaskDelete
  BY <1>13 DEF TaskDelete, parserVars, screenVars
<1>14. CASE UNCHANGED vars
  BY <1>14 DEF vars, requestVars, parserVars, screenVars
<1> QED
  BY <1>1, <1>2, <1>3, <1>4, <1>5, <1>6, <1>7, <1>8, <1>9, <1>10, <1>11, <1>12, <1>13, <1>14 DEF Next, ClientRun

\* In the menu nothing of the application is shown, and nothing of it happens any
\* more (github_release_ota.c:45).
THEOREM NothingIsLeft == Spec => []LeftIsLeft
<1>1. LeftInv => LeftIsLeft
  BY DEF LeftInv
<1> QED
  BY <1>1, LeftInit, LeftNext, PTL DEF Spec

--------------------------------------------------------------------------------
(* What is shown. A label is allocated by the one report of a list; a list that   *)
(* is reported and then freed makes its request an aborted one.                   *)

\* What has been reported, by the place of the task.
ReportsMade ==
  /\ task \in {"init", "perform"} => reports = <<>> /\ ~ota_labels
  /\ task = "judge" => reports \in {<<>>, <<"done">>, <<"error">>}

\* The labels are those of the list reported.
LabelsOfReleases ==
  IF ~ota_labels THEN children = {}
  ELSE aborted \/ (reports = <<"done">> /\ children = 1..Len(releases))

\* Only an aborted request leaves a freed label.
FreedIfAborted == freed_child => aborted

ShownInv == LeftInv /\ ReportsMade /\ LabelsOfReleases /\ FreedIfAborted

LEMMA Reporting ==
  /\ Append(<<>>, "done") = <<"done">> /\ Append(<<>>, "error") = <<"error">>
  /\ <<"error">> # <<"done">> /\ <<>> # <<"done">>
<1>1. Append(<<>>, "done") = <<"done">>
  OBVIOUS
<1>2. Append(<<>>, "error") = <<"error">>
  OBVIOUS
<1>3. Len(<<>>) = 0 /\ Len(<<"done">>) = 1
  OBVIOUS
<1>4. <<"error">>[1] # <<"done">>[1]
  OBVIOUS
<1>5. <<"error">> # <<"done">> BY <1>4
<1>6. <<>> # <<"done">> BY <1>3
<1> QED BY <1>1, <1>2, <1>5, <1>6

LEMMA ShownInit == Init => ShownInv
BY LeftInit DEF Init, ShownInv, ReportsMade, LabelsOfReleases, FreedIfAborted

\* An error frees the list: if it was reported as done, the request is aborted.
LEMMA ErrorReported ==
  ASSUME ReportsMade, LabelsOfReleases, FreedIfAborted, task \in {"init", "perform", "judge"},
         http_error_cb
  PROVE  LabelsOfReleases' /\ FreedIfAborted'
         /\ (task \in {"init", "perform"} => reports' = <<"error">> /\ ~ota_labels')
<1>1. /\ UNCHANGED <<ota_labels, children, freed_child>> /\ reports' = Append(reports, "error")
      /\ aborted' = (aborted \/ reports = <<"done">>)
  BY DEF http_error_cb, ota_cb_error
<1>2. ASSUME ~ota_labels PROVE LabelsOfReleases'
  BY <1>1, <1>2 DEF LabelsOfReleases
<1>3. ASSUME ota_labels PROVE LabelsOfReleases'
  <2>1. aborted \/ reports = <<"done">>
    BY <1>3 DEF LabelsOfReleases
  <2> QED BY <1>1, <1>3, <2>1 DEF LabelsOfReleases
<1>4. FreedIfAborted'
  BY <1>1 DEF FreedIfAborted
<1>5. ASSUME task \in {"init", "perform"} PROVE reports' = <<"error">> /\ ~ota_labels'
  BY <1>1, <1>5, Reporting DEF ReportsMade
<1> QED BY <1>1, <1>2, <1>3, <1>4, <1>5

LEMMA ShownNext == ShownInv /\ [Next]_vars => ShownInv'
<1> SUFFICES ASSUME ShownInv, [Next]_vars PROVE ReportsMade' /\ LabelsOfReleases' /\ FreedIfAborted'
  BY LeftNext DEF ShownInv
<1> USE DEF ShownInv, ReportsMade, LabelsOfReleases, FreedIfAborted
<1>1. CASE github_release_ota_run
  BY <1>1 DEF github_release_ota_run, github_list_releases, LeftInv, LeftIsLeft
<1>2. CASE ExitPressed
  BY <1>2 DEF ExitPressed, parserVars, ghostVars
<1>3. CASE ExitLeaves
  <2> USE DEF LeftInv
  <2>1. task \notin {"init", "perform", "judge"} /\ UNCHANGED <<task, reports, aborted>>
    BY <1>3 DEF ExitLeaves, requestVars, ghostVars, LeftInv, DoneIsOver
  <2>2. ~ota_labels' /\ children' = {}
    BY <1>3 DEF ExitLeaves, remove_ota_labels
  <2>3. ASSUME ~aborted PROVE ~freed_child'
    <3>1. children \ (1..Len(releases)) = {} \/ ~ota_labels
      BY <2>3
    <3> QED BY <1>3, <2>3, <3>1 DEF ExitLeaves, remove_ota_labels
  <2> QED BY <2>1, <2>2, <2>3
<1>4. CASE OnData
  <2>1. task = "perform" /\ task' \in {"perform", "panic"}
    BY <1>4 DEF OnData, http_progress_cb
  <2>2. UNCHANGED <<reports, aborted, freed_child, ota_labels, children>>
    BY <1>4 DEF OnData, screenVars, ghostVars
  <2> QED BY <2>1, <2>2
<1>5. CASE ClientInit
  BY <1>5 DEF ClientInit, parserVars, screenVars, ghostVars
<1>6. CASE ClientInitFails
  BY <1>6, ErrorReported DEF ClientInitFails
<1>7. CASE Restart \/ FreedIsDrawn
  BY <1>7 DEF Restart, FreedIsDrawn, Reset
<1>8. CASE OnFinish
  <2>1. reports = <<>> /\ ~ota_labels /\ children = {} /\ task' = "judge"
    BY <1>8 DEF OnFinish
  <2>2. reports' = <<"done">> /\ UNCHANGED <<freed_child, aborted>>
    BY <1>8, <2>1, Reporting DEF OnFinish, http_done_cb, ota_cb
  <2>3. \/ ota_labels' /\ children' = 1..Len(releases')
        \/ UNCHANGED <<ota_labels, children>>
    BY <1>8, <2>1 DEF OnFinish, http_done_cb, ota_cb
  <2>4. ReportsMade' /\ FreedIfAborted'
    BY <2>1, <2>2
  <2>5. ASSUME ota_labels', children' = 1..Len(releases') PROVE LabelsOfReleases'
    BY <2>2, <2>5
  <2>6. ASSUME UNCHANGED <<ota_labels, children>> PROVE LabelsOfReleases'
    BY <2>1, <2>6
  <2> QED BY <2>3, <2>4, <2>5, <2>6
<1>9. CASE OnError
  BY <1>9, ErrorReported DEF OnError
<1>10. CASE PerformFails
  BY <1>10 DEF PerformFails, parserVars, screenVars, ghostVars
<1>11. CASE Judge
  <2>1. CASE err \/ abort
    BY <1>11, <2>1, ErrorReported DEF Judge
  <2>2. CASE ~(err \/ abort)
    BY <1>11, <2>2 DEF Judge, parserVars, screenVars, ghostVars
  <2> QED BY <2>1, <2>2
<1>12. CASE ClientCleanup
  BY <1>12 DEF ClientCleanup, parserVars, screenVars, ghostVars
<1>13. CASE TaskDelete
  BY <1>13 DEF TaskDelete, parserVars, screenVars, ghostVars
<1>14. CASE UNCHANGED vars
  BY <1>14 DEF vars, requestVars, parserVars, screenVars, ghostVars
<1> QED
  BY <1>1, <1>2, <1>3, <1>4, <1>5, <1>6, <1>7, <1>8, <1>9, <1>10, <1>11, <1>12, <1>13, <1>14 DEF Next, ClientRun

\* A label that is shown is that of a release whose name still exists, and no freed
\* label is left in the screen (github_release_ota.c:29, 126), until a request is
\* aborted after its list was shown.
THEOREM WhatIsShownExists == Spec => []ShownReleasesExist
<1>1. ShownInv => ShownReleasesExist
  BY DEF ShownInv, LabelsOfReleases, FreedIfAborted, ShownReleasesExist
<1> QED
  BY <1>1, ShownInit, ShownNext, PTL DEF Spec

--------------------------------------------------------------------------------
(* A text. The recursion of cbjson_process is over its characters.                *)

LEMMA LeastNumber ==
  ASSUME NEW S, S \subseteq Nat, S # {} PROVE \E n \in S : \A m \in S : n <= m
<1> DEFINE R == OpToRel(<, Nat)
<1>1. IsWellFoundedOn(R, Nat)
  BY NatLessThanWellFounded
<1>2. \A m, n \in Nat : m < n => <<m, n>> \in R
  BY DEF OpToRel
<1> HIDE DEF R
<1>3. PICK n \in S : \A m \in S : ~ (<<m, n>> \in R)
  BY <1>1, WFMin
<1>4. \A m \in S : m \in Nat /\ n \in Nat /\ ~ (m < n)
  BY <1>2, <1>3
<1>5. \A m \in S : n <= m
  BY <1>4
<1> QED
  BY <1>5

LEMMA InductionUpTo ==
  ASSUME NEW N \in Nat, NEW S, 0 \in S, \A n \in 0..(N - 1) : n \in S => n + 1 \in S
  PROVE  0..N \subseteq S
<1> SUFFICES ASSUME (0..N) \ S # {} PROVE FALSE
  OBVIOUS
<1>1. PICK n \in (0..N) \ S : \A m \in (0..N) \ S : n <= m
  <2>1. (0..N) \ S \subseteq Nat
    OBVIOUS
  <2> QED
    BY <2>1, LeastNumber
<1>2. n # 0 /\ n - 1 \in 0..(N - 1)
  BY <1>1
<1>3. n - 1 \in S
  BY <1>1, <1>2
<1> QED
  BY <1>1, <1>2, <1>3

\* What is left behind each of the first n characters of text.
Processed(f, k, text, mem, n) ==
  f[0] = Done(k) /\ \A i \in 1..n : f[i] = ProcessNext(f[i - 1], text[i], mem)

LEMMA ProcessedExists ==
  ASSUME NEW k, NEW text, NEW mem, NEW N \in Nat
  PROVE  \E f : f = [i \in 0..N |-> f[i]] /\ Processed(f, k, text, mem, N)
<1> DEFINE S == {n \in 0..N : \E f : f = [i \in 0..N |-> f[i]] /\ Processed(f, k, text, mem, n)}
<1>1. 0 \in S
  <2> DEFINE f == [i \in 0..N |-> Done(k)]
  <2>1. f[0] = Done(k) /\ f = [i \in 0..N |-> f[i]]
    OBVIOUS
  <2> HIDE DEF f
  <2> QED BY <2>1 DEF Processed
<1>2. ASSUME NEW n \in 0..(N - 1), n \in S PROVE n + 1 \in S
  <2>1. PICK f : f = [i \in 0..N |-> f[i]] /\ Processed(f, k, text, mem, n)
    BY <1>2
  <2> DEFINE v == ProcessNext(f[n], text[n + 1], mem)
             g == [i \in 0..N |-> IF i = n + 1 THEN v ELSE f[i]]
  <2>2. n + 1 \in 1..N /\ n \in 0..N /\ n + 1 - 1 = n /\ n + 1 # 0
    OBVIOUS
  <2> HIDE DEF v
  <2>3. g[n + 1] = v /\ g = [i \in 0..N |-> g[i]] /\ \A i \in 0..n : g[i] = f[i]
    BY <2>2
  <2> HIDE DEF g
  <2>4. g[0] = Done(k)
    BY <2>1, <2>3 DEF Processed
  <2>5. ASSUME NEW i \in 1..(n + 1) PROVE g[i] = ProcessNext(g[i - 1], text[i], mem)
    <3>1. CASE i = n + 1
      <4>1. g[n] = f[n]
        <5>1. n \in 0..n
          OBVIOUS
        <5> QED BY <5>1, <2>3
      <4> QED BY <3>1, <4>1, <2>2, <2>3 DEF v
    <3>2. CASE i # n + 1
      <4>1. i \in 1..n /\ i - 1 \in 0..n /\ i \in 0..n
        BY <3>2
      <4>2. g[i] = f[i] /\ g[i - 1] = f[i - 1]
        BY <4>1, <2>3
      <4>3. f[i] = ProcessNext(f[i - 1], text[i], mem)
        BY <4>1, <2>1 DEF Processed
      <4> QED BY <4>2, <4>3
    <3> QED BY <3>1, <3>2
  <2>6. Processed(g, k, text, mem, n + 1)
    BY <2>4, <2>5 DEF Processed
  <2>7. n + 1 \in 0..N
    BY <2>2
  <2> QED
    BY <2>3, <2>6, <2>7, Zenon
<1>3. 0..N \subseteq S
  <2> HIDE DEF S
  <2> QED BY <1>1, <1>2, InductionUpTo
<1>4. N \in S
  BY <1>3
<1> QED
  BY <1>4

LEMMA NextChar ==
  ASSUME NEW r, Safe(r), NEW c, NEW mem \in BOOLEAN
  PROVE  Safe(ProcessNext(r, c, mem))
<1> DEFINE n == process_char(r.cbj, c, mem)
<1>1. ProcessNext(r, c, mem) = IF r.err # "OK" THEN r ELSE Result(n.cbj, n.err, r.calls \o n.calls)
  BY DEF ProcessNext, Then, Behind
<1>2. r.err = "OK" => Safe(n)
  BY Char DEF Safe
<1> HIDE DEF n
<1> QED
  BY <1>1, <1>2 DEF Safe, Result

\* Any text.
LEMMA Text ==
  ASSUME NEW k, Inv(k), NEW text, Len(text) \in Nat, NEW mem \in BOOLEAN
  PROVE  Safe(cbjson_process(k, text, mem))
<1> DEFINE N == Len(text)
           body(f) == [n \in 0..N |-> IF n = 0 THEN Done(k) ELSE ProcessNext(f[n - 1], text[n], mem)]
           after == CHOOSE f : f = body(f)
<1>1. cbjson_process(k, text, mem) = after[N]
  BY DEF cbjson_process
<1> HIDE DEF N
<1>2. N \in Nat
  BY DEF N
<1>3. \E f : f = body(f)
  <2>1. PICK f : f = [i \in 0..N |-> f[i]] /\ Processed(f, k, text, mem, N)
    BY <1>2, ProcessedExists
  <2>2. \A n \in 0..N : f[n] = IF n = 0 THEN Done(k) ELSE ProcessNext(f[n - 1], text[n], mem)
    <3>1. \A n \in 0..N : n # 0 => n \in 1..N
      BY <1>2
    <3> QED BY <2>1, <3>1 DEF Processed
  <2>3. [n \in 0..N |-> f[n]] = [n \in 0..N |-> IF n = 0 THEN Done(k) ELSE ProcessNext(f[n - 1], text[n], mem)]
    BY <2>2, Zenon
  <2>4. f = body(f)
    BY <2>1, <2>3, Zenon
  <2> QED BY <2>4, Zenon
<1>4. after = body(after)
  <2> HIDE DEF body
  <2> QED BY <1>3, Zenon
<1> HIDE DEF after
<1>5. \A n \in 0..N : after[n] = IF n = 0 THEN Done(k) ELSE ProcessNext(after[n - 1], text[n], mem)
  <2>1. \A n \in 0..N : body(after)[n] = IF n = 0 THEN Done(k) ELSE ProcessNext(after[n - 1], text[n], mem)
    BY Zenon
  <2> HIDE DEF body
  <2> QED BY <1>4, <2>1, Zenon
<1> HIDE DEF body
<1> DEFINE S == {n \in 0..N : Safe(after[n])}
<1>6. 0 \in S
  <2>1. after[0] = Done(k)
    BY <1>2, <1>5
  <2>2. Safe(Done(k))
    BY DEF Safe, Done, Result
  <2> QED BY <1>2, <2>1, <2>2
<1>7. ASSUME NEW n \in 0..(N - 1), n \in S PROVE n + 1 \in S
  <2>1. n + 1 \in 0..N /\ n + 1 # 0 /\ n + 1 - 1 = n
    BY <1>2
  <2>2. after[n + 1] = ProcessNext(after[n], text[n + 1], mem)
    BY <1>5, <2>1
  <2>3. Safe(after[n])
    BY <1>7
  <2> QED BY <2>1, <2>2, <2>3, NextChar
<1>8. N \in S
  <2> HIDE DEF S
  <2>1. 0..N \subseteq S
    BY <1>2, <1>6, <1>7, InductionUpTo
  <2> QED BY <1>2, <2>1
<1> QED
  BY <1>1, <1>8

--------------------------------------------------------------------------------
(* The parser of the release check. It is where it should be until the task       *)
(* panics.                                                                        *)

ParserInv ==
  /\ task # "panic" => Inv(cbj)
  /\ task = "panic" => cbj.moved > 0

LEMMA ParserInit == Init => ParserInv
  BY NewParser DEF Init, ParserInv

LEMMA ParserNext == ParserInv /\ [Next]_vars => ParserInv'
<1> SUFFICES ASSUME ParserInv, [Next]_vars PROVE ParserInv'
  OBVIOUS
<1>1. ASSUME UNCHANGED cbj, task' = "panic" <=> task = "panic" PROVE ParserInv'
  BY <1>1 DEF ParserInv
<1>2. ASSUME cbj' = cbjson_init, task' # "panic" PROVE ParserInv'
  BY <1>2, NewParser DEF ParserInv
<1>3. CASE github_release_ota_run
  BY <1>2, <1>3 DEF github_release_ota_run, github_list_releases
<1>4. CASE ExitPressed
  BY <1>1, <1>4 DEF ExitPressed, parserVars
<1>5. CASE ExitLeaves
  BY <1>1, <1>5 DEF ExitLeaves, requestVars
<1>6. CASE OnData
  <2>1. PICK token \in Tokens, mem \in BOOLEAN : http_progress_cb(token, mem)
    BY <1>6 DEF OnData
  <2> DEFINE r == cbjson_process(cbj, token, mem)
  <2>2. task = "perform" /\ cbj' = r.cbj /\ task' = IF r.err \in {"ASSERT", "UNDEFINED"} THEN "panic" ELSE task
    BY <1>6, <2>1 DEF OnData, http_progress_cb
  <2>3. Len(token) \in Nat
    BY TokensAssumption
  <2>4. Safe(r)
    BY <2>2, <2>3, Text DEF ParserInv
  <2> HIDE DEF r
  <2> QED
    BY <2>2, <2>4, ObjectsAssumption DEF Safe, ParserInv
<1>7. CASE ClientInit
  BY <1>1, <1>7 DEF ClientInit, parserVars
<1>8. CASE ClientInitFails
  BY <1>2, <1>8 DEF ClientInitFails, http_error_cb
<1>9. CASE Restart \/ FreedIsDrawn
  BY <1>2, <1>9 DEF Restart, FreedIsDrawn, Reset
<1>10. CASE OnFinish
  BY <1>2, <1>10 DEF OnFinish, http_done_cb
<1>11. CASE OnError
  BY <1>2, <1>11 DEF OnError, http_error_cb
<1>12. CASE PerformFails
  BY <1>1, <1>12 DEF PerformFails, parserVars
<1>13. CASE Judge
  <2>1. CASE err \/ abort
    BY <1>2, <1>13, <2>1 DEF Judge, http_error_cb
  <2>2. CASE ~(err \/ abort)
    BY <1>1, <1>13, <2>2 DEF Judge, parserVars
  <2> QED BY <2>1, <2>2
<1>14. CASE ClientCleanup
  BY <1>1, <1>14 DEF ClientCleanup, parserVars
<1>15. CASE TaskDelete
  BY <1>1, <1>15 DEF TaskDelete, parserVars
<1>16. CASE UNCHANGED vars
  BY <1>1, <1>16 DEF vars, requestVars, parserVars
<1> QED
  BY <1>3, <1>4, <1>5, <1>6, <1>7, <1>8, <1>9, <1>10, <1>11, <1>12, <1>13, <1>14, <1>15, <1>16 DEF Next, ClientRun

\* No text makes an assertion of the parser fail, although the client goes on after
\* its errors (cbjson.c:286, 656, 672); only a list of paths that the stack lost as
\* it grew can be followed (cbjson.c:251).
THEOREM NoTextPanics == Spec => []NoUndefinedPop
<1>1. ParserInv => NoUndefinedPop
  BY DEF ParserInv, NoUndefinedPop
<1> QED
  BY <1>1, ParserInit, ParserNext, PTL DEF Spec

================================================================================
