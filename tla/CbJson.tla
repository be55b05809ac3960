---------------------------------- MODULE CbJson ----------------------------------
(* The streaming JSON parser (cbjson.c): characters come one by one, and the     *)
(* callbacks of the paths that match the place of a value are called when it     *)
(* ends. Nothing of the document is kept but the stack of what is open: a path   *)
(* that cannot match below a key or an element is put aside, in the list of the  *)
(* key or of the stack entry, and taken back when that is over.                  *)
(* Characters are strings; the functions of the parser map a parser to what is   *)
(* left of it, an error and the callbacks made on the way.                       *)
EXTENDS Integers, Sequences, FiniteSets, SequencesExt

CONSTANTS
  PathText,           \* the text of each path, as a sequence of characters
  Digit,              \* the value of each digit
  MaxDigits,          \* what a long long holds
  STRBUF_INITIAL_SIZE, STACK_INITIAL_SIZE

Paths == DOMAIN PathText
NUL == "NUL"

--------------------------------------------------------------------------------
(* Paths: '.' goes one level down, "name" and "[index]" choose below an object    *)
(* and an array, '*' or an empty index choose any.                                *)

Component(type, any, name, index, next) ==
  [type |-> type, any |-> any, name |-> name, index |-> index, next |-> next]
NoComponent == Component("NONE", FALSE, <<>>, 0, 0)

\* The text of path p from position first up to the first of chars, or to the end.
UpTo(p, first, char) ==
  LET text == PathText[p]
      stops == {k \in first..Len(text) : text[k] = char}
      last == IF stops = {} THEN Len(text) ELSE (CHOOSE k \in stops : \A j \in stops : k <= j) - 1
  IN SubSeq(text, first, last)

\* strtoul: the digits at the beginning.
Number(text) ==
  LET digits == SelectLastInSeq([k \in 1..Len(text) |-> \A j \in 1..k : text[j] \in DOMAIN Digit], LAMBDA d : d)
  IN FoldLeft(LAMBDA n, c : 10 * n + Digit[c], 0, SubSeq(text, 1, digits))

ParseComponent(p, at) ==
  LET text == PathText[p]
      name == UpTo(p, at, ".")
      index == UpTo(p, at + 1, "]")
      any == index = <<>> \/ Head(index) = "*"
  IN IF at > Len(text) THEN NoComponent
     ELSE CASE text[at] = "." -> Component("DESCEND", FALSE, <<>>, 0, at + 1)
            [] text[at] = "[" /\ at + Len(index) = Len(text) -> NoComponent
            [] text[at] = "[" -> Component("ARRAY_ENTRY", any, <<>>, IF any THEN 0 ELSE Number(index),
                                           at + Len(index) + 2)
            [] OTHER -> Component("OBJECT_KEY", name = <<"*">>, name, 0, at + Len(name))

\* The component of each path at each position.
ComponentAt == [p \in Paths |-> [at \in 1..(Len(PathText[p]) + 1) |-> ParseComponent(p, at)]]
parse_next_path_component(p, at) == ComponentAt[p][at]

\* How often each path goes down.
path_depth ==
  [p \in Paths |->
     LET below[at \in Nat] == LET c == parse_next_path_component(p, at)
                              IN IF c = NoComponent THEN 0
                                 ELSE below[c.next] + (IF c.type = "DESCEND" THEN 1 ELSE 0)
     IN below[1]]

\* Behind the next '.' from position at on; 0 if there is none.
path_descend(p, at) ==
  LET behind[k \in Nat] == LET c == parse_next_path_component(p, k)
                           IN IF c = NoComponent THEN 0
                              ELSE IF c.type = "DESCEND" THEN c.next ELSE behind[c.next]
  IN behind[at]

\* Behind as many '.' as target says; 0 if the path has less.
path_seek_to_depth(p, target) ==
  LET seek[d \in Nat] == IF d = 0 THEN 1
                         ELSE IF seek[d - 1] = 0 THEN 0 ELSE path_descend(p, seek[d - 1])
  IN seek[target]

\* cbjson_path_init takes paths that can be parsed: behind each of its '.', the
\* path goes on down to its depth.
ASSUME PathsAssumption ==
  \A p \in Paths :
    /\ path_depth[p] \in Nat /\ path_seek_to_depth(p, 0) = 1
    /\ \A d \in 0..path_depth[p] : path_seek_to_depth(p, d) \in Nat \ {0}
    /\ \A d \in 0..(path_depth[p] - 1) :
         LET at == path_seek_to_depth(p, d)
         IN /\ parse_next_path_component(p, at) # NoComponent
            /\ path_descend(p, at) = path_seek_to_depth(p, d + 1)

\* The depths of the objects that are themselves what a path looks for: the path
\* ends with going down.
ObjectDepths ==
  LET EndsAt(p, c) == c.type = "DESCEND" /\ c.next > Len(PathText[p])
  IN {path_depth[p] : p \in {q \in Paths : \E d \in 0..path_depth[q] :
        EndsAt(q, parse_next_path_component(q, path_seek_to_depth(q, d)))}}

\* No such object is right inside another one.
ObjectsApart == \A d \in ObjectDepths : d + 1 \notin ObjectDepths

--------------------------------------------------------------------------------
(* The parser. "at" is the list a path is in, that of a stack entry has its       *)
(* number. The lists of the first "moved" entries were lost with their memory.    *)

paths == 0
non_matching_paths == -1

cbjson_init ==
  [stack |-> <<>>, stack_size |-> 0, moved |-> 0,
   at |-> [p \in Paths |-> paths], match |-> [p \in Paths |-> 1],
   strbuf |-> <<>>, strbuf_size |-> 0, in_literal |-> FALSE, literal_type |-> "NONE",
   escaped |-> FALSE, str_is_key |-> FALSE, in_array |-> FALSE, array_index |-> 0]

Result(cbj, err, calls) == [cbj |-> cbj, err |-> err, calls |-> calls]
Done(cbj) == Result(cbj, "OK", <<>>)
Fail(cbj, err) == Result(cbj, err, <<>>)

\* What Next does after r, unless r failed; n comes after r.
Behind(r, n) == Result(n.cbj, n.err, r.calls \o n.calls)
Then(r, Next(_)) == IF r.err # "OK" THEN r ELSE Behind(r, Next(r.cbj))

current(cbj) == {p \in Paths : cbj.at[p] = paths}
component(cbj, p) == parse_next_path_component(p, cbj.match[p])
depth(cbj) == Len(cbj.stack)

\* The paths in list "from" go to list "to".
Moved(cbj, from, to) == [cbj EXCEPT !.at = [p \in Paths |-> IF @[p] = from THEN to ELSE @[p]]]

\* The callbacks of the paths in hit, with a value; one of them may fail.
Call(cbj, hit, type, string, mem) ==
  LET calls == SetToSeq({[path |-> p, type |-> type, string |-> string] : p \in hit})
  IN Result(cbj, IF hit # {} /\ ~mem THEN "CALLBACK" ELSE "OK", calls)

cbjson_add_char(cbj, c, mem) ==
  LET full == Len(cbj.strbuf) >= cbj.strbuf_size
      size == IF cbj.strbuf_size = 0 THEN STRBUF_INITIAL_SIZE ELSE 2 * cbj.strbuf_size
  IN IF full /\ ~mem THEN Fail(cbj, "NO_MEM")
     ELSE Done([cbj EXCEPT !.strbuf = Append(@, c), !.strbuf_size = IF full THEN size ELSE @])

\* When the stack grows the entries go to other memory, but the paths in their
\* lists are still linked with the entries that were.
push_stack_entry(cbj, mem) ==
  LET full == depth(cbj) >= cbj.stack_size
      size == IF cbj.stack_size = 0 THEN STACK_INITIAL_SIZE ELSE 2 * cbj.stack_size
      entry == [array |-> cbj.in_array, index |-> IF cbj.in_array THEN cbj.array_index ELSE 0]
  IN IF full /\ ~mem THEN Fail(cbj, "NO_MEM")
     ELSE Done([cbj EXCEPT !.stack = Append(@, entry),
                           !.stack_size = IF full THEN size ELSE @,
                           !.moved = IF full THEN depth(cbj) ELSE @])

\* The paths that are left go back up, to where sought says; then those come back
\* that could not match below.
PopTo(cbj, sought) ==
  LET top == cbj.stack[depth(cbj)]
      up == depth(cbj) - 1
      popped == [cbj EXCEPT !.stack = SubSeq(@, 1, up), !.match = sought, !.in_array = top.array,
                            !.array_index = IF top.array THEN top.index ELSE @]
  IN CASE depth(cbj) = 0 -> Fail(cbj, "NOT_NESTED")
       [] depth(cbj) > 0 /\ (\E p \in current(cbj) : sought[p] = 0) -> Fail(cbj, "ASSERT")
       [] depth(cbj) \in 1..cbj.moved -> Fail(cbj, "UNDEFINED")
       [] OTHER -> Done(Moved(popped, up + 1, paths))

pop_stack_entry(cbj) ==
  PopTo(cbj, [p \in Paths |-> IF p \in current(cbj) THEN path_seek_to_depth(p, depth(cbj) - 1)
                             ELSE cbj.match[p]])

restore_non_matching_paths(cbj) == Moved(cbj, non_matching_paths, paths)

--------------------------------------------------------------------------------
(* Values.                                                                        *)

match_path(cbj, p) ==
  /\ path_depth[p] = depth(cbj)
  /\ cbj.in_array => LET c == component(cbj, p)
                     IN c.type = "ARRAY_ENTRY" /\ (c.index = cbj.array_index \/ c.any)

\* Mutant: what was put aside for a key is not taken back behind its value.
LeavesAside(cbj, type, string, mem) ==
  Call(cbj, {p \in current(cbj) : match_path(cbj, p)}, type, string, mem)

process_end_of_literal(cbj, type, string, mem) ==
  Then(Call(cbj, {p \in current(cbj) : match_path(cbj, p)}, type, string, mem),
       LAMBDA k : Done(IF k.in_array THEN k ELSE restore_non_matching_paths(k)))

process_end_of_string(cbj, mem) ==
  Then(cbjson_add_char([cbj EXCEPT !.in_literal = FALSE], NUL, mem),
       LAMBDA k : IF k.str_is_key THEN Done(k)
                  ELSE process_end_of_literal(k, "STRING", Front(k.strbuf), mem))

EscapeChars == [c \in {"\"", "/", "\\"} |-> c]
               @@ ("b" :> "BS" @@ "f" :> "FF" @@ "n" :> "LF" @@ "r" :> "CR" @@ "t" :> "TAB")

process_char_escaped(cbj, c, mem) ==
  IF c \in DOMAIN EscapeChars THEN cbjson_add_char([cbj EXCEPT !.escaped = FALSE], EscapeChars[c], mem)
  ELSE Fail(cbj, "UNKNOWN_ESCAPE_CHAR")

process_char_in_string(cbj, c, mem) ==
  CASE c = "\"" -> process_end_of_string(cbj, mem)
    [] c = "\\" -> Done([cbj EXCEPT !.escaped = TRUE])
    [] OTHER -> cbjson_add_char(cbj, c, mem)

\* What a literal of each type may consist of, and the error of a literal.
LiteralChars == "INTEGER" :> DOMAIN Digit @@ "FLOAT" :> DOMAIN Digit \cup {".", "e", "-"}
                @@ "BOOLEAN" :> {"a", "e", "f", "l", "r", "s", "t", "u"} @@ "NULL" :> {"l", "n", "u"}
LiteralError(type, text) ==
  CASE type = "INTEGER" /\ Len(SelectSeq(text, LAMBDA c : c \in DOMAIN Digit)) > MaxDigits -> "INT_OUT_OF_RANGE"
    [] type = "BOOLEAN" /\ text \notin {<<"t", "r", "u", "e">>, <<"f", "a", "l", "s", "e">>} -> "INVALID_LITERAL"
    [] type = "NULL" /\ text # <<"n", "u", "l", "l">> -> "INVALID_LITERAL"
    [] OTHER -> "OK"

\* Any other character ends the literal, and is looked at as what follows it.
EndLiteral(cbj, mem) ==
  LET type == cbj.literal_type
      ended == [cbj EXCEPT !.in_literal = FALSE]
  IN Then(IF type = "FLOAT" THEN Done(ended) ELSE cbjson_add_char(ended, NUL, mem),
          LAMBDA k : IF LiteralError(type, cbj.strbuf) # "OK" THEN Fail(k, LiteralError(type, cbj.strbuf))
                     ELSE process_end_of_literal(k, type, <<>>, mem))

--------------------------------------------------------------------------------
(* Structure.                                                                     *)

\* The names of a path and a key are compared as far as the name goes.
path_match_key(cbj, p) ==
  LET c == component(cbj, p)
  IN /\ depth(cbj) <= path_depth[p]
     /\ c.type = "OBJECT_KEY" /\ (c.any \/ IsPrefix(c.name, cbj.strbuf))

process_key_value_separator(cbj) ==
  CASE cbj.in_array -> Fail(cbj, "KEY_IN_ARRAY")
    [] ~cbj.in_array /\ cbj.strbuf = <<>> -> Fail(cbj, "NO_KEY")
    [] OTHER -> Done([cbj EXCEPT !.str_is_key = FALSE,
                        !.at = [p \in Paths |-> IF @[p] = paths /\ ~path_match_key(cbj, p)
                                                THEN non_matching_paths ELSE @[p]]])

\* Mutant: a path that ends one level above is looked at, too.
ReachesAlmost(cbj, p) == depth(cbj) <= path_depth[p] + 1

\* Only a path that goes as deep as the parser is looked at.
ReachesDepth(cbj, p) == depth(cbj) <= path_depth[p]

\* Component c of a path, which is looked at, goes down into what was just opened:
\* behind the key or an index it has for it, if there is one, it must go down.
LeadsDown(cbj, p, c) ==
  \/ c.type = "DESCEND"
  \/ /\ \/ c.type = "OBJECT_KEY"
        \/ c.type = "ARRAY_ENTRY" /\ cbj.in_array /\ (c.any \/ c.index = cbj.array_index)
     /\ parse_next_path_component(p, c.next).type = "DESCEND"
GoesDown(cbj, p) == ReachesDepth(cbj, p) /\ LeadsDown(cbj, p, component(cbj, p))

\* The paths in down are at gone then, the others are put aside.
StoreOthers(cbj, down, gone) ==
  LET stored == [cbj EXCEPT !.match = gone,
                   !.at = [p \in Paths |-> IF @[p] = non_matching_paths \/ p \in current(cbj) \ down
                                           THEN depth(cbj) ELSE @[p]]]
      lost(p) == \/ ReachesDepth(cbj, p) /\ component(cbj, p) = NoComponent
                 \/ p \in down /\ gone[p] = 0
  IN IF \E p \in current(cbj) : lost(p)
     THEN Fail(cbj, "ASSERT") ELSE Done(stored)
GoDown(cbj, down) ==
  StoreOthers(cbj, down, [p \in Paths |-> IF p \in down THEN path_descend(p, cbj.match[p]) ELSE cbj.match[p]])

store_non_matching_paths_in_stack_entry(cbj) == GoDown(cbj, {p \in current(cbj) : GoesDown(cbj, p)})

\* The paths that end with going down into this object.
IsForObject(cbj, p) ==
  LET c == component(cbj, p)
  IN /\ depth(cbj) = path_depth[p]
     /\ c.type = "DESCEND" /\ c.next > Len(PathText[p])

process_start_of_object(cbj, mem) ==
  Then(Then(push_stack_entry(cbj, mem),
            LAMBDA k : Call(k, {p \in current(k) : IsForObject(k, p)}, "NONE", <<>>, mem)),
       LAMBDA k : Then(store_non_matching_paths_in_stack_entry(k),
                       LAMBDA l : Done([l EXCEPT !.str_is_key = TRUE, !.in_array = FALSE])))

process_start_of_array(cbj, mem) ==
  Then(push_stack_entry(cbj, mem),
       LAMBDA k : Then(store_non_matching_paths_in_stack_entry([k EXCEPT !.in_array = TRUE]),
                       LAMBDA l : Done([l EXCEPT !.str_is_key = FALSE, !.array_index = 0])))

process_end_of_object(cbj) == pop_stack_entry(restore_non_matching_paths(cbj))
process_end_of_array(cbj) == pop_stack_entry(restore_non_matching_paths([cbj EXCEPT !.in_array = FALSE]))

process_entry_separator(cbj) ==
  Done(IF cbj.in_array THEN [cbj EXCEPT !.array_index = @ + 1] ELSE [cbj EXCEPT !.str_is_key = TRUE])

process_start_of_literal(cbj, type) ==
  [cbj EXCEPT !.strbuf = <<>>, !.in_literal = TRUE, !.literal_type = type]

process_char_outside_literal(cbj, c, mem) ==
  LET Start(type) == cbjson_add_char(process_start_of_literal(cbj, type), c, mem)
  IN CASE c = ":" -> process_key_value_separator(cbj)
       [] c = "{" -> process_start_of_object(cbj, mem)
       [] c = "}" -> process_end_of_object(cbj)
       [] c = "[" -> process_start_of_array(cbj, mem)
       [] c = "]" -> process_end_of_array(cbj)
       [] c = "," -> process_entry_separator(cbj)
       [] c = "\"" -> Done(process_start_of_literal(cbj, "STRING"))
       [] c = "n" -> Start("NULL")
       [] c \in {"t", "f"} -> Start("BOOLEAN")
       [] c \in {"-"} \cup DOMAIN Digit -> Start("INTEGER")
       [] c = "." -> Start("FLOAT")
       [] OTHER -> Done(cbj)

process_char_in_literal(cbj, c, mem) ==
  LET type == IF cbj.literal_type = "INTEGER" /\ c \in {".", "e"} THEN "FLOAT" ELSE cbj.literal_type
  IN CASE type = "STRING" -> process_char_in_string(cbj, c, mem)
       [] type # "STRING" /\ c \in LiteralChars[type] ->
            cbjson_add_char([cbj EXCEPT !.literal_type = type], c, mem)
       [] OTHER -> Then(EndLiteral(cbj, mem), LAMBDA k : process_char_outside_literal(k, c, mem))

process_char(cbj, c, mem) ==
  CASE cbj.escaped -> process_char_escaped(cbj, c, mem)
    [] ~cbj.escaped /\ cbj.in_literal -> process_char_in_literal(cbj, c, mem)
    [] OTHER -> process_char_outside_literal(cbj, c, mem)

\* The text up to the first error, character after character.
ProcessNext(r, c, mem) == Then(r, LAMBDA k : process_char(k, c, mem))
cbjson_process(cbj, text, mem) ==
  LET after[n \in 0..Len(text)] == IF n = 0 THEN Done(cbj) ELSE ProcessNext(after[n - 1], text[n], mem)
  IN after[Len(text)]

================================================================================
