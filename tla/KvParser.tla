-------------------------------- MODULE KvParser --------------------------------
(* The query of a request (kvparser.c with the in-place decoding of httpd.c).     *)
(* The keys and values are pointers into the query, which is decoded where it     *)
(* stands: what is decoded may get shorter, and is ended by a NUL.  A plus, which *)
(* stands for a blank, is a symbol as any other here.                             *)
EXTENDS Naturals, Sequences, FiniteSets

CONSTANTS
  Sep, Assign,    \* what separates pairs, and a key from its value
  Escape, Hex,    \* an escape is followed by two symbols; Hex[<<x, y>>] is what it stands for
  NUL

VARIABLES
  str,            \* the memory of the query, with the NUL at its end
  parse_pos, last_token, state, key_buff,
  kvpairs,
  parser          \* "parse", "invalid", "parsed", or "undefined": memory is overwritten

kvVars == <<str, parse_pos, last_token, state, key_buff, kvpairs, parser>>

Pointer(at, len) == [at |-> at, len |-> len]
NoPointer == Pointer(0, 0)

KvInit(queries) ==
  /\ \E q \in queries : str = Append(q, NUL)
  /\ parse_pos = 1 /\ last_token = 1 /\ state = "sep" /\ key_buff = NoPointer
  /\ kvpairs = <<>> /\ parser = "parse"

\* The text from p on, at most len long: a NUL ends it.
TextAt(m, p, len) ==
  LET until == {k \in p..(p + len - 1) : \A j \in p..k : m[j] # NUL}
  IN [k \in 1..Cardinality(until) |-> m[p + k - 1]]

\* A turn of the loop of query_string_decode_value. What is behind an escape is
\* moved two places forward; with one digit less than it takes, by -1 bytes.
DecodeTurn(d) ==
  LET left == d.limit - d.pos
      x == d.str[d.pos + 1]
      y == d.str[d.pos + 2]
      moved == [k \in 1..Len(d.str) |-> IF k = d.pos THEN Hex[<<x, y>>]
                                        ELSE IF k \in (d.pos + 1)..(d.limit - 3) THEN d.str[k + 2]
                                        ELSE d.str[k]]
  IN IF d.result # "decoded" \/ left = 0 \/ d.str[d.pos] = NUL THEN d
     ELSE IF d.str[d.pos] # Escape THEN [d EXCEPT !.pos = @ + 1]
     ELSE IF left < 2 THEN [d EXCEPT !.result = "invalid"]
     ELSE IF left = 2 THEN [d EXCEPT !.result = "undefined"]
     ELSE [d EXCEPT !.str = moved, !.pos = @ + 1, !.limit = @ - 2]

\* query_string_decode_value, of len bytes of the memory m from p on.
Decode(m, p, len) ==
  LET after[k \in 0..len] == IF k = 0 THEN [str |-> m, pos |-> p, limit |-> p + len, result |-> "decoded"]
                             ELSE DecodeTurn(after[k - 1])
  IN after[len]

\* Mutant: no NUL is put behind what is decoded.
DecodedOpen(m, p, len) ==
  LET d == Decode(m, p, len)
  IN [str |-> d.str, result |-> d.result,
      ptr |-> IF d.result # "decoded" \/ d.pos = p THEN NoPointer ELSE Pointer(p, d.pos - p)]

\* query_string_decode_callback: the memory afterwards, and the pointer, which is
\* not set when nothing is left.
Decoded(m, p, len) ==
  LET d == Decode(m, p, len)
  IN IF d.result # "decoded" \/ d.pos = p
     THEN [str |-> d.str, result |-> d.result, ptr |-> NoPointer]
     ELSE [str |-> [d.str EXCEPT ![d.pos] = NUL], result |-> d.result, ptr |-> Pointer(p, d.pos - p)]

\* The key first, then the value: both are decoded in the query. When both are, the
\* parser goes on, or is done.
add_kvpair(has_key, key, val_start, val_end, next) ==
  LET k == IF has_key THEN Decoded(str, key.at, key.len)
           ELSE [str |-> str, result |-> "decoded", ptr |-> NoPointer]
      v == IF k.result = "decoded" THEN Decoded(k.str, val_start, val_end - val_start) ELSE k
  IN /\ str' = v.str
     /\ IF v.result = "decoded"
        THEN kvpairs' = Append(kvpairs, [key |-> k.ptr, value |-> v.ptr]) /\ parser' = next
        ELSE kvpairs' = <<>> /\ parser' = v.result

--------------------------------------------------------------------------------
(* kvparser_parse_string, one action for each turn of its loop. What is between  *)
(* two tokens starts at last_token.                                              *)

Parsing(c) == parser = "parse" /\ parse_pos <= Len(str) /\ str[parse_pos] = c

\* A separator at pos, after the key or not.
Separated(pos, has_key, key) ==
  /\ add_kvpair(has_key, key, last_token, pos, "parse")
  /\ parse_pos' = pos + 1 /\ last_token' = pos + 1 /\ state' = "sep"

TakeAssign ==
  /\ Parsing(Assign) /\ state = "sep"
  /\ key_buff' = Pointer(last_token, parse_pos - last_token)
  /\ IF str[parse_pos + 1] = Sep
     THEN Separated(parse_pos + 1, TRUE, key_buff')
     ELSE /\ parse_pos' = parse_pos + 1 /\ last_token' = parse_pos + 1 /\ state' = "assign"
          /\ UNCHANGED <<str, kvpairs, parser>>

RefuseAssign ==
  /\ Parsing(Assign) /\ state # "sep"
  /\ parser' = "invalid" /\ kvpairs' = <<>>
  /\ UNCHANGED <<str, parse_pos, last_token, state, key_buff>>

TakeSeparator ==
  /\ Parsing(Sep)
  /\ Separated(parse_pos, state = "assign", key_buff)
  /\ UNCHANGED key_buff

SkipSymbol ==
  /\ parser = "parse" /\ parse_pos <= Len(str) /\ str[parse_pos] \notin {Sep, Assign}
  /\ parse_pos' = parse_pos + 1
  /\ UNCHANGED <<str, last_token, state, key_buff, kvpairs, parser>>

EndOfQuery ==
  /\ parser = "parse" /\ parse_pos > Len(str)
  /\ add_kvpair(state = "assign", key_buff, last_token, parse_pos, "parsed")
  /\ UNCHANGED <<parse_pos, last_token, state, key_buff>>

KvNext == TakeAssign \/ RefuseAssign \/ TakeSeparator \/ SkipSymbol \/ EndOfQuery

\* kvparser_find_pair: the first pair with the key.
Pairs(key) ==
  {k \in 1..Len(kvpairs) : /\ kvpairs[k].key.len = Len(key)
                           /\ TextAt(str, kvpairs[k].key.at, Len(key)) = key}
kvparser_find_pair(key) == kvpairs[CHOOSE k \in Pairs(key) : \A j \in Pairs(key) : k <= j]
================================================================================
