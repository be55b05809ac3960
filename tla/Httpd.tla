---------------------------------- MODULE Httpd ----------------------------------
(* The HTTP server (httpd.c): pages are parsed when they are added, at start-up;  *)
(* then one task serves requests one after the other, for a page or for a         *)
(* function of the API, whose parameters are in the query.                        *)
EXTENDS Templates, KvParser

CONSTANTS
  Pages, Queries,  \* the pages and the queries that are tried
  Required         \* the parameters a function of the API requires

ASSUME PagesAssumption == Pages \subseteq Seq(Bytes)

VARIABLES
  task,       \* what the server is at
  query,      \* the query as it is sent
  response    \* what was answered to the last request

vars == <<templVars, kvVars, task, query, response>>

\* An answer: the reason of a refusal, or what a function of the API was given.
Reply(kind) == [kind |-> kind, values |-> [k \in Required |-> <<>>]]
Values(f) == [kind |-> "done", values |-> f]

\* A page or a query: the two share no state.
Init ==
  /\ \/ TemplInit(Pages) /\ query = <<>>
     \/ TemplInit({<<>>}) /\ query \in Queries
  /\ KvInit({query})
  /\ task = "start" /\ response = Reply("none")

--------------------------------------------------------------------------------
(* Start-up.                                                                     *)

\* add_embedded_file_template.
Register ==
  /\ task = "start" /\ templ \in {"read", "scan"}
  /\ \/ ReadMore \/ SkipByte \/ EndOfRing
     \/ \E e \in Entries : TakeTemplate(e) \/ SeekTerminator(e)
  /\ UNCHANGED <<kvVars, task, query, response>>

Registered ==
  /\ task = "start" /\ templ = "render"
  /\ task' = "idle"
  /\ UNCHANGED <<templVars, kvVars, query, response>>

\* A page that cannot be parsed ends the program, and so does a copy of -1 bytes,
\* which runs to the end of the memory. The program starts again.
Restart ==
  /\ \/ task = "start" /\ templ = "failed"
     \/ task = "api" /\ parser = "undefined"
  /\ task' = "start" /\ response' = Reply("none")
  /\ given' = 0 /\ read_len' = 0 /\ filepos' = 0 /\ slice' = 1 /\ out' = <<>>
  /\ ring' = ring_alloc(ring.size, Text)
  /\ slices' = <<Slice(0, 0, Text, <<>>)>> /\ templ' = "read"
  /\ UNCHANGED <<file, kvVars, query>>

--------------------------------------------------------------------------------
(* A request for the page.                                                       *)

httpd_embedded_template_file_request_handler ==
  /\ task = "idle"
  /\ task' = "page" /\ response' = Reply("none")
  /\ templ' = "render" /\ given' = 0 /\ filepos' = 0 /\ slice' = 1 /\ out' = <<>>
  /\ UNCHANGED <<file, ring, read_len, slices, kvVars, query>>

Render ==
  /\ task = "page"
  /\ SkipToSlice \/ WriteSlice \/ ApplyTemplate \/ NextSlice \/ Rendered
  /\ UNCHANGED <<kvVars, task, query, response>>

PageSent ==
  /\ task = "page" /\ templ \in {"rendered", "cut short"}
  /\ response' = Reply(IF templ = "rendered" THEN "complete" ELSE "failed")
  /\ task' = "idle"
  /\ UNCHANGED <<templVars, kvVars, query>>

--------------------------------------------------------------------------------
(* A request for a function of the API.                                          *)

httpd_request_handler ==
  /\ task = "idle"
  /\ task' = "api" /\ response' = Reply("none")
  /\ str' = Append(query, NUL)
  /\ parse_pos' = 1 /\ last_token' = 1 /\ state' = "sep" /\ key_buff' = NoPointer
  /\ kvpairs' = <<>> /\ parser' = "parse"
  /\ UNCHANGED <<templVars, query>>

kvparser_parse_string ==
  /\ task = "api"
  /\ KvNext
  /\ UNCHANGED <<templVars, task, query, response>>

\* What the function finds at a pointer: C's strings end with a NUL.
CString(p) == TextAt(str, p.at, Len(str) - p.at + 1)

\* The answer: an error if a parameter is missing or, as each function looks for
\* itself (httpd_query_string_get_param), empty.
Answer ==
  IF parser = "invalid" THEN Reply("malformed")
  ELSE IF \E k \in Required : Pairs(k) = {} THEN Reply("missing")
  ELSE IF \E k \in Required : kvparser_find_pair(k).value.len = 0 THEN Reply("empty")
  ELSE Values([k \in Required |-> CString(kvparser_find_pair(k).value)])

Respond ==
  /\ task = "api" /\ parser \in {"parsed", "invalid"}
  /\ response' = Answer
  /\ task' = "idle"
  /\ kvpairs' = <<>>
  /\ UNCHANGED <<templVars, str, parse_pos, last_token, state, key_buff, parser, query>>

Next ==
  \/ Register \/ Registered \/ Restart
  \/ httpd_embedded_template_file_request_handler \/ Render \/ PageSent
  \/ httpd_request_handler \/ kvparser_parse_string \/ Respond

Spec == Init /\ [][Next]_vars

--------------------------------------------------------------------------------
(* Properties.                                                                   *)

TypeOK ==
  /\ task \in {"start", "idle", "page", "api"}
  /\ templ \in {"read", "scan", "failed", "render", "rendered", "cut short"}
  /\ parser \in {"parse", "parsed", "invalid", "undefined"}
  /\ {ring.read, ring.write} \subseteq 0..(ring.size - 1)
  /\ file \in Seq(Bytes) /\ {given, filepos} \subseteq 0..Len(file)
  /\ \A k \in 1..Len(slices) : slices[k].entry \in Entries \cup {Text}

\* While a page is parsed the ring has what was read of it and not yet passed,
\* wherever the end of the ring falls in it, also after an identifier was matched
\* and its terminator sought in vain.
RingHoldsRest ==
  templ \in {"read", "scan"} => Unread(ring) = SubSeq(file, filepos + 1, given)

\* A page is refused only if a template in it does not end, or has arguments that
\* are too long; else what is sent is the page, with each template expanded: a
\* full ring is not taken for the end of the page, and no template is overlooked
\* where one reading ends and the next begins.
PageIsRendered ==
  /\ templ = "failed" => IsBad(Meaning)
  /\ task = "idle" => ~IsBad(Meaning)
  /\ task = "page" /\ templ \in {"rendered", "cut short"} => templ = "rendered" /\ out = Meaning

\* The text without its escapes, up to one that is cut off.
Unescaped(t) ==
  LET u[k \in 1..(Len(t) + 1)] ==
        IF k > Len(t) \/ (t[k] = Escape /\ k + 2 > Len(t)) THEN <<>>
        ELSE IF t[k] = Escape THEN <<Hex[<<t[k + 1], t[k + 2]>>]>> \o u[k + 3]
        ELSE <<t[k]>> \o u[k + 1]
  IN u[1]

\* The digits of an escape that is cut off by the end of the text, or 2.
Digits(t) ==
  LET d[k \in 1..(Len(t) + 1)] ==
        IF k > Len(t) THEN 2 ELSE IF t[k] # Escape THEN d[k + 1]
        ELSE IF k + 2 > Len(t) THEN Len(t) - k ELSE d[k + 3]
  IN d[1]

\* What C takes for the text.
UpToNUL(t) == TextAt(t, 1, Len(t))

\* The parameters as the query gives them.
Starts == {1} \cup {p + 1 : p \in {q \in 1..Len(query) : query[q] = Sep}}
EndOf(b) == Min({p \in b..Len(query) : query[p] = Sep} \cup {Len(query) + 1})
Assigns(b) == {p \in b..(EndOf(b) - 1) : query[p] = Assign}
KeyText(b) == IF Assigns(b) = {} THEN <<>> ELSE SubSeq(query, b, Min(Assigns(b)) - 1)
ValueText(b) == SubSeq(query, IF Assigns(b) = {} THEN b ELSE Min(Assigns(b)) + 1, EndOf(b) - 1)
KeyOf(b) == Unescaped(KeyText(b))
ValueOf(b) == Unescaped(ValueText(b))
FirstOf(k) == Min({b \in Starts : KeyOf(b) = k})

\* A parameter that is sent empty, and is not the last one.
EmptyInside(b) == Assigns(b) # {} /\ ValueOf(b) = <<>> /\ EndOf(b) <= Len(query)

\* An escape at the end of the query, or before a token, has n digits.
CutAtEnd(n) == \E b \in Starts : EndOf(b) > Len(query) /\ Digits(ValueText(b)) = n
CutInside(n) ==
  \E b \in Starts : Digits(KeyText(b)) = n \/ (EndOf(b) <= Len(query) /\ Digits(ValueText(b)) = n)

Expected ==
  IF CutInside(0) \/ \E b \in Starts : Cardinality(Assigns(b)) > 1 THEN Reply("malformed")
  ELSE IF \E k \in Required : \A b \in Starts : KeyOf(b) # k THEN Reply("missing")
  ELSE IF \E k \in Required : ValueOf(FirstOf(k)) = <<>> THEN Reply("empty")
  ELSE Values([k \in Required |-> UpToNUL(ValueOf(FirstOf(k)))])

\* A function of the API gets the values that were sent, up to a NUL in them, or
\* the request is refused for the reason that it gives, although keys and values
\* are decoded in place, one over the other's memory. As the code stands this does
\* not hold of an empty parameter before another one, which gets its key for a
\* value; of an escape with one digit at the end of the query, which takes the NUL
\* for the other; and only an escape that lacks its second digit inside the query,
\* or both at its end, makes the copy of -1 bytes that ends the program.
ParametersAsSent ==
  /\ parser = "undefined" => CutInside(1) \/ CutAtEnd(0)
  /\ task = "idle" /\ response.kind \notin {"none", "complete", "failed"} =>
       \/ response = Expected
       \/ \E k \in Required : (\E b \in Starts : KeyOf(b) = k) /\ EmptyInside(FirstOf(k))
       \/ CutAtEnd(1)
================================================================================
