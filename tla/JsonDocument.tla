------------------------------ MODULE JsonDocument ------------------------------
(* What a JSON document is, one token after the other, and which releases a list *)
(* of releases publishes: the reference the parser and its user are held to. A   *)
(* token is the sequence of its characters.                                      *)
EXTENDS Naturals, Sequences, SequencesExt

CONSTANTS
  StringOf,              \* the value of every token that is a string
  Scalars,               \* the tokens that are values without parts, but no strings
  TagKey, AssetsKey, UrlKey

NoName == <<>>
NewDocument == [open |-> <<>>, key |-> <<>>, expect |-> {"value"}]

IsString(t) == t \in DOMAIN StringOf
IsValue(t) == IsString(t) \/ t \in Scalars \cup {<<"{">>, <<"[">>}
Expects(doc, what) == what \in doc.expect

\* A value was closed, or was a scalar: the document may be over.
Ended(doc) == [doc EXCEPT !.expect = IF doc.open = <<>> THEN {"end"} ELSE {"next", "close"}, !.key = <<>>]

Opened(doc, kind) ==
  [doc EXCEPT !.open = Append(@, [kind |-> kind, key |-> doc.key]), !.key = <<>>,
              !.expect = IF kind = "object" THEN {"key", "close"} ELSE {"value", "close"}]

Closed(doc) == Ended([doc EXCEPT !.open = Front(@)])
Inside(doc, kind) == doc.open # <<>> /\ Last(doc.open).kind = kind

\* What may come: the document behind the token, or "wrong".
Wrong == [open |-> <<>>, key |-> <<>>, expect |-> {}]
Read(doc, t) ==
  CASE t = <<" ">> -> doc
    [] IsString(t) /\ Expects(doc, "key") -> [doc EXCEPT !.key = StringOf[t], !.expect = {"colon"}]
    [] t = <<":">> /\ Expects(doc, "colon") -> [doc EXCEPT !.expect = {"value"}]
    [] t = <<"{">> /\ Expects(doc, "value") -> Opened(doc, "object")
    [] t = <<"[">> /\ Expects(doc, "value") -> Opened(doc, "array")
    [] IsValue(t) /\ t \notin {<<"{">>, <<"[">>} /\ Expects(doc, "value") -> Ended(doc)
    [] t = <<",">> /\ Expects(doc, "next") ->
         [doc EXCEPT !.expect = IF Inside(doc, "object") THEN {"key"} ELSE {"value"}]
    [] t = <<"}">> /\ Expects(doc, "close") /\ Inside(doc, "object") -> Closed(doc)
    [] t = <<"]">> /\ Expects(doc, "close") /\ Inside(doc, "array") -> Closed(doc)
    [] OTHER -> Wrong

--------------------------------------------------------------------------------
(* Releases: the objects of the array that is the document. The value of the last *)
(* key that begins with the name of an attribute is the attribute: a key is not   *)
(* compared behind the name of the path.                                          *)

Kinds(doc) == [i \in 1..Len(doc.open) |-> doc.open[i].kind]

IsRelease(doc, t) == t = <<"{">> /\ Expects(doc, "value") /\ Kinds(doc) = <<"array">>

IsAttribute(doc, t, key) == IsString(t) /\ Expects(doc, "value") /\ Inside(doc, "object") /\ IsPrefix(key, doc.key)

IsTag(doc, t) == IsAttribute(doc, t, TagKey) /\ Kinds(doc) = <<"array", "object">>

\* The url of an asset. The elements of an array have no key: arrays in arrays
\* lead to an asset, too.
IsUrl(doc, t) ==
  /\ IsAttribute(doc, t, UrlKey)
  /\ Len(doc.open) = 4 /\ doc.open[1].kind = "array"
  /\ doc.open[2].kind = "object" => IsPrefix(AssetsKey, doc.open[3].key)
  /\ doc.open[3].kind = "array"

\* The releases published so far, newest first, when doc goes on with t.
Published(releases, doc, t) ==
  CASE IsRelease(doc, t) -> <<[name |-> NoName, url |-> NoName]>> \o releases
    [] IsTag(doc, t) /\ releases # <<>> -> [releases EXCEPT ![1].name = StringOf[t]]
    [] IsUrl(doc, t) /\ releases # <<>> -> [releases EXCEPT ![1].url = StringOf[t]]
    [] OTHER -> releases

================================================================================
