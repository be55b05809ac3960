-------------------------------- MODULE JsonText --------------------------------
(* The parser with any text at all: cbjson_process takes character after          *)
(* character, and goes on after an error when its caller does, as the HTTP client *)
(* of github.c. When a callback failed the paths may not have gone down into the  *)
(* object that was opened; with paths that look for an object right inside        *)
(* another one (as "", "." and ".." together), an assertion may fail later on, so *)
(* that nothing is said of those paths behind such an error.                      *)
EXTENDS CbJson

CONSTANTS Chars

VARIABLES parser, result

textVars == <<parser, result>>

TextInit == parser = cbjson_init /\ result = "OK"

Feed ==
  /\ result \notin {"ASSERT", "UNDEFINED"} /\ (result = "CALLBACK" => ObjectsApart)
  /\ \E c \in Chars, mem \in BOOLEAN :
       LET r == process_char(parser, c, mem)
       IN parser' = r.cbj /\ result' = r.err

TextSpec == TextInit /\ [][Feed]_textVars

\* No text makes an assertion of the parser fail: every path that is looked at can
\* go back up to where the document goes (cbjson.c:286), and down to where it was
\* found to go (cbjson.c:656, 672), whatever the paths and the text.
NoAssertFails == result # "ASSERT"

================================================================================
