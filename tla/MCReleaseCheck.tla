----------------------------- MODULE MCReleaseCheck -----------------------------
(* The paths of github.c with names of one letter: "t" for tag_name, "a" for     *)
(* assets, "u" for browser_download_url.                                         *)
EXTENDS ReleaseCheck
MCPathText ==
  "release" :> <<"[", "]", ".", ".">>
  @@ "tag" :> <<"[", "]", ".", ".", "t">>
  @@ "url" :> <<"[", "]", ".", ".", "a", ".", "[", "]", ".", "u">>
MCDigit == "1" :> 1
MCTagKey == <<"t">>
MCAssetsKey == <<"a">>
MCUrlKey == <<"u">>
MCStringOf ==
  <<"\"", "t", "\"">> :> <<"t">> @@ <<"\"", "a", "\"">> :> <<"a">> @@ <<"\"", "u", "\"">> :> <<"u">>
  @@ <<"\"", "\\", "n", "\"">> :> <<"LF">>
MCScalars == {<<"1">>}
MCTokens == DOMAIN MCStringOf \cup MCScalars \cup {<<"[">>, <<"]">>, <<"{">>, <<"}">>, <<":">>, <<",">>}
\* Lists of releases with a string of one kind as value, and other keys than those
\* looked for only in a release; numbers only there and in the list; below four
\* levels only an empty array in arrays. Other text only when at most the list is open.
MCSends(d, t) ==
  /\ d # Wrong /\ (Read(d, t) = Wrong => Len(d.open) < 2)
  /\ IsString(t) => IF Expects(d, "value") THEN StringOf[t] = <<"LF">>
                    ELSE StringOf[t] = <<"LF">> => Len(d.open) = 2
  /\ Len(d.open) > 2 => t \notin Scalars
  /\ Len(d.open) = 4 => t # <<"{">> /\ (t = <<"[">> => ~Inside(d, "object") /\ Kinds(d)[2] = "array")
  /\ Len(d.open) = 5 => t = <<"]">>
================================================================================
