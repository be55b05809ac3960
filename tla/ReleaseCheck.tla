------------------------------ MODULE ReleaseCheck ------------------------------
(* The list of releases (github_release_ota.c): a task of its own requests it    *)
(* from a server (async_http_client.c) and parses what comes (github.c, ota.c),  *)
(* while the button task waits for the user to leave. The two share the request  *)
(* and the elements of the screen without a lock: what keeps them apart is that  *)
(* leaving waits until the request is done.                                      *)
(* The HTTP client of the system is external: it connects or not, hands over     *)
(* text, and ends with or without an error event. It goes on after an error of   *)
(* the parser. Strings are sequences of characters.                              *)
EXTENDS CbJson, JsonDocument

CONSTANTS
  NULL,
  Tokens,          \* what the server sends, one after the other
  Sends(_, _),     \* bound: which of them it sends when the document is what it is
  MaxDepth,        \* bound: how deep arrays and objects are nested
  MaxReleases,     \* bound: releases in the list
  MaxIndex,        \* bound: elements of an array, but one
  MaxString        \* bound: characters in a string

\* One path looks for an object, a release (github.c:139), and the server sends
\* characters.
ASSUME ObjectsAssumption == ObjectsApart
ASSUME TokensAssumption == Tokens \subseteq Seq(STRING)

VARIABLES
  cbj,             \* the parser
  releases, current_release,
  task,            \* what the task of the request does next: "none", "init", "perform",
                   \* "judge", "cleanup", "done" or "delete"
  err, abort, done,
  user,            \* "menu", "app", or "leaving" while EXIT waits for the request
  wait_modal, app_container,   \* which screens are not hidden
  ota_labels,      \* whether the labels are allocated
  children,        \* the labels of them that are children of the screen
  freed_child,     \* a label was freed that is still a child of the screen
  doc, published,  \* what the server sent, as a document, and the releases in it
  trusted,         \* that it is one, and memory sufficed
  reports,         \* what was reported to the application: "done", "error"
  aborted          \* since the last restart a request was aborted when its list was shown

requestVars == <<task, err, abort, done>>
parserVars == <<cbj, releases, current_release>>
screenVars == <<user, wait_modal, app_container, ota_labels, children, freed_child>>
serverVars == <<doc, published, trusted>>
ghostVars == <<reports, aborted>>
vars == <<requestVars, parserVars, screenVars, serverVars, ghostVars>>

ota_http_firmware_update_new == [name |-> NoName, url |-> NoName]
ota_http_update_add_release(list, release) == <<release>> \o list
ota_http_update_free_releases == releases' = <<>>

Init ==
  /\ cbj = cbjson_init /\ releases = <<>> /\ current_release = NULL
  /\ task = "none" /\ err = FALSE /\ abort = FALSE /\ done = FALSE
  /\ user = "menu" /\ wait_modal = FALSE /\ app_container = FALSE
  /\ ota_labels = FALSE /\ children = {}
  /\ doc = NewDocument /\ published = <<>> /\ trusted = TRUE
  /\ reports = <<>> /\ freed_child = FALSE /\ aborted = FALSE

--------------------------------------------------------------------------------
(* The user.                                                                      *)

\* Without memory for the URL there is no request. The storage of the task is
\* used again: bound, only after the task is gone.
github_list_releases ==
  /\ task = "none"
  /\ \E mem \in BOOLEAN : task' = IF mem THEN "init" ELSE "none"
  /\ err' = FALSE /\ abort' = FALSE /\ done' = FALSE
  /\ releases' = <<>> /\ current_release' = NULL /\ cbj' = cbjson_init
  /\ doc' = NewDocument /\ published' = <<>> /\ trusted' = TRUE /\ reports' = <<>>

\* The menu starts the application.
github_release_ota_run ==
  /\ user = "menu" /\ user' = "app"
  /\ wait_modal' = TRUE /\ ota_labels' = FALSE
  /\ github_list_releases
  /\ UNCHANGED <<app_container, children, freed_child, aborted>>

\* EXIT: the request is aborted, and waited for.
ExitPressed ==
  /\ user = "app"
  /\ abort' = TRUE /\ user' = "leaving"
  /\ UNCHANGED <<task, err, done, wait_modal, app_container, ota_labels, children, freed_child, parserVars, serverVars, ghostVars>>

\* A label for each release that is left is removed, then all labels are freed:
\* those that were not removed stay in the screen for good.
remove_ota_labels ==
  LET left == children \ (1..Len(releases))
  IN IF ~ota_labels THEN UNCHANGED <<ota_labels, children, freed_child>>
     ELSE /\ ota_labels' = FALSE /\ children' = {}
          /\ freed_child' = (freed_child \/ left # {})

\* Mutant: EXIT does not wait.
LeavesAtOnce ==
  /\ user = "leaving"
  /\ remove_ota_labels
  /\ ota_http_update_free_releases /\ published' = <<>>
  /\ wait_modal' = FALSE /\ app_container' = FALSE /\ user' = "menu"
  /\ UNCHANGED <<cbj, current_release, requestVars, doc, trusted, ghostVars>>

ExitLeaves ==
  /\ user = "leaving" /\ done
  /\ remove_ota_labels
  /\ ota_http_update_free_releases /\ published' = <<>>
  /\ wait_modal' = FALSE /\ app_container' = FALSE /\ user' = "menu"
  /\ UNCHANGED <<cbj, current_release, requestVars, doc, trusted, ghostVars>>

--------------------------------------------------------------------------------
(* The callbacks of the request.                                                  *)

\* The list is shown, with a label for each release if there is memory for them.
ota_cb(list) ==
  /\ wait_modal' = FALSE /\ app_container' = TRUE
  /\ \/ ota_labels' = TRUE /\ children' = children \cup 1..Len(list)
     \/ UNCHANGED <<ota_labels, children>>
  /\ UNCHANGED <<freed_child, user>>

\* That it failed is shown.
ota_cb_error ==
  /\ wait_modal' = FALSE /\ app_container' = TRUE
  /\ UNCHANGED <<ota_labels, children, freed_child, user>>

\* What the callbacks of the parser do to the releases (newest first).
release_cb(g) ==
  [current |-> ota_http_firmware_update_new,
   list |-> IF g.current = NULL THEN g.list ELSE ota_http_update_add_release(g.list, g.current)]
tag_name_cb(g, call) ==
  IF call.type # "STRING" \/ g.current = NULL THEN g ELSE [g EXCEPT !.current.name = call.string]
download_url_cb(g, call) ==
  IF call.type # "STRING" \/ g.current = NULL THEN g ELSE [g EXCEPT !.current.url = call.string]

Collected(g, call) ==
  CASE call.path = "release" -> release_cb(g)
    [] call.path = "tag" -> tag_name_cb(g, call)
    [] OTHER -> download_url_cb(g, call)

\* The callbacks made with r; the last one had no memory if it failed. A release
\* that cannot be allocated leaves none.
CollectedAll(r) ==
  LET failed == r.err = "CALLBACK"
      made == IF failed THEN Front(r.calls) ELSE r.calls
      g == FoldLeft(Collected, [current |-> current_release, list |-> releases], made)
  IN IF failed /\ Last(r.calls).path = "release"
     THEN [Collected(g, Last(r.calls)) EXCEPT !.current = NULL]
     ELSE g

WithinBounds(k, list) ==
  /\ depth(k) <= MaxDepth /\ Len(list) < MaxReleases
  /\ k.array_index <= MaxIndex /\ Len(k.strbuf) <= MaxString

http_progress_cb(token, mem) ==
  \E r \in {cbjson_process(cbj, token, mem)} : \E g \in {CollectedAll(r)} :
     /\ WithinBounds(r.cbj, g.list)
     /\ task' = IF r.err \in {"ASSERT", "UNDEFINED"} THEN "panic" ELSE task
     /\ cbj' = r.cbj /\ releases' = g.list /\ current_release' = g.current
     /\ trusted' = (trusted /\ r.err = "OK" /\ Read(doc, token) # Wrong)
     /\ doc' = IF trusted' THEN Read(doc, token) ELSE Wrong
     /\ published' = IF trusted' THEN Published(published, doc, token) ELSE <<>>

AllReleases ==
  IF current_release = NULL THEN releases ELSE ota_http_update_add_release(releases, current_release)

\* Mutant: the last release comes to the list when it is shown already.
LastReleaseLate ==
  /\ releases' = AllReleases
  /\ current_release' = NULL /\ cbj' = cbjson_init
  /\ ota_cb(releases) /\ reports' = Append(reports, "done")
  /\ doc' = NewDocument /\ UNCHANGED <<published, trusted, aborted>>

\* When the request is over the parser is not used any more: it is new here.
http_done_cb ==
  /\ releases' = AllReleases
  /\ current_release' = NULL /\ cbj' = cbjson_init
  /\ ota_cb(releases') /\ reports' = Append(reports, "done")
  /\ doc' = NewDocument /\ UNCHANGED <<published, trusted, aborted>>

http_error_cb ==
  /\ ota_http_update_free_releases /\ current_release' = NULL /\ cbj' = cbjson_init
  /\ ota_cb_error /\ reports' = Append(reports, "error")
  /\ aborted' = (aborted \/ reports = <<"done">>)
  /\ doc' = NewDocument /\ published' = <<>> /\ UNCHANGED trusted

--------------------------------------------------------------------------------
(* async_http_client_run.                                                         *)

ClientInit ==
  /\ task = "init" /\ task' = "perform"
  /\ UNCHANGED <<err, abort, done, parserVars, screenVars, serverVars, ghostVars>>

\* Without memory for the client the task returns.
ClientInitFails ==
  /\ task = "init" /\ task' = "return" /\ done' = TRUE
  /\ http_error_cb /\ UNCHANGED <<err, abort>>

\* A restart: of all this nothing is kept.
Reset ==
  /\ cbj' = cbjson_init /\ releases' = <<>> /\ current_release' = NULL
  /\ task' = "none" /\ err' = FALSE /\ abort' = FALSE /\ done' = FALSE
  /\ user' = "menu" /\ wait_modal' = FALSE /\ app_container' = FALSE
  /\ ota_labels' = FALSE /\ children' = {}
  /\ doc' = NewDocument /\ published' = <<>> /\ trusted' = TRUE
  /\ reports' = <<>> /\ freed_child' = FALSE /\ aborted' = FALSE

\* A task that returns and an assertion that fails restart the system; undefined
\* behaviour of the parser is taken for a failed assertion.
Restart == task \in {"return", "panic"} /\ Reset

\* The screen is drawn with a child that was freed: the system may restart, or go on.
FreedIsDrawn == freed_child /\ app_container /\ Reset

OnData ==
  /\ task = "perform"
  /\ \E token \in {t \in Tokens : Sends(doc, t)}, mem \in BOOLEAN : http_progress_cb(token, mem)
  /\ UNCHANGED <<err, abort, done, screenVars, ghostVars>>

OnFinish ==
  /\ task = "perform" /\ task' = "judge" /\ err' = FALSE
  /\ http_done_cb /\ UNCHANGED <<abort, done>>

OnError ==
  /\ task = "perform" /\ task' = "judge" /\ err' = TRUE
  /\ http_error_cb /\ UNCHANGED <<abort, done>>

\* An error without an event: also after EAGAIN, at the deadline or on an abort.
PerformFails ==
  /\ task = "perform" /\ task' = "judge" /\ err' = TRUE
  /\ UNCHANGED <<abort, done, parserVars, screenVars, serverVars, ghostVars>>

Judge ==
  /\ task = "judge" /\ task' = "cleanup"
  /\ IF err \/ abort THEN http_error_cb ELSE UNCHANGED <<parserVars, screenVars, serverVars, ghostVars>>
  /\ UNCHANGED <<err, abort, done>>

\* Mutant: only a request that succeeds is done.
DoneUnlessError ==
  /\ task = "cleanup" /\ task' = "delete" /\ done' = ~err
  /\ UNCHANGED <<err, abort, parserVars, screenVars, serverVars, ghostVars>>

ClientCleanup ==
  /\ task = "cleanup" /\ task' = "delete" /\ done' = TRUE
  /\ UNCHANGED <<err, abort, parserVars, screenVars, serverVars, ghostVars>>

TaskDelete ==
  /\ task = "delete" /\ task' = "none"
  /\ UNCHANGED <<err, abort, done, parserVars, screenVars, serverVars, ghostVars>>

ClientRun ==
  \/ ClientInit \/ ClientInitFails \/ Restart \/ OnFinish \/ OnError \/ PerformFails
  \/ Judge \/ ClientCleanup \/ TaskDelete

Next == github_release_ota_run \/ ExitPressed \/ ExitLeaves \/ OnData \/ FreedIsDrawn \/ ClientRun

\* The task runs, and a transfer ends: the client has a timeout. The buttons' task
\* runs, and looks whether the request is done.
Spec ==
  /\ Init /\ [][Next]_vars
  /\ WF_vars(ClientRun) /\ WF_vars(ExitLeaves)

--------------------------------------------------------------------------------
TypeOK ==
  /\ task \in {"none", "init", "perform", "judge", "cleanup", "delete", "return", "panic"}
  /\ {err, abort, done, wait_modal, app_container, trusted, freed_child, aborted} \subseteq BOOLEAN
  /\ user \in {"menu", "app", "leaving"}
  /\ cbj.at \in [Paths -> non_matching_paths..depth(cbj)]

\* No text makes an assertion of the parser fail, as every path that is looked at
\* can go back to where the document goes (cbjson.c:286, 656, 672), and none has
\* the parser follow a lost list, but those that made the stack grow.
NoUndefinedPop == task = "panic" => cbj.moved > 0

\* While the server sends a list of releases, the releases are those it published
\* so far, each with its own last tag and url, wherever else in the document keys
\* of these names are (cbjson.c, github.c:17).
ReleasesAsPublished ==
  trusted => published = AllReleases

\* A label that is shown is that of a release whose name still exists, and no freed
\* label is left in the screen (github_release_ota.c:29, 126), as long as no request
\* was aborted after its list was shown. Such a request frees the releases, so that
\* leaving removes no label (33) before it frees them all (41): from then to a
\* restart freed labels are in the screen, for all requests, and nothing is claimed.
ShownReleasesExist ==
  ~aborted => /\ ota_labels => children = 1..Len(releases)
              /\ ~freed_child

\* In the menu nothing of the application is shown, and nothing of it happens any
\* more: the task has only itself to delete (github_release_ota.c:45).
LeftIsLeft ==
  user = "menu" => /\ ~wait_modal /\ ~app_container
                   /\ task \in {"none", "delete", "return"}
                   /\ releases = <<>> /\ current_release = NULL /\ ~ota_labels

\* The user gets out of the application, unless the request was never started.
\* (async_http_client.c:101).
ExitLeadsToMenu == (user = "leaving" /\ (done \/ task # "none")) ~> user = "menu"

================================================================================
