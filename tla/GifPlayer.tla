------------------------------- MODULE GifPlayer -------------------------------
(***************************************************************************)
(* gifplayer.c, with dirent_cache.c and the animation handlers of api.c:   *)
(* buttons and the HTTP server choose the animation, upload files and      *)
(* delete them, while the render loop plays the frames and remembers in    *)
(* flash what it plays.                                                    *)
(*                                                                         *)
(* What changes animations or files has the player's lock: todo is what    *)
(* its holder has still to do.  It takes the GUI's lock to set an          *)
(* animation; the renderer has that lock and takes the player's where a    *)
(* new animation has its first frame.  Each may then wait for the other,   *)
(* and both stop: see Locks.                                               *)
(*                                                                         *)
(* A path is the name of its file.  Left out: pixels, the text of requests *)
(* and answers, and running out of memory.                                 *)
(***************************************************************************)
EXTENDS DirentCache

CONSTANTS
  Names,                \* file names: sequences of characters
  MaxFiles,             \* bounds the directory
  MaxOperations         \* bounds the number of operations and resets

ASSUME GifPlayerAssumption ==
  /\ \A n \in Names : n \in Seq(Nat \ {NUL}) /\ n # <<>>
  /\ MaxFiles \in Nat /\ MaxOperations \in Nat

None == <<>>            \* no name: a NULL
Contents == {"absent", "broken", "still", "animated"}

VARIABLES
  directory,            \* the names, in the order readdir returns them
  content,              \* of the files; a still image has no time of a next frame
  stored,               \* settings: the default animation
  cache,                \* animation_dirent_cache
  current_animation_path,
  has_animation_changed,
  animation_loaded,
  next_frame_deadline,  \* "due", "later", or "never", which is -1
  frame_played,         \* the renderer, with the GUI locked, is about to note it
  todo,
  operations,
  unlisted              \* history: files created by an upload that failed

flash == <<directory, content, stored>>
player == <<current_animation_path, has_animation_changed, animation_loaded>>
vars == <<flash, cache, player, next_frame_deadline, frame_played, todo, operations, unlisted>>

\* The names but for those in lost, in their order.
Without(names, lost) ==
  LET kept[k \in 0..Len(names)] ==
        IF k = 0 THEN <<>>
        ELSE IF names[k] \in lost THEN kept[k - 1] ELSE Append(kept[k - 1], names[k])
  IN kept[Len(names)]

CanOpen(n) == n \in Names /\ content[n] \in {"still", "animated"}
NameAt(iter) == IF iter = NULL THEN None ELSE StringAt(cache, iter)
Locked == todo # <<>>

-------------------------------------------------------------------------------
(* Setting an animation, with both locks held.                              *)

\* Mutant: the animation is not to be remembered.
SetOnly(n) ==
  /\ animation_loaded' = CanOpen(n)
  /\ current_animation_path' = IF animation_loaded' THEN n ELSE None
  /\ UNCHANGED has_animation_changed

\* gifplayer_set_animation__; None stops the playback.
gifplayer_set_animation(n) ==
  /\ animation_loaded' = CanOpen(n)
  /\ current_animation_path' = IF animation_loaded' THEN n ELSE None
  /\ has_animation_changed' = (has_animation_changed \/ animation_loaded')

\* The animation to go to with the buttons; the one that is playing may not be
\* listed, and there may be none.
NextName(n) ==
  LET iter == IF n = None THEN NULL ELSE iter_next(cache, find_entry(cache, n))
  IN NameAt(IF iter # NULL THEN iter ELSE iter_first(cache))

PrevName(n) ==
  LET iter == IF n = None THEN NULL ELSE iter_prev(cache, find_entry(cache, n))
  IN NameAt(IF iter # NULL THEN iter ELSE iter_last(cache))

-------------------------------------------------------------------------------
(* The operations: each is a sequence of steps.                             *)

Set(n) == <<"set", n>>
Open(n) == <<"open", n>>
Receive(n) == <<"receive", n>>
Unlink(n) == <<"unlink", n>>
Update == <<"update", None>>

Perform(steps) ==
  /\ ~Locked /\ operations < MaxOperations
  /\ operations' = operations + 1
  /\ todo' = steps
  /\ UNCHANGED <<flash, cache, player, next_frame_deadline, frame_played, unlisted>>

gifplayer_play_next_animation == Perform(<<Set(NextName(current_animation_path))>>)
gifplayer_play_prev_animation == Perform(<<Set(PrevName(current_animation_path))>>)
http_get_set_animation(n) == Perform(<<Set(n)>>)

http_post_upload_animation(n) ==
  /\ content[n] = "absent" => Len(directory) < MaxFiles
  /\ Perform(<<Open(n)>>)

\* Mutant: the animation that is playing is deleted as any other.
DeletePlaying(n) == Perform(<<Unlink(n), Update>>)
\* Mutant: the list is not updated.
DeleteUnlisted(n) ==
  Perform(IF current_animation_path = n THEN <<Set(None), Unlink(n)>> ELSE <<Unlink(n)>>)

http_get_delete_animation(n) ==
  Perform(IF current_animation_path = n THEN <<Set(None), Unlink(n), Update>>
          ELSE <<Unlink(n), Update>>)

Operation ==
  \/ gifplayer_play_next_animation \/ gifplayer_play_prev_animation
  \/ \E n \in Names : \/ http_get_set_animation(n) \/ http_post_upload_animation(n)
                      \/ http_get_delete_animation(n)

-------------------------------------------------------------------------------
(* The steps.                                                               *)

Now(step, n) == Locked /\ Head(todo) = <<step, n>>

\* An upload that has stopped the playback starts the animation anew: it did so
\* if none was playing, or this one.
SetStep(n) ==
  /\ Now("set", n) /\ ~frame_played
  /\ gifplayer_set_animation(n)
  /\ todo' = Tail(todo)
  /\ UNCHANGED <<flash, cache, next_frame_deadline, frame_played, operations, unlisted>>

\* fopen creates the file or cuts it to nothing.
OpenStep(n) ==
  /\ Now("open", n)
  /\ content' = [content EXCEPT ![n] = "broken"]
  /\ IF content[n] = "absent"
     THEN \E k \in 1..Len(directory) + 1 : directory' = InsertAt(directory, k, n)
     ELSE UNCHANGED directory
  /\ unlisted' = IF content[n] = "absent" THEN unlisted \cup {n} ELSE unlisted
  /\ todo' = IF current_animation_path \in {None, n}
             THEN <<Set(None), Receive(n), Set(n), Update>> ELSE <<Receive(n), Update>>
  /\ UNCHANGED <<stored, cache, player, next_frame_deadline, frame_played, operations>>

\* Anything may be uploaded; an upload that fails leaves what came so far, and
\* does no more.
ReceiveStep(n) ==
  /\ Now("receive", n)
  /\ \E c \in Contents \ {"absent"} : content' = [content EXCEPT ![n] = c]
  /\ todo' \in {Tail(todo), <<>>}
  /\ UNCHANGED <<directory, stored, cache, player, next_frame_deadline, frame_played,
                 operations, unlisted>>

UnlinkStep(n) ==
  /\ Now("unlink", n)
  /\ content' = [content EXCEPT ![n] = "absent"]
  /\ directory' = Without(directory, {n})
  /\ unlisted' = unlisted \ {n}
  /\ todo' = Tail(todo)
  /\ UNCHANGED <<stored, cache, player, next_frame_deadline, frame_played, operations>>

\* dirent_cache_update_
UpdateStep ==
  /\ Now("update", None)
  /\ cache' = iterate_dir(directory)
  /\ unlisted' = {}
  /\ todo' = Tail(todo)
  /\ UNCHANGED <<flash, player, next_frame_deadline, frame_played, operations>>

Step ==
  \/ UpdateStep \/ SetStep(None)
  \/ \E n \in Names : SetStep(n) \/ OpenStep(n) \/ ReceiveStep(n) \/ UnlinkStep(n)

-------------------------------------------------------------------------------
(* The render loop, with the GUI locked.                                    *)

\* A frame of a file that has been cut meanwhile has no duration.
gui_gifplayer_render ==
  /\ animation_loaded /\ next_frame_deadline = "due" /\ ~frame_played
  /\ next_frame_deadline' = IF content[current_animation_path] = "animated" THEN "later"
                            ELSE "never"
  /\ frame_played' = has_animation_changed
  /\ UNCHANGED <<flash, cache, player, todo, operations, unlisted>>

gifplayer_frame_played ==
  /\ frame_played /\ ~Locked
  /\ frame_played' = FALSE
  /\ has_animation_changed' = FALSE
  /\ stored' = IF current_animation_path # None THEN current_animation_path ELSE stored
  /\ UNCHANGED <<directory, content, cache, current_animation_path, animation_loaded,
                 next_frame_deadline, todo, operations, unlisted>>

FrameIsDue ==
  /\ next_frame_deadline = "later"
  /\ next_frame_deadline' = "due"
  /\ UNCHANGED <<flash, cache, player, frame_played, todo, operations, unlisted>>

-------------------------------------------------------------------------------
(* The start.                                                               *)

\* gifplayer_init: the default animation if it can be opened, or the first one.
Opened(n) == IF CanOpen(n) THEN n ELSE None
gifplayer_init ==
  IF Opened(stored) # None \/ directory = <<>> THEN Opened(stored) ELSE Opened(Head(directory))

\* What has been uploaded, deleted and played before the device was switched on.
Init ==
  /\ directory \in {d \in BoundedSeq(Names, MaxFiles) : IsInjective(d)}
  /\ content \in [Names -> Contents]
  /\ \A n \in Names : content[n] = "absent" <=> n \notin ToSet(directory)
  /\ stored \in Names \cup {None}
  /\ cache = iterate_dir(directory)
  /\ current_animation_path = gifplayer_init
  /\ animation_loaded = (gifplayer_init # None)
  /\ has_animation_changed = (gifplayer_init \notin {None, stored})
  /\ next_frame_deadline = "due" /\ frame_played = FALSE
  /\ todo = <<>> /\ operations = 0 /\ unlisted = {}

Reset ==
  /\ operations < MaxOperations
  /\ operations' = operations + 1
  /\ cache' = iterate_dir(directory)
  /\ current_animation_path' = gifplayer_init
  /\ animation_loaded' = (gifplayer_init # None)
  /\ has_animation_changed' = (gifplayer_init \notin {None, stored})
  /\ next_frame_deadline' = "due" /\ frame_played' = FALSE
  /\ todo' = <<>> /\ unlisted' = {}
  /\ UNCHANGED flash

Next ==
  \/ Operation \/ Step \/ Reset
  \/ gui_gifplayer_render \/ gifplayer_frame_played \/ FrameIsDue

Spec == Init /\ [][Next]_vars

-------------------------------------------------------------------------------
(* Properties.                                                              *)

\* The names the iterators go through, by the sequence they stand for.
Listed == Without(directory, unlisted)

TypeOK ==
  /\ IsInjective(directory) /\ ToSet(directory) = {n \in Names : content[n] # "absent"}
  /\ content \in [Names -> Contents]
  /\ {stored, current_animation_path} \subseteq Names \cup {None}
  /\ animation_loaded <=> current_animation_path # None
  /\ {has_animation_changed, animation_loaded, frame_played} \subseteq BOOLEAN
  /\ next_frame_deadline \in {"due", "later", "never"}
  /\ Len(todo) <= 4 /\ operations \in 0..MaxOperations /\ unlisted \subseteq Names

\* The file of the animation that is loaded is there and whole, whatever is
\* uploaded or deleted; except that an upload cuts the file before it stops the
\* playback.
FileIsWhole ==
  animation_loaded =>
    \/ CanOpen(current_animation_path)
    \/ Locked /\ Head(todo) = Set(None)

\* What plays is what will play after a reset, once its first frame was shown,
\* although the renderer looks at has_animation_changed without the player's lock.
PlayedIsStored ==
  animation_loaded /\ ~has_animation_changed => stored = current_animation_path

\* The list is that of the directory, in its order, but for files that were left
\* by an upload that failed.
ListIsCurrent == ~Locked => cache = iterate_dir(Listed)

\* The buttons go round the list, in both directions: what the iterators find by
\* looking for NULs is the neighbour in the list.
ButtonsGoRound ==
  ~Locked =>
    \A k \in 1..Len(Listed) :
      LET next == Listed[(k % Len(Listed)) + 1]
      IN NextName(Listed[k]) = next /\ PrevName(next) = Listed[k]
================================================================================
