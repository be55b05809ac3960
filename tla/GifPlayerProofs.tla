---------------------------- MODULE GifPlayerProofs ----------------------------
(***************************************************************************)
(* What the player plays is in flash and its file is whole; the list is    *)
(* that of the directory, and the buttons go round it: proofs for every    *)
(* set of names, any number of files and any number of operations.         *)
(*                                                                         *)
(* FileIsWhole needs to know what the holder of the player's lock is still *)
(* to do: a file that will be written or deleted is not the one playing.   *)
(* So does ListIsCurrent: what an operation has made of the directory, it  *)
(* writes to the list at its end.                                          *)
(*                                                                         *)
(* ButtonsGoRound is about dirent_cache.c: where iterate_dir has written   *)
(* each name (Ring), and what the iterators make of these places.          *)
(***************************************************************************)
EXTENDS GifPlayer, SequenceTheorems, WellFoundedInduction, TLAPS

PlayerTypes ==
  /\ content \in [Names -> Contents]
  /\ current_animation_path \in Names \cup {None}
  /\ animation_loaded \in BOOLEAN /\ has_animation_changed \in BOOLEAN
  /\ animation_loaded <=> current_animation_path # None

\* What is left of an operation, and what holds meanwhile.
Receives(n) == {<<Receive(n), Update>>, <<Receive(n), Set(n), Update>>}
Remains ==
  \/ todo \in {<<>>, <<Update>>}
  \/ \E n : todo \in {<<Set(n)>>, <<Set(n), Update>>}
  \/ \E n \in Names :
       \/ todo \in {<<Open(n)>>, <<Set(None), Unlink(n), Update>>}
       \/ todo = <<Set(None), Receive(n), Set(n), Update>> /\ content[n] # "absent"
       \/ todo \in Receives(n) /\ content[n] # "absent" /\ current_animation_path # n
       \/ todo = <<Unlink(n), Update>> /\ current_animation_path # n

FileInv == PlayerTypes /\ FileIsWhole /\ Remains

\* A file has a name.
NoneIsNoName == None \notin Names
LEMMA NamesAreNotEmpty == NoneIsNoName
BY GifPlayerAssumption DEF None, NoneIsNoName

\* Sequences of up to four steps.
One == \A a : <<a>> # <<>> /\ Head(<<a>>) = a /\ Tail(<<a>>) = <<>>
Two == \A a, b : <<a, b>> # <<>> /\ Head(<<a, b>>) = a /\ Tail(<<a, b>>) = <<b>>
Three ==
  \A a, b, c : <<a, b, c>> # <<>> /\ Head(<<a, b, c>>) = a /\ Tail(<<a, b, c>>) = <<b, c>>
Four ==
  \A a, b, c, d :
    <<a, b, c, d>> # <<>> /\ Head(<<a, b, c, d>>) = a /\ Tail(<<a, b, c, d>>) = <<b, c, d>>
LEMMA Tuples == One /\ Two /\ Three /\ Four
<1>1. One
  BY DEF One
<1>2. Two
  BY DEF Two
<1>3. Three
  BY DEF Three
<1>4. Four
  BY DEF Four
<1> QED
  BY <1>1, <1>2, <1>3, <1>4

StepFacts ==
  \A m, n :
    /\ Set(m) # Open(n) /\ Set(m) # Receive(n) /\ Set(m) # Unlink(n) /\ Set(m) # Update
    /\ Open(m) # Receive(n) /\ Open(m) # Unlink(n) /\ Open(m) # Update
    /\ Receive(m) # Unlink(n) /\ Receive(m) # Update /\ Unlink(m) # Update
    /\ (Set(m) = Set(n) => m = n) /\ (Receive(m) = Receive(n) => m = n)
    /\ (Unlink(m) = Unlink(n) => m = n) /\ (Open(m) = Open(n) => m = n)
LEMMA Steps == StepFacts
BY DEF StepFacts, Set, Open, Receive, Unlink, Update

\* What follows each step.
AfterSet(n) ==
  \/ Tail(todo) \in {<<>>, <<Update>>}
  \/ n = None /\ \E m \in Names :
       \/ Tail(todo) = <<Receive(m), Set(m), Update>> /\ content[m] # "absent"
       \/ Tail(todo) = <<Unlink(m), Update>>
AfterReceive(n) ==
  /\ Tail(todo) \in {<<Update>>, <<Set(n), Update>>}
  /\ content[n] # "absent" /\ current_animation_path # n
AfterUnlink(n) == Tail(todo) = <<Update>> /\ current_animation_path # n

LEMMA WhatFollows ==
  ASSUME Remains, Locked
  PROVE  /\ \A n : Head(todo) = Set(n) => AfterSet(n)
         /\ \A n : Head(todo) = Receive(n) => AfterReceive(n)
         /\ \A n : Head(todo) = Unlink(n) => AfterUnlink(n)
         /\ Head(todo) = Update => Tail(todo) = <<>>
<1>1. CASE todo \in {<<>>, <<Update>>}
  <2>1. Head(todo) = Update /\ Tail(todo) = <<>>
    BY <1>1, Tuples DEF Locked, One
  <2> QED
    BY <2>1, Steps DEF StepFacts
<1>2. ASSUME NEW n, todo \in {<<Set(n)>>, <<Set(n), Update>>}
      PROVE  Head(todo) = Set(n) /\ Tail(todo) \in {<<>>, <<Update>>}
  BY <1>2, Tuples DEF One, Two
<1>3. ASSUME NEW n \in Names, todo = <<Open(n)>>
      PROVE  Head(todo) = Open(n)
  BY <1>3, Tuples DEF One
<1>4. ASSUME NEW n \in Names, todo = <<Set(None), Receive(n), Set(n), Update>>
      PROVE  Head(todo) = Set(None) /\ Tail(todo) = <<Receive(n), Set(n), Update>>
  BY <1>4, Tuples DEF Four
<1>5. ASSUME NEW n \in Names, todo = <<Set(None), Unlink(n), Update>>
      PROVE  Head(todo) = Set(None) /\ Tail(todo) = <<Unlink(n), Update>>
  BY <1>5, Tuples DEF Three
<1>6. ASSUME NEW n \in Names, todo \in Receives(n)
      PROVE  Head(todo) = Receive(n) /\ Tail(todo) \in {<<Update>>, <<Set(n), Update>>}
  <2>1. CASE todo = <<Receive(n), Update>>
    BY <2>1, Tuples DEF Two
  <2>2. CASE todo = <<Receive(n), Set(n), Update>>
    BY <2>2, Tuples DEF Three
  <2> QED
    BY <1>6, <2>1, <2>2 DEF Receives
<1>7. CASE \E n : todo \in {<<Set(n)>>, <<Set(n), Update>>}
  <2>1. PICK n : Head(todo) = Set(n) /\ Tail(todo) \in {<<>>, <<Update>>}
    BY <1>2, <1>7
  <2> QED
    BY <2>1, Steps DEF StepFacts, AfterSet
<1>8. CASE \E n \in Names :
             \/ todo \in {<<Open(n)>>, <<Set(None), Unlink(n), Update>>}
             \/ todo = <<Set(None), Receive(n), Set(n), Update>> /\ content[n] # "absent"
  BY <1>3, <1>4, <1>5, <1>8, Steps DEF StepFacts, AfterSet
<1>9. CASE \E n \in Names :
             todo \in Receives(n) /\ content[n] # "absent" /\ current_animation_path # n
  BY <1>6, <1>9, Steps DEF StepFacts, AfterReceive
<1>10. CASE \E n \in Names : todo = <<Unlink(n), Update>> /\ current_animation_path # n
  <2>1. \A n : todo = <<Unlink(n), Update>> => Head(todo) = Unlink(n) /\ Tail(todo) = <<Update>>
    BY Tuples DEF Two
  <2> QED
    BY <1>10, <2>1, Steps DEF StepFacts, AfterUnlink
<1> QED
  BY <1>1, <1>7, <1>8, <1>9, <1>10 DEF Remains

\* A step that is not about the player.
Quiet == UNCHANGED <<content, player>>

LEMMA QuietTypes == PlayerTypes /\ Quiet => PlayerTypes'
BY DEF PlayerTypes, Quiet, player

LEMMA InitTypes == Init => PlayerTypes
BY DEF Init, PlayerTypes, gifplayer_init, Opened, CanOpen

LEMMA SetTypes == ASSUME PlayerTypes, NEW n, SetStep(n) PROVE PlayerTypes'
<1>1. content' = content
  BY DEF SetStep, flash
<1>2. gifplayer_set_animation(n)
  BY DEF SetStep
<1> QED
  BY <1>1, <1>2, NamesAreNotEmpty DEF gifplayer_set_animation, CanOpen, PlayerTypes, NoneIsNoName

LEMMA ContentTypes ==
  ASSUME PlayerTypes, NEW n \in Names, NEW c \in Contents, UNCHANGED player,
         content' = [content EXCEPT ![n] = c]
  PROVE  PlayerTypes'
BY DEF PlayerTypes, player

LEMMA TypesStep == PlayerTypes /\ [Next]_vars => PlayerTypes'
<1> SUFFICES ASSUME PlayerTypes, [Next]_vars PROVE PlayerTypes'
  OBVIOUS
<1>1. CASE Operation
  <2>1. \E steps : Perform(steps)
    BY <1>1 DEF Operation, gifplayer_play_next_animation, gifplayer_play_prev_animation,
                http_get_set_animation, http_post_upload_animation, http_get_delete_animation
  <2> QED
    BY <2>1, QuietTypes DEF Perform, flash, Quiet
<1>2. ASSUME NEW n, SetStep(n) PROVE PlayerTypes'
  BY <1>2, SetTypes
<1>3. ASSUME NEW n \in Names, OpenStep(n) \/ ReceiveStep(n) \/ UnlinkStep(n)
      PROVE  PlayerTypes'
  <2>1. UNCHANGED player /\ \E c \in Contents : content' = [content EXCEPT ![n] = c]
    BY <1>3 DEF OpenStep, ReceiveStep, UnlinkStep, Contents
  <2> QED
    BY <2>1, ContentTypes
<1>4. CASE UpdateStep \/ gui_gifplayer_render \/ FrameIsDue \/ UNCHANGED vars
  BY <1>4, QuietTypes DEF UpdateStep, gui_gifplayer_render, FrameIsDue, vars, flash, Quiet
<1>5. CASE gifplayer_frame_played
  BY <1>5 DEF gifplayer_frame_played, PlayerTypes
<1>6. CASE Reset
  BY <1>6 DEF Reset, PlayerTypes, gifplayer_init, Opened, CanOpen, flash
<1> QED
  BY <1>1, <1>2, <1>3, <1>4, <1>5, <1>6 DEF Next, Step

-------------------------------------------------------------------------------
(* What plays is what is stored.                                            *)

LEMMA StoredStep == PlayerTypes /\ PlayedIsStored /\ [Next]_vars => PlayedIsStored'
<1> SUFFICES ASSUME PlayerTypes, PlayedIsStored, [Next]_vars PROVE PlayedIsStored'
  OBVIOUS
<1>1. ASSUME UNCHANGED <<player, stored>> PROVE PlayedIsStored'
  BY <1>1 DEF PlayedIsStored, player
<1>2. CASE Operation
  <2>1. \E steps : Perform(steps)
    BY <1>2 DEF Operation, gifplayer_play_next_animation, gifplayer_play_prev_animation,
                http_get_set_animation, http_post_upload_animation, http_get_delete_animation
  <2> QED
    BY <1>1, <2>1 DEF Perform, flash
<1>3. ASSUME NEW n, SetStep(n) PROVE PlayedIsStored'
  BY <1>3 DEF SetStep, gifplayer_set_animation, PlayedIsStored, PlayerTypes
<1>4. ASSUME NEW n \in Names, OpenStep(n) \/ ReceiveStep(n) \/ UnlinkStep(n)
      PROVE  PlayedIsStored'
  BY <1>1, <1>4 DEF OpenStep, ReceiveStep, UnlinkStep
<1>5. CASE UpdateStep \/ gui_gifplayer_render \/ FrameIsDue \/ UNCHANGED vars
  BY <1>1, <1>5 DEF UpdateStep, gui_gifplayer_render, FrameIsDue, vars, flash
<1>6. CASE gifplayer_frame_played
  BY <1>6 DEF gifplayer_frame_played, PlayedIsStored, PlayerTypes
<1>7. CASE Reset
  BY <1>7 DEF Reset, PlayedIsStored, flash
<1> QED
  BY <1>2, <1>3, <1>4, <1>5, <1>6, <1>7 DEF Next, Step

LEMMA InitStored == Init => PlayedIsStored
BY DEF Init, PlayedIsStored

\* After a reset the device plays what it played, once it has shown a frame.
THEOREM PlayedAnimationIsStored == Spec => []PlayedIsStored
<1> PlayerTypes /\ PlayedIsStored /\ [Next]_vars => PlayerTypes' /\ PlayedIsStored'
  BY TypesStep, StoredStep
<1> QED
  BY InitTypes, InitStored, PTL DEF Spec

-------------------------------------------------------------------------------
(* What plays is there.                                                     *)

\* Between operations, and before a step that does not stop the playback.
WholeNow == animation_loaded => CanOpen(current_animation_path)

LEMMA WholeUnless ==
  ASSUME FileIsWhole, ~Locked \/ Head(todo) # Set(None) PROVE WholeNow
BY DEF FileIsWhole, WholeNow

LEMMA WholeKept ==
  ASSUME WholeNow, UNCHANGED <<content, player>> PROVE FileIsWhole'
BY DEF WholeNow, FileIsWhole, CanOpen, player

LEMMA InitFiles == Init => FileIsWhole /\ Remains
BY DEF Init, FileIsWhole, Remains, gifplayer_init, Opened, CanOpen

\* The steps of an operation as it begins.
Opens(steps, n) == steps = <<Open(n)>>
Deletes(steps, n) ==
  \/ current_animation_path = n /\ steps = <<Set(None), Unlink(n), Update>>
  \/ current_animation_path # n /\ steps = <<Unlink(n), Update>>

LEMMA BeginStep ==
  ASSUME FileInv, Operation PROVE FileIsWhole' /\ Remains'
<1>1. PICK steps : /\ Perform(steps)
                   /\ \/ \E n : steps = <<Set(n)>>
                      \/ \E n \in Names : Opens(steps, n) \/ Deletes(steps, n)
  <2>1. CASE gifplayer_play_next_animation \/ gifplayer_play_prev_animation
    BY <2>1 DEF gifplayer_play_next_animation, gifplayer_play_prev_animation
  <2>2. ASSUME NEW n \in Names, http_get_set_animation(n)
        PROVE  Perform(<<Set(n)>>)
    BY <2>2 DEF http_get_set_animation
  <2>3. ASSUME NEW n \in Names, http_post_upload_animation(n)
        PROVE  Perform(<<Open(n)>>)
    BY <2>3 DEF http_post_upload_animation
  <2>4. ASSUME NEW n \in Names, http_get_delete_animation(n)
        PROVE  \E steps : Perform(steps) /\ Deletes(steps, n)
    BY <2>4 DEF http_get_delete_animation, Deletes
  <2> QED
    BY <2>1, <2>2, <2>3, <2>4 DEF Operation, Opens
<1>2. ~Locked /\ todo' = steps /\ UNCHANGED <<content, player>>
  BY <1>1 DEF Perform, flash
<1>3. WholeNow
  BY <1>2, WholeUnless DEF FileInv
<1>4. FileIsWhole'
  BY <1>2, <1>3, WholeKept
<1>5. ASSUME \E n : steps = <<Set(n)>> PROVE Remains'
  BY <1>2, <1>5 DEF Remains
<1>6. ASSUME NEW n \in Names, Opens(steps, n) PROVE Remains'
  BY <1>2, <1>6 DEF Remains, Opens
<1>7. ASSUME NEW n \in Names, Deletes(steps, n) PROVE Remains'
  BY <1>2, <1>7 DEF Remains, Deletes, player
<1> QED
  BY <1>1, <1>4, <1>5, <1>6, <1>7

LEMMA SetFiles ==
  ASSUME FileInv, NEW n, SetStep(n) PROVE FileIsWhole' /\ Remains'
<1>1. /\ Locked /\ Head(todo) = Set(n) /\ todo' = Tail(todo) /\ content' = content
      /\ gifplayer_set_animation(n)
  BY DEF SetStep, Now, Set, flash
<1>2. FileIsWhole'
  <2>1. animation_loaded' => current_animation_path' = n /\ CanOpen(n)
    BY <1>1 DEF gifplayer_set_animation
  <2>2. CanOpen(n) => CanOpen(n)'
    BY <1>1 DEF CanOpen
  <2> QED
    BY <2>1, <2>2 DEF FileIsWhole, CanOpen
<1>3. AfterSet(n)
  BY <1>1, WhatFollows DEF FileInv
<1>4. ASSUME Tail(todo) \in {<<>>, <<Update>>} PROVE Remains'
  BY <1>1, <1>4 DEF Remains
<1>5. ASSUME n = None, NEW m \in Names,
             \/ Tail(todo) = <<Receive(m), Set(m), Update>> /\ content[m] # "absent"
             \/ Tail(todo) = <<Unlink(m), Update>>
      PROVE  Remains'
  <2>1. current_animation_path' = None
    BY <1>1, <1>5 DEF gifplayer_set_animation
  <2> QED
    BY <1>1, <1>5, <2>1, NamesAreNotEmpty DEF Remains, Receives, NoneIsNoName
<1> QED
  BY <1>2, <1>3, <1>4, <1>5 DEF AfterSet

LEMMA OpenFiles ==
  ASSUME FileInv, NEW n \in Names, OpenStep(n) PROVE FileIsWhole' /\ Remains'
<1>1. /\ Locked /\ Head(todo) = Open(n) /\ UNCHANGED player
      /\ content' = [content EXCEPT ![n] = "broken"]
      /\ todo' = IF current_animation_path \in {None, n}
                 THEN <<Set(None), Receive(n), Set(n), Update>> ELSE <<Receive(n), Update>>
  BY DEF OpenStep, Now, Open
<1>2. WholeNow
  BY <1>1, WholeUnless, Steps DEF FileInv, StepFacts
<1>5. content'[n] # "absent"
  BY <1>1 DEF FileInv, PlayerTypes
<1>3. CASE current_animation_path \in {None, n}
  <2>1. todo' = <<Set(None), Receive(n), Set(n), Update>>
    BY <1>1, <1>3
  <2>2. Locked' /\ Head(todo)' = Set(None)
    BY <2>1, Tuples DEF Four, Locked
  <2> QED
    BY <1>5, <2>1, <2>2 DEF FileIsWhole, Remains, Set
<1>4. CASE current_animation_path \notin {None, n}
  <2>1. CanOpen(current_animation_path)'
    BY <1>1, <1>2, <1>4 DEF WholeNow, CanOpen, FileInv, PlayerTypes, player
  <2>2. todo' = <<Receive(n), Update>>
    BY <1>1, <1>4
  <2> QED
    BY <1>1, <1>4, <1>5, <2>1, <2>2 DEF FileIsWhole, Remains, Receives, player
<1> QED
  BY <1>3, <1>4

\* A file that does not play is written or deleted.
LEMMA WriteFiles ==
  ASSUME FileInv, NEW n \in Names, ReceiveStep(n) \/ UnlinkStep(n)
  PROVE  FileIsWhole' /\ Remains'
<1>1. /\ Locked /\ UNCHANGED player
      /\ \E c \in Contents : content' = [content EXCEPT ![n] = c]
      /\ \/ Head(todo) = Receive(n) /\ todo' \in {Tail(todo), <<>>}
         \/ Head(todo) = Unlink(n) /\ todo' = Tail(todo)
  BY DEF ReceiveStep, UnlinkStep, Now, Receive, Unlink, Contents
<1>2. current_animation_path # n /\ todo' \in {<<>>, <<Update>>, <<Set(n), Update>>}
  BY <1>1, WhatFollows DEF FileInv, AfterReceive, AfterUnlink
<1>3. WholeNow
  BY <1>1, WholeUnless, Steps DEF FileInv, StepFacts
<1>4. FileIsWhole'
  BY <1>1, <1>2, <1>3 DEF WholeNow, FileIsWhole, CanOpen, FileInv, PlayerTypes, player
<1> QED
  BY <1>2, <1>4 DEF Remains

LEMMA FilesStep == FileInv /\ [Next]_vars => FileIsWhole' /\ Remains'
<1> SUFFICES ASSUME FileInv, [Next]_vars PROVE FileIsWhole' /\ Remains'
  OBVIOUS
<1>1. CASE UpdateStep
  <2>1. /\ Locked /\ Head(todo) = Update /\ todo' = Tail(todo)
        /\ UNCHANGED <<content, player>>
    BY <1>1 DEF UpdateStep, Now, Update, flash
  <2>2. FileIsWhole'
    BY <2>1, WholeUnless, WholeKept, Steps DEF FileInv, StepFacts
  <2> QED
    BY <2>1, <2>2, WhatFollows DEF FileInv, Remains
<1>2. CASE gui_gifplayer_render \/ FrameIsDue \/ UNCHANGED vars
  <2>1. UNCHANGED <<content, player, todo>>
    BY <1>2 DEF gui_gifplayer_render, FrameIsDue, vars, flash
  <2> QED
    BY <2>1 DEF FileInv, FileIsWhole, CanOpen, Locked, Remains, player
<1>3. CASE gifplayer_frame_played
  <2>1. UNCHANGED <<content, current_animation_path, animation_loaded, todo>>
    BY <1>3 DEF gifplayer_frame_played
  <2> QED
    BY <2>1 DEF FileInv, FileIsWhole, CanOpen, Locked, Remains
<1>4. CASE Reset
  BY <1>4 DEF Reset, FileIsWhole, Remains, gifplayer_init, Opened, CanOpen, flash
<1> QED
  BY <1>1, <1>2, <1>3, <1>4, BeginStep, SetFiles, OpenFiles, WriteFiles DEF Next, Step

\* The renderer never plays a file that has been deleted, or cut short, but for
\* the moment before an upload stops the playback.
THEOREM PlayedFileIsWhole == Spec => []FileIsWhole
<1>1. Init => FileInv
  BY InitTypes, InitFiles DEF FileInv
<1>2. FileInv /\ [Next]_vars => FileInv'
  BY TypesStep, FilesStep DEF FileInv
<1>3. FileInv => FileIsWhole
  BY DEF FileInv
<1> QED
  BY <1>1, <1>2, <1>3, PTL DEF Spec

-------------------------------------------------------------------------------
(* Functions that are defined by recursion, and induction over 0..N.        *)

LEMMA LeastNumber ==
  ASSUME NEW S, S \subseteq Nat, S # {} PROVE \E n \in S : \A m \in S : n <= m
<1> DEFINE R == OpToRel(<, Nat)
<1>1. IsWellFoundedOn(R, Nat)
  BY NatLessThanWellFounded
<1>2. \A m, n \in Nat : m < n => <<m, n>> \in R
  BY DEF OpToRel
<1> HIDE DEF R
<1>3. PICK n \in S : \A m \in S : ~ (<<m, n>> \in R)
  BY <1>1, WFMin
<1>4. \A m \in S : m \in Nat /\ n \in Nat /\ ~ (m < n)
  BY <1>2, <1>3
<1>5. \A m \in S : n <= m
  BY <1>4
<1> QED
  BY <1>5

LEMMA InductionUpTo ==
  ASSUME NEW N \in Nat, NEW S, 0 \in S, \A n \in 0..(N - 1) : n \in S => n + 1 \in S
  PROVE  0..N \subseteq S
<1> SUFFICES ASSUME (0..N) \ S # {} PROVE FALSE
  OBVIOUS
<1>1. PICK n \in (0..N) \ S : \A m \in (0..N) \ S : n <= m
  <2>1. (0..N) \ S \subseteq Nat
    OBVIOUS
  <2> QED
    BY <2>1, LeastNumber
<1>2. n # 0 /\ n - 1 \in 0..(N - 1)
  BY <1>1
<1>3. n - 1 \in S
  BY <1>1, <1>2
<1> QED
  BY <1>1, <1>2, <1>3

\* A function that is defined by recursion over 0..N: element k is made of the
\* one before by step[k].
Chained(f, N, base, step) ==
  f[0] = base /\ \A k \in 1..N : f[k] = step[k][f[k - 1]]

LEMMA ChainExists ==
  ASSUME NEW N \in Nat, NEW T, NEW base \in T, NEW step \in [1..N -> [T -> T]]
  PROVE  \E f \in [0..N -> T] : Chained(f, N, base, step)
<1> DEFINE S == {n \in 0..N : \E f \in [0..n -> T] : Chained(f, n, base, step)}
<1>1. 0 \in S
  <2>1. [k \in 0..0 |-> base] \in [0..0 -> T] /\ Chained([k \in 0..0 |-> base], 0, base, step)
    BY DEF Chained
  <2> QED
    BY <2>1
<1>2. ASSUME NEW n \in 0..(N - 1), n \in S PROVE n + 1 \in S
  <2>1. PICK f \in [0..n -> T] : Chained(f, n, base, step)
    BY <1>2
  <2> DEFINE last == step[n + 1][f[n]]
  <2>2. last \in T
    <3>1. n + 1 \in 1..N /\ n \in 0..n
      OBVIOUS
    <3>2. step[n + 1] \in [T -> T] /\ f[n] \in T
      BY <3>1
    <3> QED
      BY <3>2
  <2> HIDE DEF last
  <2> DEFINE g == [k \in 0..(n + 1) |-> IF k = n + 1 THEN last ELSE f[k]]
  <2>3. g \in [0..(n + 1) -> T]
    BY <2>2
  <2>4. g[n + 1] = last /\ \A k \in 0..n : g[k] = f[k]
    OBVIOUS
  <2> HIDE DEF g
  <2>5. g[0] = base
    BY <2>1, <2>4 DEF Chained
  <2>6. ASSUME NEW k \in 1..(n + 1) PROVE g[k] = step[k][g[k - 1]]
    <3>1. CASE k = n + 1
      BY <3>1, <2>4 DEF last
    <3>2. CASE k \in 1..n
      BY <3>2, <2>1, <2>4 DEF Chained
    <3> QED
      BY <3>1, <3>2
  <2>7. Chained(g, n + 1, base, step)
    BY <2>5, <2>6 DEF Chained
  <2> QED
    BY <2>3, <2>7
<1> HIDE DEF S
<1>3. 0..N \subseteq S
  BY <1>1, <1>2, InductionUpTo
<1>4. N \in S
  BY <1>3
<1> QED
  BY <1>4 DEF S

-------------------------------------------------------------------------------
(* The names without those that are lost.                                   *)

\* What Without has kept of the first names.
Kept(f, names, lost) ==
  /\ f[0] = <<>>
  /\ \A k \in 1..Len(names) :
       f[k] = IF names[k] \in lost THEN f[k - 1] ELSE Append(f[k - 1], names[k])

LEMMA KeptIsDefined ==
  ASSUME NEW T, NEW names \in Seq(T), NEW lost
  PROVE  \E f \in [0..Len(names) -> Seq(T)] :
           Kept(f, names, lost) /\ Without(names, lost) = f[Len(names)]
<1> DEFINE N == Len(names)
<1> DEFINE body(f) ==
      [k \in 0..N |-> IF k = 0 THEN <<>>
                      ELSE IF names[k] \in lost THEN f[k - 1] ELSE Append(f[k - 1], names[k])]
<1> DEFINE step == [k \in 1..N |->
             [s \in Seq(T) |-> IF names[k] \in lost THEN s ELSE Append(s, names[k])]]
<1>1. N \in Nat /\ \A k \in 1..N : names[k] \in T
  OBVIOUS
<1>2. step \in [1..N -> [Seq(T) -> Seq(T)]]
  <2>1. \A k \in 1..N, s \in Seq(T) : Append(s, names[k]) \in Seq(T)
    BY <1>1
  <2> HIDE DEF N
  <2> QED
    BY <2>1
<1>3. <<>> \in Seq(T)
  OBVIOUS
<1>4. \A k \in 1..N, s \in Seq(T) :
        step[k][s] = IF names[k] \in lost THEN s ELSE Append(s, names[k])
  OBVIOUS
<1> HIDE DEF step, N
<1>5. PICK f \in [0..N -> Seq(T)] : Chained(f, N, <<>>, step)
  BY <1>1, <1>2, <1>3, ChainExists
<1>6. \A k \in 1..N : f[k] = IF names[k] \in lost THEN f[k - 1] ELSE Append(f[k - 1], names[k])
  <2> TAKE k \in 1..N
  <2>1. k - 1 \in 0..N /\ f[k] = step[k][f[k - 1]]
    BY <1>1, <1>5 DEF Chained
  <2>2. f[k - 1] \in Seq(T)
    BY <2>1
  <2> QED
    BY <1>4, <2>1, <2>2
<1>7. f[0] = <<>>
  BY <1>5 DEF Chained
<1>8. f = body(f)
  <2>1. \A k \in 0..N :
          f[k] = IF k = 0 THEN <<>>
                 ELSE IF names[k] \in lost THEN f[k - 1] ELSE Append(f[k - 1], names[k])
    <3> TAKE k \in 0..N
    <3>1. CASE k = 0
      BY <3>1, <1>7
    <3>2. CASE k \in 1..N
      <4>1. k # 0
        BY <1>1, <3>2
      <4> QED
        BY <4>1, <3>2, <1>6, Zenon
    <3>3. k = 0 \/ k \in 1..N
      BY <1>1
    <3> QED
      BY <3>1, <3>2, <3>3, Zenon
  <2>2. f = [k \in 0..N |-> f[k]]
    OBVIOUS
  <2> QED
    BY <2>1, <2>2, Zenon
<1> DEFINE w == CHOOSE w : w = body(w)
<1>9. w = body(w)
  BY <1>8
<1>10. Without(names, lost) = w[N]
  BY DEF Without, N
<1> HIDE DEF w
<1> DEFINE S == {n \in 0..N : w[n] = f[n]}
<1>11. 0 \in S
  BY <1>1, <1>7, <1>9
<1>12. ASSUME NEW n \in 0..(N - 1), n \in S PROVE n + 1 \in S
  <2>1. n + 1 \in 1..N /\ (n + 1) - 1 = n /\ n + 1 \in 0..N /\ n + 1 # 0
    BY <1>1
  <2>2. w[n + 1] = IF names[n + 1] \in lost THEN w[n] ELSE Append(w[n], names[n + 1])
    BY <2>1, <1>9
  <2>3. f[n + 1] = IF names[n + 1] \in lost THEN f[n] ELSE Append(f[n], names[n + 1])
    BY <2>1, <1>6
  <2> QED
    BY <1>12, <2>1, <2>2, <2>3
<1> HIDE DEF S
<1>13. 0..N \subseteq S
  BY <1>1, <1>11, <1>12, InductionUpTo
<1>14. Without(names, lost) = f[N]
  BY <1>1, <1>10, <1>13 DEF S
<1> QED
  BY <1>5, <1>6, <1>7, <1>14 DEF Kept, N

LEMMA AppendFacts ==
  ASSUME NEW T, NEW s \in Seq(T), NEW e \in T
  PROVE  /\ Append(s, e) \in Seq(T) /\ Len(Append(s, e)) = Len(s) + 1
         /\ \A i \in 1..Len(s) : Append(s, e)[i] = s[i]
         /\ Append(s, e)[Len(s) + 1] = e
BY AppendProperties

\* t has the elements of s up to place k that are not lost, each once.
Sifted(t, s, k, lost) ==
  /\ \A i \in 1..Len(t) : \E j \in 1..k : t[i] = s[j] /\ s[j] \notin lost
  /\ \A j \in 1..k : s[j] \in lost \/ \E i \in 1..Len(t) : t[i] = s[j]
  /\ \A i, j \in 1..Len(t) : t[i] = t[j] => i = j

LEMMA WithoutIsSifted ==
  ASSUME NEW T, NEW s \in Seq(T), NEW lost, \A i, j \in 1..Len(s) : s[i] = s[j] => i = j
  PROVE  Without(s, lost) \in Seq(T) /\ Sifted(Without(s, lost), s, Len(s), lost)
<1> DEFINE N == Len(s)
<1>1. N \in Nat /\ \A k \in 1..N : s[k] \in T
  OBVIOUS
<1>2. PICK f \in [0..N -> Seq(T)] : Kept(f, s, lost) /\ Without(s, lost) = f[N]
  BY KeptIsDefined
<1> DEFINE S == {n \in 0..N : Sifted(f[n], s, n, lost)}
<1>3. 0 \in S
  <2>1. f[0] = <<>>
    BY <1>2 DEF Kept
  <2> QED
    BY <1>1, <2>1 DEF Sifted
<1>4. ASSUME NEW n \in 0..(N - 1), n \in S PROVE n + 1 \in S
  <2>1. n \in 0..N /\ n + 1 \in 1..N /\ f[n] \in Seq(T) /\ s[n + 1] \in T
    BY <1>1, <1>2
  <2>2. f[n + 1] = IF s[n + 1] \in lost THEN f[n] ELSE Append(f[n], s[n + 1])
    BY <2>1, <1>2 DEF Kept
  <2>3. Sifted(f[n], s, n, lost)
    BY <1>4
  <2>4. \A j \in 1..(n + 1) : j \in 1..n \/ j = n + 1
    BY <2>1
  <2>5. 1..n \subseteq 1..(n + 1) /\ n + 1 \in 1..(n + 1)
    BY <2>1
  <2>6. CASE s[n + 1] \in lost
    <3>1. f[n + 1] = f[n]
      BY <2>2, <2>6
    <3>2. Sifted(f[n + 1], s, n + 1, lost)
      BY <2>3, <2>4, <2>5, <2>6, <3>1, Zenon DEF Sifted
    <3> QED
      BY <2>1, <3>2
  <2>7. CASE s[n + 1] \notin lost
    <3> DEFINE t == f[n]
    <3> DEFINE u == Append(t, s[n + 1])
    <3>1. /\ f[n + 1] = u /\ t \in Seq(T) /\ Len(t) \in Nat /\ Len(u) = Len(t) + 1
          /\ \A i \in 1..Len(t) : u[i] = t[i]
          /\ u[Len(t) + 1] = s[n + 1]
      BY <2>1, <2>2, <2>7, AppendFacts
    <3>2. Sifted(t, s, n, lost)
      BY <2>3
    <3> HIDE DEF t, u
    <3>3. \A i \in 1..Len(u) : i \in 1..Len(t) \/ i = Len(t) + 1
      BY <3>1
    <3>4. 1..Len(t) \subseteq 1..Len(u) /\ Len(t) + 1 \in 1..Len(u)
      BY <3>1
    <3>5. ASSUME NEW i \in 1..Len(u)
          PROVE  \E j \in 1..(n + 1) : u[i] = s[j] /\ s[j] \notin lost
      <4>1. CASE i = Len(t) + 1
        BY <2>5, <2>7, <3>1, <4>1
      <4>2. CASE i \in 1..Len(t)
        <5>1. PICK j \in 1..n : t[i] = s[j] /\ s[j] \notin lost
          BY <3>2, <4>2 DEF Sifted
        <5> QED
          BY <2>5, <3>1, <4>2, <5>1
      <4> QED
        BY <3>3, <4>1, <4>2
    <3>6. ASSUME NEW j \in 1..(n + 1)
          PROVE  s[j] \in lost \/ \E i \in 1..Len(u) : u[i] = s[j]
      BY <2>4, <3>1, <3>2, <3>4 DEF Sifted
    <3>7. ASSUME NEW i \in 1..Len(t) PROVE u[i] # s[n + 1]
      <4>1. PICK j \in 1..n : t[i] = s[j]
        BY <3>2 DEF Sifted
      <4>2. j \in 1..N /\ j # n + 1
        BY <1>1, <2>1
      <4> QED
        BY <2>1, <3>1, <4>1, <4>2
    <3>8. ASSUME NEW i \in 1..Len(u), NEW j \in 1..Len(u), u[i] = u[j] PROVE i = j
      <4>1. CASE i \in 1..Len(t) /\ j \in 1..Len(t)
        BY <3>1, <3>2, <3>8, <4>1 DEF Sifted
      <4>2. CASE i = Len(t) + 1 /\ j = Len(t) + 1
        BY <4>2
      <4> QED
        BY <3>1, <3>3, <3>7, <3>8, <4>1, <4>2
    <3>9. Sifted(u, s, n + 1, lost)
      BY <3>5, <3>6, <3>8, Zenon DEF Sifted
    <3> QED
      BY <2>1, <3>1, <3>9
  <2> QED
    BY <2>6, <2>7
<1> HIDE DEF S
<1>5. 0..N \subseteq S
  BY <1>1, <1>3, <1>4, InductionUpTo
<1>6. N \in S /\ N \in 0..N
  BY <1>1, <1>5
<1> QED
  BY <1>2, <1>6 DEF S, N

LEMMA WithoutNothing ==
  ASSUME NEW T, NEW s \in Seq(T)
  PROVE  Without(s, {}) = s
<1> DEFINE N == Len(s)
<1>1. N \in Nat /\ \A k \in 1..N : s[k] \in T
  OBVIOUS
<1>2. PICK f \in [0..N -> Seq(T)] : Kept(f, s, {}) /\ Without(s, {}) = f[N]
  BY KeptIsDefined
<1> DEFINE S == {n \in 0..N : Len(f[n]) = n /\ \A i \in 1..n : f[n][i] = s[i]}
<1>3. 0 \in S
  BY <1>1, <1>2 DEF Kept
<1>4. ASSUME NEW n \in 0..(N - 1), n \in S PROVE n + 1 \in S
  <2>1. n \in 0..N /\ n + 1 \in 1..N /\ f[n] \in Seq(T) /\ s[n + 1] \in T /\ Len(f[n]) = n
    BY <1>1, <1>2, <1>4
  <2>2. f[n + 1] = Append(f[n], s[n + 1])
    BY <2>1, <1>2 DEF Kept
  <2>3. /\ Len(f[n + 1]) = n + 1 /\ f[n + 1][n + 1] = s[n + 1]
        /\ \A i \in 1..n : f[n + 1][i] = f[n][i]
    BY <2>1, <2>2, AppendFacts
  <2>4. \A i \in 1..(n + 1) : i \in 1..n \/ i = n + 1
    BY <2>1
  <2> QED
    BY <1>4, <2>1, <2>3, <2>4
<1> HIDE DEF S
<1>5. 0..N \subseteq S
  BY <1>1, <1>3, <1>4, InductionUpTo
<1>6. N \in S /\ N \in 0..N
  BY <1>1, <1>5
<1>7. f[N] \in Seq(T) /\ Len(f[N]) = Len(s) /\ \A i \in 1..Len(s) : f[N][i] = s[i]
  BY <1>2, <1>6 DEF S, N
<1>8. f[N] = s
  <2> DEFINE t == f[N]
  <2>1. t \in Seq(T) /\ Len(t) = Len(s) /\ \A i \in 1..Len(s) : t[i] = s[i]
    BY <1>7
  <2> HIDE DEF t
  <2>2. t = s
    BY <2>1
  <2> QED
    BY <2>2 DEF t
<1> QED
  BY <1>2, <1>8

\* t is s with e at place k.
Put(t, s, k, e) ==
  /\ Len(t) = Len(s) + 1 /\ t[k] = e
  /\ \A i \in 1..(k - 1) : t[i] = s[i]
  /\ \A i \in k..Len(s) : t[i + 1] = s[i]

LEMMA InsertAtPuts ==
  ASSUME NEW T, NEW s \in Seq(T), NEW k \in 1..Len(s) + 1, NEW e \in T
  PROVE  InsertAt(s, k, e) \in Seq(T) /\ Put(InsertAt(s, k, e), s, k, e)
<1> DEFINE a == SubSeq(s, 1, k - 1)
<1> DEFINE m == <<e>>
<1> DEFINE b == SubSeq(s, k, Len(s))
<1>1. /\ a \in Seq(T) /\ Len(a) = k - 1 /\ \A i \in 1..(k - 1) : a[i] = s[i]
  BY SubSeqProperties
<1>2. b \in Seq(T) /\ Len(b) = Len(s) - k + 1 /\ \A i \in 1..(Len(s) - k + 1) : b[i] = s[k + i - 1]
  BY SubSeqProperties
<1>3. m \in Seq(T) /\ Len(m) = 1 /\ m[1] = e
  OBVIOUS
<1>4. InsertAt(s, k, e) = (a \o m) \o b
  BY DEF InsertAt
<1> DEFINE am == a \o m
<1>5. Len(s) \in Nat /\ k \in Nat /\ k >= 1 /\ k <= Len(s) + 1
  OBVIOUS
<1> HIDE DEF a, m, b
<1>6. /\ am \in Seq(T) /\ Len(am) = k /\ am[k] = e
      /\ \A i \in 1..(k - 1) : am[i] = s[i]
  <2>1. am \in Seq(T) /\ Len(am) = Len(a) + Len(m)
    BY <1>1, <1>3, ConcatProperties
  <2>2. \A i \in 1..Len(a) + Len(m) : am[i] = IF i <= Len(a) THEN a[i] ELSE m[i - Len(a)]
    BY <1>1, <1>3, ConcatProperties
  <2> QED
    BY <1>1, <1>3, <1>5, <2>1, <2>2
<1> HIDE DEF am
<1> DEFINE t == am \o b
<1>7. t \in Seq(T) /\ Len(t) = Len(am) + Len(b)
  BY <1>2, <1>6, ConcatProperties
<1>8. \A i \in 1..Len(am) + Len(b) : t[i] = IF i <= Len(am) THEN am[i] ELSE b[i - Len(am)]
  BY <1>2, <1>6, ConcatProperties
<1> HIDE DEF t
<1>9. Len(t) = Len(s) + 1 /\ t[k] = e /\ \A i \in 1..(k - 1) : t[i] = s[i]
  BY <1>2, <1>5, <1>6, <1>7, <1>8
<1>10. ASSUME NEW i \in k..Len(s) PROVE t[i + 1] = s[i]
  <2>1. t[i + 1] = b[i + 1 - k]
    <3>1. i + 1 \in 1..Len(am) + Len(b) /\ ~ (i + 1 <= Len(am)) /\ Len(am) = k
      BY <1>2, <1>5, <1>6
    <3> QED
      BY <1>8, <3>1
  <2>2. i + 1 - k \in 1..(Len(s) - k + 1) /\ k + (i + 1 - k) - 1 = i
    BY <1>5
  <2> QED
    BY <1>2, <2>1, <2>2
<1>11. InsertAt(s, k, e) = t
  BY <1>4 DEF am, t
<1> QED
  BY <1>7, <1>9, <1>10, <1>11 DEF Put

LEMMA WithoutInserted ==
  ASSUME NEW T, NEW s \in Seq(T), NEW k \in 1..Len(s) + 1, NEW e \in T, NEW lost,
         \A i \in 1..Len(s) : s[i] # e
  PROVE  Without(InsertAt(s, k, e), lost \cup {e}) = Without(s, lost)
<1> DEFINE N == Len(s)
<1> DEFINE t == InsertAt(s, k, e)
<1>1. t \in Seq(T) /\ Put(t, s, k, e)
  BY InsertAtPuts
<1> HIDE DEF t
<1>2. N \in Nat /\ k \in Nat /\ k >= 1 /\ k <= N + 1 /\ Len(t) = N + 1
  BY <1>1 DEF Put
<1>3. PICK f \in [0..N -> Seq(T)] : Kept(f, s, lost) /\ Without(s, lost) = f[N]
  BY KeptIsDefined
<1>4. PICK g \in [0..(N + 1) -> Seq(T)] :
        Kept(g, t, lost \cup {e}) /\ Without(t, lost \cup {e}) = g[N + 1]
  <2>1. \E g \in [0..Len(t) -> Seq(T)] :
          Kept(g, t, lost \cup {e}) /\ Without(t, lost \cup {e}) = g[Len(t)]
    BY <1>1, KeptIsDefined
  <2>2. Len(t) = N + 1
    BY <1>2
  <2> QED
    BY <2>1, <2>2, Zenon
<1>5. \A i \in 1..N : f[i] = IF s[i] \in lost THEN f[i - 1] ELSE Append(f[i - 1], s[i])
  BY <1>3 DEF Kept
<1>6. \A i \in 1..N + 1 : g[i] = IF t[i] \in lost \cup {e} THEN g[i - 1] ELSE Append(g[i - 1], t[i])
  BY <1>2, <1>4 DEF Kept
<1>7. \A i \in 1..N : s[i] \in lost \cup {e} <=> s[i] \in lost
  OBVIOUS
<1> DEFINE S == {n \in 0..(k - 1) : g[n] = f[n]}
<1>8. 0 \in S
  BY <1>2, <1>3, <1>4 DEF Kept
<1>9. ASSUME NEW n \in 0..(k - 1 - 1), n \in S PROVE n + 1 \in S
  <2>1. /\ n + 1 \in 1..N /\ n + 1 \in 1..N + 1 /\ n + 1 \in 1..(k - 1)
        /\ (n + 1) - 1 = n /\ n + 1 \in 0..(k - 1)
    BY <1>2
  <2>2. t[n + 1] = s[n + 1] /\ g[n] = f[n]
    BY <1>1, <1>9, <2>1 DEF Put
  <2>3. f[n + 1] = IF s[n + 1] \in lost THEN f[n] ELSE Append(f[n], s[n + 1])
    BY <1>5, <2>1
  <2>4. g[n + 1] = IF t[n + 1] \in lost \cup {e} THEN g[n] ELSE Append(g[n], t[n + 1])
    BY <1>6, <2>1
  <2>5. g[n + 1] = f[n + 1]
    BY <1>7, <2>1, <2>2, <2>3, <2>4, Zenon
  <2> QED
    BY <2>1, <2>5
<1>10. g[k - 1] = f[k - 1]
  <2> HIDE DEF S
  <2>1. k - 1 \in Nat
    BY <1>2
  <2>2. 0..(k - 1) \subseteq S
    BY <1>8, <1>9, <2>1, InductionUpTo
  <2>3. k - 1 \in S
    BY <2>1, <2>2
  <2> QED
    BY <2>3 DEF S
<1>11. g[k] = g[k - 1]
  <2>1. t[k] = e /\ k \in 1..N + 1
    BY <1>1, <1>2 DEF Put
  <2> QED
    BY <1>6, <2>1
<1> DEFINE R == {n \in 0..(N + 1 - k) : g[k + n] = f[k - 1 + n]}
<1>12. 0 \in R
  BY <1>2, <1>10, <1>11
<1>13. ASSUME NEW n \in 0..((N + 1 - k) - 1), n \in R PROVE n + 1 \in R
  <2> DEFINE i == k + n
  <2>1. /\ i \in k..N /\ i \in 1..N /\ i + 1 \in 1..N + 1
        /\ (i + 1) - 1 = i /\ n + 1 \in 0..(N + 1 - k)
        /\ k - 1 + n = i - 1 /\ k + (n + 1) = i + 1 /\ k - 1 + (n + 1) = i
    BY <1>2
  <2>2. g[i] = f[i - 1]
    BY <1>13, <2>1
  <2> HIDE DEF i
  <2>3. t[i + 1] = s[i]
    BY <1>1, <2>1 DEF Put
  <2>4. f[i] = IF s[i] \in lost THEN f[i - 1] ELSE Append(f[i - 1], s[i])
    BY <1>5, <2>1
  <2>5. g[i + 1] = IF t[i + 1] \in lost \cup {e} THEN g[i] ELSE Append(g[i], t[i + 1])
    BY <1>6, <2>1
  <2>6. g[i + 1] = f[i]
    BY <1>7, <2>1, <2>2, <2>3, <2>4, <2>5, Zenon
  <2>7. g[k + (n + 1)] = f[k - 1 + (n + 1)]
    BY <2>1, <2>6
  <2> QED
    BY <2>1, <2>7
<1>14. g[N + 1] = f[N]
  <2> HIDE DEF R
  <2>1. N + 1 - k \in Nat
    BY <1>2
  <2>2. 0..(N + 1 - k) \subseteq R
    BY <1>12, <1>13, <2>1, InductionUpTo
  <2>3. N + 1 - k \in R
    BY <2>1, <2>2
  <2>4. g[k + (N + 1 - k)] = f[k - 1 + (N + 1 - k)]
    BY <2>3 DEF R
  <2>5. k + (N + 1 - k) = N + 1 /\ k - 1 + (N + 1 - k) = N
    BY <1>2
  <2> QED
    BY <2>4, <2>5
<1> QED
  BY <1>3, <1>4, <1>14 DEF t

-------------------------------------------------------------------------------
(* The list is that of the directory.                                       *)

\* The directory has each name once, and the names of the files there are.
DirectoryTypes ==
  /\ directory \in Seq(Names)
  /\ \A i, j \in 1..Len(directory) : directory[i] = directory[j] => i = j
  /\ \A n \in Names : content[n] = "absent" <=> \A i \in 1..Len(directory) : directory[i] # n

\* What an operation makes of the directory, it writes to the list at its end.
ListOrUpdate == cache = iterate_dir(Listed) \/ todo = <<Update>>
ListInv == DirectoryTypes /\ ListOrUpdate

LEMMA InitDirectory == Init => DirectoryTypes
<1> SUFFICES ASSUME Init PROVE DirectoryTypes
  OBVIOUS
<1>1. /\ directory \in BoundedSeq(Names, MaxFiles) /\ IsInjective(directory)
      /\ \A n \in Names : content[n] = "absent" <=> n \notin ToSet(directory)
  BY DEF Init
<1>2. PICK N \in 0..MaxFiles : directory \in [1..N -> Names]
  BY <1>1 DEF BoundedSeq, SeqOf
<1>3. directory \in Seq(Names) /\ Len(directory) = N /\ DOMAIN directory = 1..Len(directory)
  <2>1. N \in Nat
    BY GifPlayerAssumption
  <2> QED
    BY <1>2, <2>1
<1>4. \A i, j \in 1..Len(directory) : directory[i] = directory[j] => i = j
  BY <1>1, <1>3 DEF IsInjective
<1>5. \A n \in Names : n \notin ToSet(directory) <=> \A i \in 1..Len(directory) : directory[i] # n
  BY <1>3 DEF ToSet
<1> QED
  BY <1>1, <1>3, <1>4, <1>5 DEF DirectoryTypes

LEMMA InitList == Init => ListOrUpdate
<1> SUFFICES ASSUME Init PROVE ListOrUpdate
  OBVIOUS
<1>1. unlisted = {} /\ cache = iterate_dir(directory) /\ directory \in Seq(Names)
  BY InitDirectory DEF Init, DirectoryTypes
<1> QED
  BY <1>1, WithoutNothing DEF ListOrUpdate, Listed

\* Nothing that the list is about changes.
ListKept == UNCHANGED <<directory, content, unlisted, cache>>

LEMMA KeptList ==
  ASSUME DirectoryTypes, ListKept
  PROVE  DirectoryTypes' /\ (cache = iterate_dir(Listed) => (cache = iterate_dir(Listed))')
BY DEF DirectoryTypes, ListKept, Listed

\* The file that is opened is new and is not in the list yet, or was there.
LEMMA OpenedDirectory ==
  ASSUME ListInv, PlayerTypes, NEW n \in Names, OpenStep(n)
  PROVE  DirectoryTypes' /\ Listed' = Listed
<1>1. /\ directory \in Seq(Names) /\ Len(directory) \in Nat
      /\ \A i, j \in 1..Len(directory) : directory[i] = directory[j] => i = j
      /\ \A m \in Names : content[m] = "absent" <=> \A i \in 1..Len(directory) : directory[i] # m
  BY DEF ListInv, DirectoryTypes
<1>2. \A m \in Names : content'[m] = IF m = n THEN "broken" ELSE content[m]
  BY DEF OpenStep, PlayerTypes
<1>3. CASE content[n] = "absent"
  <2>1. PICK k \in 1..Len(directory) + 1 : directory' = InsertAt(directory, k, n)
    BY <1>3 DEF OpenStep
  <2>2. unlisted' = unlisted \cup {n} /\ \A i \in 1..Len(directory) : directory[i] # n
    BY <1>1, <1>3 DEF OpenStep
  <2>3. directory' \in Seq(Names) /\ Put(directory', directory, k, n)
    BY <1>1, <2>1, InsertAtPuts
  <2>4. k \in Nat /\ k >= 1 /\ k <= Len(directory) + 1 /\ Len(directory') = Len(directory) + 1
    BY <1>1, <2>3 DEF Put
  <2>5. \A i \in 1..Len(directory') : i \in 1..(k - 1) \/ i = k \/ i - 1 \in k..Len(directory)
    BY <1>1, <2>4
  <2>6. /\ directory'[k] = n
        /\ \A i \in 1..(k - 1) : directory'[i] = directory[i] /\ i \in 1..Len(directory)
        /\ \A i \in 1..Len(directory') :
             i - 1 \in k..Len(directory) =>
               directory'[i] = directory[i - 1] /\ i - 1 \in 1..Len(directory)
    <3>1. \A i \in 1..(k - 1) : i \in 1..Len(directory)
      BY <1>1, <2>4
    <3>2. ASSUME NEW i \in 1..Len(directory'), i - 1 \in k..Len(directory)
          PROVE  directory'[i] = directory[i - 1] /\ i - 1 \in 1..Len(directory)
      <4>1. (i - 1) + 1 = i /\ i - 1 \in 1..Len(directory)
        BY <1>1, <2>4, <3>2
      <4> QED
        BY <2>3, <3>2, <4>1 DEF Put
    <3> QED
      BY <2>3, <3>1, <3>2 DEF Put
  <2>7. ASSUME NEW i \in 1..Len(directory'), NEW j \in 1..Len(directory'),
               directory'[i] = directory'[j]
        PROVE  i = j
    <3> DEFINE Old(x) == IF x \in 1..(k - 1) THEN x ELSE x - 1
    <3>1. \A x \in 1..Len(directory') :
            x # k => directory'[x] = directory[Old(x)] /\ Old(x) \in 1..Len(directory)
      BY <2>5, <2>6
    <3>2. directory'[k] = n
      BY <2>6
    <3>3. CASE i = k \/ j = k
      BY <2>2, <2>7, <3>1, <3>2, <3>3
    <3>4. CASE i # k /\ j # k
      <4>1. Old(i) = Old(j)
        <5> HIDE DEF Old
        <5> QED
          BY <1>1, <2>7, <3>1, <3>4
      <4> QED
        BY <1>1, <2>4, <3>4, <4>1
    <3> QED
      BY <3>3, <3>4
  <2>8. ASSUME NEW m \in Names
        PROVE  content'[m] = "absent" <=> \A i \in 1..Len(directory') : directory'[i] # m
    <3>1. CASE m = n
      <4>1. k \in 1..Len(directory') /\ directory'[k] = n
        BY <1>1, <2>4, <2>6
      <4> QED
        BY <1>2, <3>1, <4>1
    <3>2. CASE m # n
      <4>1. content'[m] = content[m]
        BY <1>2, <3>2
      <4>2. ASSUME NEW i \in 1..Len(directory), directory[i] = m
            PROVE  \E j \in 1..Len(directory') : directory'[j] = m
        <5>1. CASE i \in 1..(k - 1)
          <6>1. i \in 1..Len(directory') /\ directory'[i] = directory[i]
            BY <1>1, <2>4, <2>6, <5>1
          <6> QED
            BY <4>2, <6>1
        <5>2. CASE i \in k..Len(directory)
          <6>1. i + 1 \in 1..Len(directory') /\ directory'[i + 1] = directory[i]
            BY <1>1, <2>3, <2>4, <5>2 DEF Put
          <6> QED
            BY <4>2, <6>1
        <5> QED
          BY <1>1, <2>4, <5>1, <5>2
      <4>3. ASSUME NEW j \in 1..Len(directory'), directory'[j] = m
            PROVE  \E i \in 1..Len(directory) : directory[i] = m
        BY <2>5, <2>6, <3>2, <4>3
      <4> QED
        BY <1>1, <4>1, <4>2, <4>3
    <3> QED
      BY <3>1, <3>2
  <2>9. DirectoryTypes'
    BY <2>3, <2>7, <2>8 DEF DirectoryTypes
  <2>10. Without(directory', unlisted') = Without(directory, unlisted)
    BY <1>1, <2>1, <2>2, WithoutInserted
  <2> QED
    BY <2>9, <2>10 DEF Listed
<1>4. CASE content[n] # "absent"
  <2>1. UNCHANGED <<directory, unlisted>>
    BY <1>4 DEF OpenStep
  <2>2. \A m \in Names : content'[m] = "absent" <=> content[m] = "absent"
    BY <1>2, <1>4
  <2> QED
    BY <1>1, <2>1, <2>2 DEF DirectoryTypes, Listed
<1> QED
  BY <1>3, <1>4

LEMMA ReceivedDirectory ==
  ASSUME DirectoryTypes, PlayerTypes, NEW n \in Names, ReceiveStep(n), content[n] # "absent"
  PROVE  DirectoryTypes'
<1>1. UNCHANGED directory /\ \A m \in Names : content'[m] = "absent" <=> content[m] = "absent"
  BY DEF ReceiveStep, PlayerTypes
<1> QED
  BY <1>1 DEF DirectoryTypes

LEMMA UnlinkedDirectory ==
  ASSUME DirectoryTypes, PlayerTypes, NEW n \in Names, UnlinkStep(n)
  PROVE  DirectoryTypes'
<1>1. /\ directory \in Seq(Names) /\ Len(directory) \in Nat
      /\ \A i, j \in 1..Len(directory) : directory[i] = directory[j] => i = j
      /\ \A m \in Names : content[m] = "absent" <=> \A i \in 1..Len(directory) : directory[i] # m
  BY DEF DirectoryTypes
<1>2. \A m \in Names : content'[m] = IF m = n THEN "absent" ELSE content[m]
  BY DEF UnlinkStep, PlayerTypes
<1>3. directory' \in Seq(Names) /\ Sifted(directory', directory, Len(directory), {n})
  BY <1>1, WithoutIsSifted DEF UnlinkStep
<1>4. ASSUME NEW m \in Names
      PROVE  content'[m] = "absent" <=> \A i \in 1..Len(directory') : directory'[i] # m
  <2>1. CASE m = n
    BY <1>2, <1>3, <2>1 DEF Sifted
  <2>2. CASE m # n
    <3>1. content'[m] = "absent" <=> \A i \in 1..Len(directory) : directory[i] # m
      BY <1>1, <1>2, <2>2
    <3>2. (\E i \in 1..Len(directory) : directory[i] = m)
            <=> \E i \in 1..Len(directory') : directory'[i] = m
      <4>1. ASSUME NEW i \in 1..Len(directory), directory[i] = m
            PROVE  \E j \in 1..Len(directory') : directory'[j] = m
        BY <1>3, <2>2, <4>1 DEF Sifted
      <4>2. ASSUME NEW j \in 1..Len(directory'), directory'[j] = m
            PROVE  \E i \in 1..Len(directory) : directory[i] = m
        BY <1>3, <4>2 DEF Sifted
      <4> QED
        BY <4>1, <4>2
    <3> QED
      BY <3>1, <3>2
  <2> QED
    BY <2>1, <2>2
<1> QED
  BY <1>3, <1>4 DEF DirectoryTypes, Sifted

LEMMA ListStep ==
  ASSUME FileInv, ListInv, [Next]_vars PROVE ListInv'
<1>1. DirectoryTypes /\ PlayerTypes
  BY DEF ListInv, FileInv
<1>2. ASSUME ListKept, UNCHANGED todo PROVE ListInv'
  BY <1>1, <1>2, KeptList DEF ListInv, ListOrUpdate
<1>3. CASE Operation
  <2>1. \E steps : Perform(steps)
    BY <1>3 DEF Operation, gifplayer_play_next_animation, gifplayer_play_prev_animation,
                http_get_set_animation, http_post_upload_animation, http_get_delete_animation
  <2>2. ListKept /\ todo = <<>>
    BY <2>1 DEF Perform, ListKept, flash, Locked
  <2>3. cache = iterate_dir(Listed)
    BY <2>2 DEF ListInv, ListOrUpdate
  <2> QED
    BY <1>1, <2>2, <2>3, KeptList DEF ListInv, ListOrUpdate
<1>4. ASSUME NEW n, SetStep(n) PROVE ListInv'
  <2>1. ListKept /\ todo # <<Update>>
    <3>1. Head(todo) = Set(n)
      BY <1>4 DEF SetStep, Now, Set
    <3>2. todo # <<Update>>
      BY <3>1, Tuples, Steps DEF One, StepFacts
    <3> QED
      BY <1>4, <3>2 DEF SetStep, ListKept, flash
  <2>2. cache = iterate_dir(Listed)
    BY <2>1 DEF ListInv, ListOrUpdate
  <2> QED
    BY <1>1, <2>1, <2>2, KeptList DEF ListInv, ListOrUpdate
<1>5. ASSUME NEW n \in Names, OpenStep(n) PROVE ListInv'
  <2>1. cache' = cache /\ todo # <<Update>>
    <3>1. Head(todo) = Open(n)
      BY <1>5 DEF OpenStep, Now, Open
    <3>2. todo # <<Update>>
      BY <3>1, Tuples, Steps DEF One, StepFacts
    <3> QED
      BY <1>5, <3>2 DEF OpenStep
  <2>2. DirectoryTypes' /\ Listed' = Listed
    BY <1>1, <1>5, OpenedDirectory
  <2> QED
    BY <2>1, <2>2 DEF ListInv, ListOrUpdate
<1>6. ASSUME NEW n \in Names, ReceiveStep(n) PROVE ListInv'
  <2>1. Locked /\ Head(todo) = Receive(n) /\ UNCHANGED <<directory, unlisted, cache>>
    BY <1>6 DEF ReceiveStep, Now, Receive
  <2>2. content[n] # "absent" /\ todo # <<Update>>
    <3>1. content[n] # "absent"
      BY <2>1, WhatFollows DEF FileInv, AfterReceive
    <3>2. todo # <<Update>>
      BY <2>1, Tuples, Steps DEF One, StepFacts
    <3> QED
      BY <3>1, <3>2
  <2>3. DirectoryTypes'
    BY <1>1, <1>6, <2>2, ReceivedDirectory
  <2> QED
    BY <2>1, <2>2, <2>3 DEF ListInv, ListOrUpdate, Listed
<1>7. ASSUME NEW n \in Names, UnlinkStep(n) PROVE ListInv'
  <2>1. Locked /\ Head(todo) = Unlink(n) /\ todo' = Tail(todo)
    BY <1>7 DEF UnlinkStep, Now, Unlink
  <2>2. todo' = <<Update>>
    BY <2>1, WhatFollows DEF FileInv, AfterUnlink
  <2> QED
    BY <1>1, <1>7, <2>2, UnlinkedDirectory DEF ListInv, ListOrUpdate
<1>8. CASE UpdateStep
  <2>1. cache' = iterate_dir(directory) /\ unlisted' = {} /\ UNCHANGED <<directory, content>>
    BY <1>8 DEF UpdateStep, flash
  <2>2. DirectoryTypes' /\ Without(directory, {}) = directory
    BY <1>1, <2>1, WithoutNothing DEF DirectoryTypes
  <2> QED
    BY <2>1, <2>2 DEF ListInv, ListOrUpdate, Listed
<1>9. CASE Reset
  <2>1. cache' = iterate_dir(directory) /\ unlisted' = {} /\ UNCHANGED <<directory, content>>
    BY <1>9 DEF Reset, flash
  <2>2. DirectoryTypes' /\ Without(directory, {}) = directory
    BY <1>1, <2>1, WithoutNothing DEF DirectoryTypes
  <2> QED
    BY <2>1, <2>2 DEF ListInv, ListOrUpdate, Listed
<1>10. CASE gui_gifplayer_render \/ gifplayer_frame_played \/ FrameIsDue \/ UNCHANGED vars
  BY <1>2, <1>10 DEF gui_gifplayer_render, gifplayer_frame_played, FrameIsDue, vars, flash,
                     ListKept
<1> QED
  BY <1>3, <1>4, <1>5, <1>6, <1>7, <1>8, <1>9, <1>10 DEF Next, Step

LEMMA FileInvInit == Init => FileInv
BY InitTypes, InitFiles DEF FileInv
LEMMA FileInvStep == FileInv /\ [Next]_vars => FileInv'
BY TypesStep, FilesStep DEF FileInv
LEMMA ListInvInit == Init => ListInv
BY InitDirectory, InitList DEF ListInv

LEMMA CurrentList == ListInv => ListIsCurrent
<1> SUFFICES ASSUME ListInv, ~Locked PROVE cache = iterate_dir(Listed)
  BY DEF ListIsCurrent
<1> QED
  BY Tuples DEF ListInv, ListOrUpdate, Locked, One

THEOREM ListShowsDirectory == Spec => []ListIsCurrent
<1>1. FileInv /\ ListInv /\ [Next]_vars => FileInv' /\ ListInv'
  BY FileInvStep, ListStep
<1> QED
  BY <1>1, FileInvInit, ListInvInit, CurrentList, PTL DEF Spec

-------------------------------------------------------------------------------
(* What iterate_dir writes: the names one after the other.                  *)

\* What iterate_dir has written after each name.
Written(f, names) ==
  f[0] = <<>> /\ \A k \in 1..Len(names) : f[k] = f[k - 1] \o Append(names[k], NUL)

LEMMA Writing ==
  ASSUME NEW names \in Seq(Seq(Nat))
  PROVE  \E f \in [0..Len(names) -> Seq(Nat)] : Written(f, names)
<1> DEFINE N == Len(names)
<1> DEFINE step == [k \in 1..N |-> [s \in Seq(Nat) |-> s \o Append(names[k], NUL)]]
<1>1. N \in Nat /\ \A k \in 1..N : names[k] \in Seq(Nat)
  OBVIOUS
<1>2. \A k \in 1..N, s \in Seq(Nat) : s \o Append(names[k], NUL) \in Seq(Nat)
  <2> TAKE k \in 1..N, s \in Seq(Nat)
  <2>1. Append(names[k], NUL) \in Seq(Nat)
    BY <1>1, AppendFacts DEF NUL
  <2> QED
    BY <2>1, ConcatProperties
<1> HIDE DEF N
<1>3. step \in [1..N -> [Seq(Nat) -> Seq(Nat)]]
  BY <1>2
<1>4. \A k \in 1..N, s \in Seq(Nat) : step[k][s] = s \o Append(names[k], NUL)
  OBVIOUS
<1>5. <<>> \in Seq(Nat)
  OBVIOUS
<1> HIDE DEF step
<1>6. PICK f \in [0..N -> Seq(Nat)] : Chained(f, N, <<>>, step)
  BY <1>1, <1>3, <1>5, ChainExists
<1>7. ASSUME NEW k \in 1..N PROVE f[k] = f[k - 1] \o Append(names[k], NUL)
  <2>1. k - 1 \in 0..N /\ f[k] = step[k][f[k - 1]]
    BY <1>1, <1>6, <1>7 DEF Chained
  <2> QED
    BY <1>4, <2>1
<1> QED
  BY <1>6, <1>7 DEF Chained, Written, N

\* The recursion of FlattenSeq over two or more sequences.
Flattened(g, seqs) ==
  g = [i \in 1..Len(seqs) |-> IF i = 1 THEN seqs[i] ELSE g[i - 1] \o seqs[i]]

LEMMA WrittenIsDir ==
  ASSUME NEW names \in Seq(Seq(Nat)), NEW f \in [0..Len(names) -> Seq(Nat)], Written(f, names)
  PROVE  iterate_dir(names) = f[Len(names)]
<1> DEFINE N == Len(names)
<1> DEFINE seqs == [k \in 1..N |-> Append(names[k], NUL)]
<1>1. N \in Nat /\ \A k \in 1..N : names[k] \in Seq(Nat)
  OBVIOUS
<1>2. \A k \in 1..N : seqs[k] = Append(names[k], NUL) /\ seqs[k] \in Seq(Nat)
  <2> TAKE k \in 1..N
  <2>1. Append(names[k], NUL) \in Seq(Nat)
    BY <1>1, AppendFacts DEF NUL
  <2> QED
    BY <2>1
<1>3. Len(seqs) = N
  BY <1>1
<1>4. iterate_dir(names) = FlattenSeq(seqs)
  BY DEF iterate_dir
<1>5. seqs \in Seq(Seq(Nat))
  <2>1. seqs \in [1..N -> Seq(Nat)]
    BY <1>2
  <2> HIDE DEF seqs, N
  <2> QED
    BY <1>1, <2>1
<1> HIDE DEF seqs
<1>6. f[0] = <<>> /\ \A k \in 1..N : f[k] = f[k - 1] \o seqs[k]
  BY <1>2 DEF Written
<1>7. CASE N = 0
  <2>1. FlattenSeq(seqs) = seqs
    BY <1>3, <1>7 DEF FlattenSeq
  <2>2. seqs = <<>>
    BY <1>3, <1>5, <1>7
  <2> QED
    BY <1>4, <1>6, <1>7, <2>1, <2>2
<1>8. CASE N # 0
  <2> DEFINE g == CHOOSE g : Flattened(g, seqs)
  <2>1. FlattenSeq(seqs) = g[N]
    BY <1>3, <1>8 DEF FlattenSeq, Flattened
  <2> HIDE DEF N
  <2>11. 1 \in 1..N /\ f[1] = seqs[1]
    <3>1. 1 \in 1..N /\ 1 - 1 = 0
      BY <1>1, <1>8
    <3>2. f[1] = f[0] \o seqs[1] /\ seqs[1] \in Seq(Nat)
      BY <1>2, <1>6, <3>1
    <3>3. <<>> \o seqs[1] = seqs[1]
      BY <3>2, ConcatEmptySeq
    <3> QED
      BY <1>6, <3>1, <3>2, <3>3, Zenon
  <2> DEFINE h == [i \in 1..N |-> f[i]]
  <2>2. Flattened(h, seqs)
    <3>1. ASSUME NEW i \in 1..N
          PROVE  h[i] = IF i = 1 THEN seqs[i] ELSE h[i - 1] \o seqs[i]
      <4>1. CASE i = 1
        <5> QED
          BY <4>1, <2>11
      <4>2. CASE i # 1
        <5>1. i - 1 \in 1..N
          BY <1>1, <3>1, <4>2
        <5> QED
          BY <1>6, <3>1, <4>2, <5>1
      <4> QED
        BY <4>1, <4>2
    <3>2. h = [i \in 1..N |-> h[i]]
      OBVIOUS
    <3> HIDE DEF h
    <3> QED
      BY <1>3, <3>1, <3>2, Zenon DEF Flattened
  <2>3. Flattened(g, seqs)
    BY <2>2
  <2> HIDE DEF g, h
  <2>4. \A i \in 1..N : g[i] = IF i = 1 THEN seqs[i] ELSE g[i - 1] \o seqs[i]
    BY <1>3, <2>3 DEF Flattened
  <2> DEFINE S == {n \in 0..(N - 1) : g[n + 1] = f[n + 1]}
  <2>5. 0 \in S
    <3>1. 1 \in 1..N /\ 0 \in 0..(N - 1)
      BY <1>1, <1>8
    <3>2. g[1] = f[1]
      BY <2>4, <2>11, <3>1
    <3> QED
      BY <3>1, <3>2
  <2>6. ASSUME NEW n \in 0..(N - 1 - 1), n \in S PROVE n + 1 \in S
    <3>1. /\ n + 2 \in 1..N /\ n + 2 # 1 /\ (n + 2) - 1 = n + 1
          /\ n + 1 \in 0..(N - 1) /\ (n + 1) + 1 = n + 2
      BY <1>1
    <3>2. g[n + 2] = g[n + 1] \o seqs[n + 2] /\ f[n + 2] = f[n + 1] \o seqs[n + 2]
      BY <1>6, <2>4, <3>1
    <3> QED
      BY <2>6, <3>1, <3>2
  <2> HIDE DEF S
  <2>7. N - 1 \in Nat
    BY <1>1, <1>8
  <2>8. 0..(N - 1) \subseteq S
    BY <2>5, <2>6, <2>7, InductionUpTo
  <2>9. N - 1 \in S /\ (N - 1) + 1 = N
    BY <1>1, <2>7, <2>8
  <2>10. g[N] = f[N]
    BY <2>9 DEF S
  <2> QED
    BY <1>4, <2>1, <2>10 DEF N
<1> QED
  BY <1>7, <1>8

-------------------------------------------------------------------------------
(* The places of the names.                                                 *)

\* A name as files have it, and its place in the buffer.
Name == Seq(Nat \ {NUL}) \ {<<>>}
Placed(c, p, n) ==
  /\ p \in Nat /\ p >= 1 /\ p + Len(n) <= Len(c)
  /\ \A i \in p..(p + Len(n) - 1) : c[i] = n[i - p + 1]
  /\ c[p + Len(n)] = NUL

\* The places of all names, and of the end.
Ring(c, names, p) ==
  /\ p[1] = 1 /\ p[Len(names) + 1] = Len(c) + 1
  /\ \A k \in 1..Len(names) : Placed(c, p[k], names[k]) /\ p[k + 1] = p[k] + Len(names[k]) + 1

\* Numbers: a name of l characters at place x.
LEMMA Span ==
  ASSUME NEW x \in Nat, NEW l \in Nat, x >= 1, l >= 1
  PROVE  /\ x \in x..(x + l - 1) /\ x + l - 1 \in x..(x + l - 1)
         /\ x + l - 1 \in Int /\ (x + l - 1) - x + 1 = l /\ x <= x + l - 1
         /\ ~ (x + l < 2) /\ x + l \in Nat
OBVIOUS

LEMMA AfterSpan ==
  ASSUME NEW x \in Nat, NEW l \in Nat, x >= 1, l >= 1, NEW y, y = x + l + 1
  PROVE  y - 1 = x + l /\ y - 1 # 0 /\ y # 1 /\ y - 1 - 1 = x + l - 1
OBVIOUS

LEMMA Shift ==
  ASSUME NEW x \in Nat, NEW l \in Nat, NEW i \in (x + 1)..(x + 1 + l - 1)
  PROVE  /\ i - x \in 1..l /\ i - x \in 1..(l + 1) /\ i = x + (i - x)
         /\ i - (x + 1) + 1 = i - x
OBVIOUS

LEMMA NameFacts ==
  ASSUME NEW n \in Name
  PROVE  /\ n \in Seq(Nat) /\ Len(n) \in Nat /\ Len(n) >= 1
         /\ \A i \in 1..Len(n) : n[i] # NUL
<1>1. n \in Seq(Nat \ {NUL}) /\ n # <<>>
  BY DEF Name
<1>2. Len(n) \in Nat /\ \A i \in 1..Len(n) : n[i] \in Nat \ {NUL}
  BY <1>1
<1>3. Len(n) # 0
  BY <1>1
<1>4. n \in Seq(Nat)
  <2>1. n = [i \in 1..Len(n) |-> n[i]]
    BY <1>1
  <2>2. \A i \in 1..Len(n) : n[i] \in Nat
    BY <1>2
  <2>3. [i \in 1..Len(n) |-> n[i]] \in Seq(Nat)
    BY <1>2, <2>2, IsASeq
  <2> QED
    BY <2>1, <2>3
<1> QED
  BY <1>2, <1>3, <1>4

LEMMA PlacedBefore ==
  ASSUME NEW c \in Seq(Nat), NEW d \in Seq(Nat), NEW p, NEW n \in Name, Placed(c, p, n)
  PROVE  Placed(c \o d, p, n)
<1> DEFINE e == c \o d
<1>1. Len(e) = Len(c) + Len(d) /\ \A i \in 1..Len(c) : e[i] = c[i]
  <2>1. Len(c) \in Nat /\ Len(d) \in Nat
    OBVIOUS
  <2>2. /\ Len(e) = Len(c) + Len(d)
        /\ \A i \in 1..Len(c) + Len(d) : e[i] = IF i <= Len(c) THEN c[i] ELSE d[i - Len(c)]
    BY ConcatProperties
  <2> HIDE DEF e
  <2> QED
    BY <2>1, <2>2
<1>2. Len(c) \in Nat /\ Len(d) \in Nat /\ Len(n) \in Nat
  BY NameFacts
<1> HIDE DEF e
<1>3. Placed(e, p, n)
  <2>1. p \in Nat /\ p >= 1 /\ p + Len(n) <= Len(c)
    BY DEF Placed
  <2>2. \A i \in p..(p + Len(n) - 1) : i \in 1..Len(c)
    BY <1>2, <2>1
  <2>3. p + Len(n) \in 1..Len(c) /\ p + Len(n) <= Len(e)
    BY <1>1, <1>2, <2>1
  <2>4. \A i \in p..(p + Len(n) - 1) : e[i] = n[i - p + 1]
    BY <1>1, <2>2 DEF Placed
  <2>5. e[p + Len(n)] = NUL
    BY <1>1, <2>3 DEF Placed
  <2> QED
    BY <2>1, <2>3, <2>4, <2>5 DEF Placed
<1> QED
  BY <1>3 DEF e

LEMMA PlacedLast ==
  ASSUME NEW c \in Seq(Nat), NEW n \in Name
  PROVE  /\ Placed(c \o Append(n, NUL), Len(c) + 1, n)
         /\ Len(c \o Append(n, NUL)) = Len(c) + 1 + Len(n)
<1> DEFINE d == Append(n, NUL)
<1> DEFINE e == c \o d
<1>1. n \in Seq(Nat) /\ Len(n) \in Nat /\ Len(c) \in Nat /\ NUL \in Nat
  BY NameFacts DEF NUL
<1>2. /\ d \in Seq(Nat) /\ Len(d) = Len(n) + 1
      /\ \A i \in 1..Len(n) : d[i] = n[i]
      /\ d[Len(n) + 1] = NUL
  BY <1>1, AppendFacts
<1> HIDE DEF d
<1>3. /\ Len(e) = Len(c) + Len(d)
      /\ \A i \in 1..Len(c) + Len(d) : e[i] = IF i <= Len(c) THEN c[i] ELSE d[i - Len(c)]
  BY <1>2, ConcatProperties
<1> HIDE DEF e
<1>4. \A i \in 1..Len(d) : e[Len(c) + i] = d[i]
  <2> TAKE i \in 1..Len(d)
  <2>1. Len(c) + i \in 1..Len(c) + Len(d) /\ ~ (Len(c) + i <= Len(c)) /\ Len(c) + i - Len(c) = i
    BY <1>1, <1>2
  <2> QED
    BY <1>3, <2>1
<1>5. ASSUME NEW i \in (Len(c) + 1)..(Len(c) + 1 + Len(n) - 1)
      PROVE  e[i] = n[i - (Len(c) + 1) + 1]
  <2> DEFINE j == i - Len(c)
  <2>1. j \in 1..Len(n) /\ j \in 1..Len(d) /\ i = Len(c) + j /\ i - (Len(c) + 1) + 1 = j
    <3>1. /\ j \in 1..Len(n) /\ j \in 1..(Len(n) + 1) /\ i = Len(c) + j
          /\ i - (Len(c) + 1) + 1 = j
      BY <1>1, Shift
    <3> QED
      BY <1>2, <3>1, Zenon
  <2> HIDE DEF j
  <2> QED
    BY <1>2, <1>4, <2>1
<1>6. e[Len(c) + 1 + Len(n)] = NUL
  <2>1. Len(n) + 1 \in 1..Len(d) /\ Len(c) + 1 + Len(n) = Len(c) + (Len(n) + 1)
    BY <1>1, <1>2
  <2> QED
    BY <1>2, <1>4, <2>1
<1>7. Placed(e, Len(c) + 1, n) /\ Len(e) = Len(c) + 1 + Len(n)
  BY <1>1, <1>2, <1>3, <1>5, <1>6 DEF Placed
<1> QED
  BY <1>7 DEF d, e

LEMMA RingIsWritten ==
  ASSUME NEW names \in Seq(Name)
  PROVE  iterate_dir(names) \in Seq(Nat) /\ \E p : Ring(iterate_dir(names), names, p)
<1> DEFINE N == Len(names)
<1>1. N \in Nat /\ \A k \in 1..N : names[k] \in Name
  OBVIOUS
<1>2. names \in Seq(Seq(Nat))
  <2>1. names = [k \in 1..N |-> names[k]]
    OBVIOUS
  <2>2. \A k \in 1..N : names[k] \in Seq(Nat)
    BY <1>1, NameFacts
  <2> HIDE DEF N
  <2>3. [k \in 1..N |-> names[k]] \in Seq(Seq(Nat))
    BY <1>1, <2>2, IsASeq
  <2> QED
    BY <2>1, <2>3
<1>3. PICK f \in [0..N -> Seq(Nat)] : Written(f, names)
  BY <1>2, Writing
<1>4. iterate_dir(names) = f[N]
  BY <1>2, <1>3, WrittenIsDir
<1>5. f[0] = <<>> /\ \A k \in 1..N : f[k] = f[k - 1] \o Append(names[k], NUL)
  BY <1>3 DEF Written
<1> HIDE DEF N
<1> DEFINE p == [k \in 1..(N + 1) |-> Len(f[k - 1]) + 1]
<1>6. \A k \in 1..(N + 1) : p[k] = Len(f[k - 1]) + 1
  OBVIOUS
<1> HIDE DEF p
<1>7. ASSUME NEW k \in 1..N
      PROVE  Placed(f[k], p[k], names[k]) /\ p[k + 1] = p[k] + Len(names[k]) + 1
  <2>1. k - 1 \in 0..N /\ k \in 0..N /\ k \in 1..(N + 1) /\ k + 1 \in 1..(N + 1) /\ (k + 1) - 1 = k
    BY <1>1
  <2>2. f[k - 1] \in Seq(Nat) /\ Len(f[k - 1]) \in Nat /\ names[k] \in Name /\ Len(names[k]) \in Nat
    BY <1>1, <2>1, NameFacts
  <2>3. /\ Placed(f[k], Len(f[k - 1]) + 1, names[k])
        /\ Len(f[k]) = Len(f[k - 1]) + 1 + Len(names[k])
    BY <1>5, <2>2, PlacedLast
  <2>4. p[k] = Len(f[k - 1]) + 1 /\ p[k + 1] = Len(f[k]) + 1
    BY <1>6, <2>1
  <2> QED
    BY <2>2, <2>3, <2>4
<1> DEFINE S == {n \in 0..N : \A k \in 1..n : Placed(f[n], p[k], names[k])}
<1>8. 0 \in S
  BY <1>1
<1>9. ASSUME NEW n \in 0..(N - 1), n \in S PROVE n + 1 \in S
  <2>1. n \in 0..N /\ n + 1 \in 1..N /\ n + 1 \in 0..N /\ (n + 1) - 1 = n
    BY <1>1
  <2>2. f[n + 1] = f[n] \o Append(names[n + 1], NUL) /\ f[n] \in Seq(Nat)
    BY <1>5, <2>1
  <2>3. Append(names[n + 1], NUL) \in Seq(Nat)
    BY <1>1, <2>1, NameFacts, AppendFacts DEF NUL
  <2>4. ASSUME NEW k \in 1..n PROVE Placed(f[n + 1], p[k], names[k])
    <3>1. k \in 1..N /\ Placed(f[n], p[k], names[k])
      BY <1>1, <1>9
    <3> QED
      BY <1>1, <2>2, <2>3, <3>1, PlacedBefore
  <2>5. Placed(f[n + 1], p[n + 1], names[n + 1])
    BY <1>7, <2>1
  <2>6. \A k \in 1..(n + 1) : k \in 1..n \/ k = n + 1
    BY <2>1
  <2> QED
    BY <2>1, <2>4, <2>5, <2>6
<1>10. N \in S
  <2> HIDE DEF S
  <2>1. 0..N \subseteq S
    BY <1>1, <1>8, <1>9, InductionUpTo
  <2> QED
    BY <1>1, <2>1
<1>11. \A k \in 1..N : Placed(f[N], p[k], names[k])
  BY <1>10
<1>12. p[1] = 1 /\ p[N + 1] = Len(f[N]) + 1
  <2>1. 1 \in 1..(N + 1) /\ N + 1 \in 1..(N + 1) /\ 1 - 1 = 0 /\ (N + 1) - 1 = N
    BY <1>1
  <2>2. Len(f[0]) = 0
    BY <1>5
  <2>3. p[1] = Len(f[0]) + 1
    BY <1>6, <2>1
  <2>4. p[N + 1] = Len(f[N]) + 1
    BY <1>6, <2>1
  <2> QED
    BY <2>2, <2>3, <2>4
<1>13. Ring(f[N], names, p)
  BY <1>7, <1>11, <1>12 DEF Ring, N
<1>14. f[N] \in Seq(Nat)
  BY <1>1
<1> QED
  BY <1>4, <1>13, <1>14

-------------------------------------------------------------------------------
(* The iterators at these places.                                           *)

LEMMA MinIs ==
  ASSUME NEW S, S \subseteq Int, NEW m \in S, \A y \in S : m <= y PROVE Min(S) = m
<1>1. \A x \in S : (\A y \in S : x =< y) => x = m
  <2> TAKE x \in S
  <2> HAVE \A y \in S : x =< y
  <2>1. x <= m /\ m <= x /\ x \in Int /\ m \in Int
    OBVIOUS
  <2> QED
    BY <2>1
<1>2. \E x \in S : \A y \in S : x =< y
  OBVIOUS
<1> QED
  BY <1>1, <1>2 DEF Min

LEMMA MaxIs ==
  ASSUME NEW S, S \subseteq Int, NEW m \in S, \A y \in S : y <= m PROVE Max(S) = m
<1>1. \A x \in S : (\A y \in S : x >= y) => x = m
  <2> TAKE x \in S
  <2> HAVE \A y \in S : x >= y
  <2>1. x <= m /\ m <= x /\ x \in Int /\ m \in Int
    OBVIOUS
  <2> QED
    BY <2>1
<1>2. \E x \in S : \A y \in S : x >= y
  OBVIOUS
<1> QED
  BY <1>1, <1>2 DEF Max

\* Within a name there is no NUL.
LEMMA PlacedChars ==
  ASSUME NEW c \in Seq(Nat), NEW p, NEW n \in Name, Placed(c, p, n)
  PROVE  \A i \in p..(p + Len(n) - 1) : c[i] # NUL
<1> TAKE i \in p..(p + Len(n) - 1)
<1>1. Len(n) \in Nat /\ \A j \in 1..Len(n) : n[j] # NUL
  BY NameFacts
<1>2. i - p + 1 \in 1..Len(n) /\ c[i] = n[i - p + 1]
  BY <1>1 DEF Placed
<1> QED
  BY <1>1, <1>2

LEMMA TerminatorOf ==
  ASSUME NEW c \in Seq(Nat), NEW p, NEW n \in Name, Placed(c, p, n)
  PROVE  Terminator(c, p) = p + Len(n) /\ StringAt(c, p) = n
<1>1. /\ p \in Nat /\ p >= 1 /\ p + Len(n) <= Len(c) /\ c[p + Len(n)] = NUL
      /\ \A i \in p..(p + Len(n) - 1) : c[i] = n[i - p + 1]
  BY DEF Placed
<1>2. n \in Seq(Nat) /\ Len(n) \in Nat /\ Len(n) >= 1 /\ Len(c) \in Nat
  BY NameFacts
<1> DEFINE S == {k \in p..Len(c) : c[k] = NUL}
<1>3. S \subseteq Int /\ p + Len(n) \in S
  BY <1>1, <1>2
<1>4. ASSUME NEW y \in S PROVE p + Len(n) <= y
  <2>1. y \in Int /\ p <= y /\ c[y] = NUL
    BY <1>1, <1>2
  <2>2. y \notin p..(p + Len(n) - 1)
    BY <2>1, PlacedChars
  <2> QED
    BY <1>1, <1>2, <2>1, <2>2
<1>5. Terminator(c, p) = p + Len(n)
  <2>1. Terminator(c, p) = Min(S)
    BY DEF Terminator
  <2> HIDE DEF S
  <2> QED
    BY <1>3, <1>4, <2>1, MinIs
<1> DEFINE q == p + Len(n) - 1
<1> DEFINE s == SubSeq(c, p, q)
<1>6. q \in Int /\ q - p + 1 = Len(n) /\ p <= q /\ p \in Int /\ \A i \in p..q : c[i] \in Nat
  <2>1. q \in Int /\ q - p + 1 = Len(n) /\ p <= q /\ p \in Int
    BY <1>1, <1>2, Span
  <2>2. q <= Len(c)
    BY <1>1, <1>2
  <2> HIDE DEF q
  <2>3. \A i \in p..q : i \in 1..Len(c)
    BY <1>1, <1>2, <2>1, <2>2
  <2> QED
    BY <2>1, <2>3
<1>7. StringAt(c, p) = s
  <2>1. StringAt(c, p) = SubSeq(c, p, Terminator(c, p) - 1)
    BY DEF StringAt
  <2>2. Terminator(c, p) - 1 = q
    BY <1>1, <1>2, <1>5
  <2> HIDE DEF q
  <2> QED
    BY <2>1, <2>2
<1>8. s \in Seq(Nat) /\ Len(s) = Len(n) /\ \A i \in 1..Len(n) : s[i] = c[p + i - 1]
  <2>1. \A i \in p..q : c[i] = n[i - p + 1]
    BY <1>1
  <2> HIDE DEF q
  <2> QED
    BY <1>6, SubSeqProperties
<1>9. \A i \in 1..Len(n) : s[i] = n[i]
  <2> TAKE i \in 1..Len(n)
  <2>1. p + i - 1 \in p..(p + Len(n) - 1) /\ (p + i - 1) - p + 1 = i
    BY <1>1, <1>2
  <2> QED
    BY <1>1, <1>8, <2>1
<1> HIDE DEF s
<1>10. s = n
  BY <1>2, <1>8, <1>9, SeqEqual
<1> QED
  BY <1>5, <1>7, <1>10

LEMMA BackFrom ==
  ASSUME NEW c \in Seq(Nat), NEW p, NEW n \in Name, Placed(c, p, n),
         p = 1 \/ c[p - 1] = NUL, NEW i \in p..(p + Len(n) - 1)
  PROVE  BackToNul(c, i) = p - 1
<1>1. /\ p \in Nat /\ p >= 1 /\ Len(n) \in Nat /\ Len(n) >= 1
  BY NameFacts DEF Placed
<1> DEFINE S == {NULL} \cup {k \in 1..i : c[k] = NUL}
<1>2. S \subseteq Int /\ p - 1 \in S
  BY <1>1 DEF NULL
<1>3. ASSUME NEW y \in S PROVE y <= p - 1
  <2>1. CASE y = NULL
    BY <1>1, <2>1 DEF NULL
  <2>2. CASE y \in 1..i /\ c[y] = NUL
    <3>1. y \notin p..(p + Len(n) - 1)
      BY <2>2, PlacedChars
    <3> QED
      BY <1>1, <2>2, <3>1
  <2> QED
    BY <2>1, <2>2
<1>4. BackToNul(c, i) = Max(S)
  BY DEF BackToNul
<1> HIDE DEF S
<1> QED
  BY <1>2, <1>3, <1>4, MaxIs

\* The facts about places that the iterators need.
RingFacts(c, names, p) ==
  \A k \in 1..Len(names) :
    /\ p[k] \in 1..Len(c) /\ p[k + 1] = p[k] + Len(names[k]) + 1
    /\ Placed(c, p[k], names[k]) /\ p[k] + Len(names[k]) \in 1..Len(c)
    /\ p[k] = 1 \/ c[p[k] - 1] = NUL
    /\ k = 1 <=> p[k] = 1
    /\ k = Len(names) <=> p[k] + Len(names[k]) = Len(c)

LEMMA RingHasFacts ==
  ASSUME NEW c \in Seq(Nat), NEW names \in Seq(Name), NEW p, Ring(c, names, p)
  PROVE  RingFacts(c, names, p)
<1> DEFINE N == Len(names)
<1>1. /\ N \in Nat /\ Len(c) \in Nat
      /\ \A k \in 1..N : names[k] \in Name /\ Len(names[k]) \in Nat /\ Len(names[k]) >= 1
  BY NameFacts
<1>2. /\ p[1] = 1 /\ p[N + 1] = Len(c) + 1
      /\ \A k \in 1..N : Placed(c, p[k], names[k]) /\ p[k + 1] = p[k] + Len(names[k]) + 1
  BY DEF Ring
<1> HIDE DEF N
<1>3. ASSUME NEW k \in 1..N
      PROVE  /\ p[k] \in Nat /\ p[k] >= 1 /\ p[k] + Len(names[k]) <= Len(c)
             /\ p[k + 1] = p[k] + Len(names[k]) + 1 /\ c[p[k] + Len(names[k])] = NUL
  BY <1>2 DEF Placed
<1> SUFFICES ASSUME NEW k \in 1..N
             PROVE  /\ p[k] \in 1..Len(c) /\ p[k + 1] = p[k] + Len(names[k]) + 1
                    /\ Placed(c, p[k], names[k]) /\ p[k] + Len(names[k]) \in 1..Len(c)
                    /\ p[k] = 1 \/ c[p[k] - 1] = NUL
                    /\ k = 1 <=> p[k] = 1
                    /\ k = N <=> p[k] + Len(names[k]) = Len(c)
  BY DEF RingFacts, N
<1>4. Len(names[k]) \in Nat /\ Len(names[k]) >= 1
  BY <1>1
<1>5. p[k] \in 1..Len(c) /\ p[k] + Len(names[k]) \in 1..Len(c) /\ p[k] \in Nat
  <2>1. p[k] \in Nat /\ p[k] >= 1 /\ p[k] + Len(names[k]) <= Len(c)
    BY <1>3
  <2>2. \A x, l \in Nat : x >= 1 /\ x + l <= Len(c) => x \in 1..Len(c) /\ x + l \in 1..Len(c)
    BY <1>1
  <2> QED
    BY <1>4, <2>1, <2>2
<1>6. k # 1 => c[p[k] - 1] = NUL /\ p[k] # 1
  <2> SUFFICES ASSUME k # 1 PROVE c[p[k] - 1] = NUL /\ p[k] # 1
    OBVIOUS
  <2> DEFINE j == k - 1
  <2>1. j \in 1..N /\ k = j + 1
    BY <1>1
  <2> HIDE DEF j
  <2>2. p[j] \in Nat /\ Len(names[j]) \in Nat /\ Len(names[j]) >= 1
    BY <1>1, <1>3, <2>1
  <2>3. p[k] = p[j] + Len(names[j]) + 1 /\ c[p[j] + Len(names[j])] = NUL
    BY <1>3, <2>1
  <2>4. p[k] - 1 = p[j] + Len(names[j]) /\ p[k] # 1
    <3>1. p[j] >= 1
      BY <1>3, <2>1
    <3> QED
      BY <2>2, <2>3, <3>1, AfterSpan
  <2> QED
    BY <2>3, <2>4
<1>7. k = 1 => p[k] = 1
  BY <1>2
<1>8. k = N => p[k] + Len(names[k]) = Len(c)
  <2> SUFFICES ASSUME k = N PROVE p[k] + Len(names[k]) = Len(c)
    OBVIOUS
  <2>1. p[k + 1] = Len(c) + 1
    BY <1>2
  <2> QED
    BY <1>1, <1>3, <1>4, <1>5, <2>1
<1>9. k # N => p[k] + Len(names[k]) # Len(c)
  <2> SUFFICES ASSUME k # N PROVE p[k] + Len(names[k]) # Len(c)
    OBVIOUS
  <2>1. k + 1 \in 1..N
    BY <1>1
  <2>2. p[k + 1] <= Len(c) /\ p[k + 1] \in Nat
    <3>1. p[k + 1] \in Nat /\ p[k + 1] + Len(names[k + 1]) <= Len(c) /\ Len(names[k + 1]) \in Nat
      BY <1>1, <1>3, <2>1
    <3> QED
      BY <1>1, <3>1
  <2>3. p[k + 1] = p[k] + Len(names[k]) + 1
    BY <1>3
  <2> QED
    BY <1>1, <1>4, <1>5, <2>2, <2>3
<1> QED
  BY <1>2, <1>3, <1>5, <1>6, <1>7, <1>8, <1>9

\* The iterators go from one place to the next, and to the one before.
LEMMA Iterators ==
  ASSUME NEW c \in Seq(Nat), NEW names \in Seq(Name), NEW p, RingFacts(c, names, p),
         NEW k \in 1..Len(names)
  PROVE  /\ iter_valid(c, p[k]) /\ StringAt(c, p[k]) = names[k]
         /\ iter_next(c, p[k]) = IF k = Len(names) THEN NULL ELSE p[k + 1]
         /\ iter_prev(c, p[k]) = IF k = 1 THEN NULL ELSE p[k - 1]
<1> DEFINE N == Len(names)
<1> DEFINE len(j) == Len(names[j])
<1>1. N \in Nat /\ Len(c) \in Nat /\ \A j \in 1..N : names[j] \in Name /\ len(j) \in Nat /\ len(j) >= 1
  BY NameFacts
<1>2. \A j \in 1..N :
        /\ p[j] \in 1..Len(c) /\ p[j + 1] = p[j] + len(j) + 1
        /\ Placed(c, p[j], names[j]) /\ p[j] + len(j) \in 1..Len(c)
        /\ p[j] = 1 \/ c[p[j] - 1] = NUL
        /\ j = 1 <=> p[j] = 1
        /\ j = N <=> p[j] + len(j) = Len(c)
  BY DEF RingFacts
<1>3. \A j \in 1..N : Terminator(c, p[j]) = p[j] + len(j) /\ StringAt(c, p[j]) = names[j]
  <2> TAKE j \in 1..N
  <2>1. names[j] \in Name /\ Placed(c, p[j], names[j])
    BY <1>1, <1>2
  <2> QED
    BY <2>1, TerminatorOf
<1>4. \A j \in 1..N : BackToNul(c, p[j]) = p[j] - 1 /\ BackToNul(c, p[j] + len(j) - 1) = p[j] - 1
  <2> TAKE j \in 1..N
  <2>1. p[j] \in p[j]..(p[j] + len(j) - 1) /\ p[j] + len(j) - 1 \in p[j]..(p[j] + len(j) - 1)
    <3>1. len(j) \in Nat /\ len(j) >= 1
      BY <1>1
    <3>2. p[j] \in Nat /\ p[j] >= 1
      <4>1. \A x \in 1..Len(c) : x \in Nat /\ x >= 1
        BY <1>1
      <4>2. p[j] \in 1..Len(c)
        BY <1>2
      <4> QED
        BY <4>1, <4>2
    <3> HIDE DEF len
    <3> QED
      BY <3>1, <3>2, Span
  <2>2. names[j] \in Name /\ Placed(c, p[j], names[j]) /\ (p[j] = 1 \/ c[p[j] - 1] = NUL)
    BY <1>1, <1>2
  <2> QED
    BY <2>1, <2>2, BackFrom
<1> HIDE DEF N, len
<1>5. iter_valid(c, p[k]) /\ StringAt(c, p[k]) = names[k] /\ k \in 1..N
  BY <1>2, <1>3 DEF iter_valid, N
<1>6. iter_next(c, p[k]) = IF k = N THEN NULL ELSE p[k + 1]
  <2>1. Terminator(c, p[k]) + 1 = p[k] + len(k) + 1
    BY <1>3, <1>5
  <2>2. k = N => ~ iter_valid(c, Terminator(c, p[k]) + 1)
    <3>1. k = N => p[k] + len(k) = Len(c)
      BY <1>2, <1>5
    <3>2. k = N => Terminator(c, p[k]) + 1 = Len(c) + 1
      BY <2>1, <3>1, Zenon
    <3>3. Len(c) + 1 \notin 1..Len(c)
      BY <1>1
    <3> QED
      BY <3>2, <3>3, Zenon DEF iter_valid
  <2>3. k # N => iter_valid(c, Terminator(c, p[k]) + 1)
    <3> SUFFICES ASSUME k # N PROVE p[k] + len(k) + 1 \in 1..Len(c)
      BY <2>1 DEF iter_valid
    <3>1. p[k] + len(k) \in 1..Len(c) /\ p[k] + len(k) # Len(c)
      BY <1>2, <1>5
    <3> DEFINE x == p[k] + len(k)
    <3>2. x \in 1..Len(c) /\ x # Len(c)
      BY <3>1
    <3> HIDE DEF x
    <3>3. x + 1 \in 1..Len(c)
      BY <1>1, <3>2
    <3> QED
      BY <3>3 DEF x
  <2>4. p[k + 1] = p[k] + len(k) + 1
    BY <1>2, <1>5
  <2> QED
    BY <1>5, <2>1, <2>2, <2>3, <2>4 DEF iter_next
<1>7. iter_prev(c, p[k]) = IF k = 1 THEN NULL ELSE p[k - 1]
  <2>1. BackToNul(c, p[k]) = p[k] - 1
    BY <1>4, <1>5
  <2>2. CASE k = 1
    <3>1. BackToNul(c, p[k]) = NULL
      BY <1>2, <1>5, <2>1, <2>2 DEF NULL
    <3> QED
      BY <2>2, <3>1 DEF iter_prev
  <2>3. CASE k # 1
    <3> DEFINE j == k - 1
    <3>1. j \in 1..N /\ j + 1 = k
      BY <1>1, <1>5, <2>3
    <3> HIDE DEF j
    <3>2. /\ p[j] \in 1..Len(c) /\ len(j) \in Nat /\ len(j) >= 1
          /\ p[k] = p[j] + len(j) + 1 /\ p[k] \in 1..Len(c)
      BY <1>1, <1>2, <1>5, <3>1
    <3>3. BackToNul(c, p[k]) # NULL /\ BackToNul(c, p[k]) - 1 = p[j] + len(j) - 1
      <4>1. p[j] \in Nat /\ p[j] >= 1
        BY <1>1, <3>2
      <4>2. p[k] - 1 # 0 /\ p[k] - 1 - 1 = p[j] + len(j) - 1
        <5> DEFINE x == p[j]
        <5> DEFINE l == len(j)
        <5> DEFINE y == p[k]
        <5>1. x \in Nat /\ l \in Nat /\ x >= 1 /\ l >= 1 /\ y = x + l + 1
          BY <3>2, <4>1
        <5> HIDE DEF x, l, y
        <5>2. y - 1 # 0 /\ y - 1 - 1 = x + l - 1
          BY <5>1
        <5> QED
          BY <5>2 DEF x, l, y
      <4> QED
        BY <2>1, <4>2, Zenon DEF NULL
    <3>4. iter_valid(c, p[j] + len(j) - 1)
      <4>1. \A x \in 1..Len(c), l \in Nat :
              l >= 1 /\ x + l + 1 \in 1..Len(c) => x + l - 1 \in 1..Len(c)
        BY <1>1
      <4>2. p[j] + len(j) - 1 \in 1..Len(c)
        BY <3>2, <4>1
      <4> QED
        BY <4>2 DEF iter_valid
    <3>5. BackToNul(c, p[j] + len(j) - 1) + 1 = p[j]
      <4>1. BackToNul(c, p[j] + len(j) - 1) = p[j] - 1
        BY <1>4, <3>1
      <4>2. p[j] - 1 + 1 = p[j]
        BY <3>2
      <4> QED
        BY <4>1, <4>2
    <3>6. iter_prev(c, p[k]) = p[j]
      BY <1>5, <3>3, <3>4, <3>5 DEF iter_prev
    <3> QED
      BY <2>3, <3>6 DEF j
  <2> QED
    BY <2>2, <2>3
<1> QED
  BY <1>5, <1>6, <1>7 DEF N

LEMMA IterEnds ==
  ASSUME NEW c \in Seq(Nat), NEW names \in Seq(Name), NEW p, RingFacts(c, names, p),
         Len(names) >= 1
  PROVE  iter_first(c) = p[1] /\ iter_last(c) = p[Len(names)]
<1> DEFINE N == Len(names)
<1>1. N \in 1..N /\ 1 \in 1..N /\ N \in Nat /\ Len(c) \in Nat
  OBVIOUS
<1>2. names[N] \in Name /\ Len(names[N]) \in Nat /\ Len(names[N]) >= 1
  BY <1>1, NameFacts
<1>3. /\ p[N] \in 1..Len(c) /\ p[N] + Len(names[N]) = Len(c) /\ Placed(c, p[N], names[N])
      /\ p[N] = 1 \/ c[p[N] - 1] = NUL
      /\ p[1] = 1 /\ p[1] \in 1..Len(c)
  BY <1>1 DEF RingFacts
<1> HIDE DEF N
<1>4. Len(c) - 1 \in p[N]..(p[N] + Len(names[N]) - 1) /\ ~ (Len(c) < 2)
  <2>1. p[N] \in Nat /\ p[N] >= 1
    BY <1>1, <1>3
  <2>2. /\ p[N] + Len(names[N]) - 1 \in p[N]..(p[N] + Len(names[N]) - 1)
        /\ ~ (p[N] + Len(names[N]) < 2)
    BY <1>2, <2>1, Span
  <2>3. Len(c) = p[N] + Len(names[N])
    BY <1>3
  <2>4. Len(c) - 1 = p[N] + Len(names[N]) - 1
    BY <1>1, <1>2, <2>1, <2>3
  <2> QED
    BY <2>2, <2>3, <2>4, Zenon
<1>5. BackToNul(c, Len(c) - 1) = p[N] - 1
  BY <1>2, <1>3, <1>4, BackFrom
<1>6. iter_last(c) = p[N]
  <2>1. p[N] - 1 + 1 = p[N]
    BY <1>3
  <2> QED
    BY <1>4, <1>5, <2>1 DEF iter_last
<1>7. iter_first(c) = p[1]
  BY <1>3 DEF iter_first
<1> QED
  BY <1>6, <1>7 DEF N

-------------------------------------------------------------------------------
\* What find_entry's loop has found from each position on.
FoundFrom(c, name, g, i) ==
  g[i] = IF ~iter_valid(c, i) THEN NULL
         ELSE IF StringAt(c, i) = name THEN i ELSE g[iter_next(c, i)]

\* The loop goes on to the right, or ends.
LEMMA NextIsRight ==
  ASSUME NEW c \in Seq(Nat), c[Len(c)] = NUL, NEW i \in 1..Len(c)
  PROVE  iter_next(c, i) = NULL \/ iter_next(c, i) \in (i + 1)..Len(c)
<1> DEFINE S == {k \in i..Len(c) : c[k] = NUL}
<1>1. Len(c) \in S /\ S \subseteq Nat /\ Len(c) \in Nat
  OBVIOUS
<1>2. PICK m \in S : \A y \in S : m <= y
  <2> HIDE DEF S
  <2> QED
    BY <1>1, LeastNumber
<1>3. Terminator(c, i) = m
  <2>1. Terminator(c, i) = Min(S)
    BY DEF Terminator
  <2> HIDE DEF S
  <2>2. S \subseteq Int
    BY <1>1
  <2> QED
    BY <1>2, <2>1, <2>2, MinIs
<1>4. m \in i..Len(c)
  BY <1>2
<1> HIDE DEF S
<1>5. m + 1 \in 1..Len(c) => m + 1 \in (i + 1)..Len(c)
  BY <1>1, <1>4
<1> QED
  BY <1>3, <1>5 DEF iter_next, iter_valid

LEMMA LoopEnds ==
  ASSUME NEW c \in Seq(Nat), Len(c) = 0 \/ c[Len(c)] = NUL, NEW name
  PROVE  \E g \in [0..Len(c) -> 0..Len(c)] : \A i \in 0..Len(c) : FoundFrom(c, name, g, i)
<1> DEFINE L == Len(c)
<1> DEFINE S == {m \in 0..L : \E g \in [0..L -> 0..L] :
                   \A i \in 0..L : i = 0 \/ i > L - m => FoundFrom(c, name, g, i)}
<1>1. L \in Nat
  OBVIOUS
<1>2. \A i \in 1..L : iter_valid(c, i)
  BY DEF iter_valid
<1>3. ~ iter_valid(c, 0)
  BY DEF iter_valid
<1>4. \A i \in 1..L : iter_next(c, i) = 0 \/ iter_next(c, i) \in (i + 1)..L
  <2> TAKE i \in 1..L
  <2>1. c[Len(c)] = NUL
    OBVIOUS
  <2> QED
    BY <2>1, NextIsRight DEF NULL
<1> HIDE DEF L
<1>5. \A i \in 1..L : iter_next(c, i) \in 0..L /\ (iter_next(c, i) = 0 \/ iter_next(c, i) > i)
  <2> TAKE i \in 1..L
  <2>1. \A x : x = 0 \/ x \in (i + 1)..L => x \in 0..L /\ (x = 0 \/ x > i)
    BY <1>1
  <2> QED
    BY <1>4, <2>1
<1>6. 0 \in S
  <2> DEFINE g == [i \in 0..L |-> 0]
  <2>1. g \in [0..L -> 0..L] /\ g[0] = 0
    BY <1>1
  <2> HIDE DEF g
  <2>2. FoundFrom(c, name, g, 0)
    BY <1>3, <2>1 DEF FoundFrom, NULL
  <2>3. \A i \in 0..L : i = 0 \/ i > L - 0 => i = 0
    BY <1>1
  <2>4. \A i \in 0..L : i = 0 \/ i > L - 0 => FoundFrom(c, name, g, i)
    BY <2>2, <2>3
  <2>5. 0 \in 0..L
    BY <1>1
  <2> QED
    BY <2>1, <2>4, <2>5
<1>7. ASSUME NEW m \in 0..(L - 1), m \in S PROVE m + 1 \in S
  <2>1. PICK g \in [0..L -> 0..L] :
          \A i \in 0..L : i = 0 \/ i > L - m => FoundFrom(c, name, g, i)
    BY <1>7
  <2> DEFINE j == L - m
  <2>2. j \in 1..L /\ j \in 0..L /\ m + 1 \in 0..L
    BY <1>1
  <2> DEFINE v == IF StringAt(c, j) = name THEN j ELSE g[iter_next(c, j)]
  <2>3. v \in 0..L
    <3>1. iter_next(c, j) \in 0..L
      BY <2>2, <1>5
    <3> HIDE DEF j
    <3> QED
      BY <2>2, <3>1
  <2>4. \A i \in 0..L : i = 0 \/ i > L - (m + 1) => i = 0 \/ i > j \/ i = j
    BY <1>1
  <2>5. \A i \in 0..L : i = 0 \/ i > j => FoundFrom(c, name, g, i)
    BY <2>1
  <2> HIDE DEF j
  <2> DEFINE h == [g EXCEPT ![j] = v]
  <2>6. h \in [0..L -> 0..L] /\ h[j] = v /\ \A i \in 0..L : i # j => h[i] = g[i]
    BY <2>2, <2>3
  <2> HIDE DEF h
  <2>7. ASSUME NEW i \in 0..L, i = 0 \/ i > j PROVE FoundFrom(c, name, h, i)
    <3>1. FoundFrom(c, name, g, i) /\ h[i] = g[i]
      BY <2>2, <2>5, <2>6, <2>7
    <3>2. i # 0 => h[iter_next(c, i)] = g[iter_next(c, i)]
      <4> SUFFICES ASSUME i # 0 PROVE iter_next(c, i) \in 0..L /\ iter_next(c, i) # j
        BY <2>6
      <4>1. i \in 1..L /\ i > j
        BY <1>1, <2>2, <2>7
      <4>2. \A x \in 0..L : x = 0 \/ x > i => x # j
        BY <1>1, <2>2, <4>1
      <4> QED
        BY <1>5, <4>1, <4>2
    <3>3. i = 0 => ~ iter_valid(c, i)
      BY <1>3
    <3> QED
      BY <3>1, <3>2, <3>3 DEF FoundFrom
  <2>8. FoundFrom(c, name, h, j)
    <3>1. iter_next(c, j) \in 0..L /\ iter_next(c, j) # j
      <4>1. \A x \in 0..L : x = 0 \/ x > j => x # j
        BY <1>1, <2>2
      <4> QED
        BY <1>5, <2>2, <4>1
    <3>2. h[iter_next(c, j)] = g[iter_next(c, j)]
      BY <2>6, <3>1
    <3> QED
      BY <1>2, <2>2, <2>6, <3>2 DEF FoundFrom
  <2>9. \A i \in 0..L : i = 0 \/ i > L - (m + 1) => FoundFrom(c, name, h, i)
    BY <2>4, <2>7, <2>8
  <2> QED
    BY <2>2, <2>6, <2>9
<1>8. L \in S
  <2> HIDE DEF S
  <2>1. 0..L \subseteq S
    BY <1>1, <1>6, <1>7, InductionUpTo
  <2> QED
    BY <1>1, <2>1
<1>9. \A i \in 0..L : i = 0 \/ i > L - L
  BY <1>1
<1>10. \E g \in [0..L -> 0..L] : \A i \in 0..L : FoundFrom(c, name, g, i)
  BY <1>8, <1>9
<1> QED
  BY <1>10 DEF L

LEMMA FindIsLoop ==
  ASSUME NEW c \in Seq(Nat), Len(c) = 0 \/ c[Len(c)] = NUL, NEW name
  PROVE  \E g : /\ find_entry(c, name) = g[iter_first(c)]
                /\ \A i \in 0..Len(c) : FoundFrom(c, name, g, i)
<1> DEFINE body(g) ==
      [i \in 0..Len(c) |->
         IF ~iter_valid(c, i) THEN NULL ELSE IF StringAt(c, i) = name THEN i ELSE g[iter_next(c, i)]]
<1>1. PICK g \in [0..Len(c) -> 0..Len(c)] : \A i \in 0..Len(c) : FoundFrom(c, name, g, i)
  BY LoopEnds
<1>2. g = body(g)
  <2>1. g = [i \in 0..Len(c) |-> g[i]]
    OBVIOUS
  <2> QED
    BY <1>1, <2>1, Zenon DEF FoundFrom
<1> DEFINE w == CHOOSE w : w = body(w)
<1>3. w = body(w)
  BY <1>2, Zenon
<1>4. find_entry(c, name) = w[iter_first(c)]
  BY Zenon DEF find_entry
<1> HIDE DEF w
<1>5. \A i \in 0..Len(c) : FoundFrom(c, name, w, i)
  BY <1>3, Zenon DEF FoundFrom
<1> QED
  BY <1>4, <1>5

\* A name is found at its place.
LEMMA FoundAtPlace ==
  ASSUME NEW c \in Seq(Nat), NEW names \in Seq(Name), NEW p, RingFacts(c, names, p),
         \A i, j \in 1..Len(names) : names[i] = names[j] => i = j,
         NEW k \in 1..Len(names)
  PROVE  find_entry(c, names[k]) = p[k]
<1> DEFINE N == Len(names)
<1>1. N \in Nat /\ k \in 1..N /\ N >= 1
  OBVIOUS
<1>2. \A j \in 1..N :
        /\ p[j] \in 1..Len(c) /\ iter_valid(c, p[j]) /\ StringAt(c, p[j]) = names[j]
        /\ iter_next(c, p[j]) = IF j = N THEN NULL ELSE p[j + 1]
  <2> TAKE j \in 1..N
  <2>1. p[j] \in 1..Len(c)
    BY DEF RingFacts
  <2>2. /\ iter_valid(c, p[j]) /\ StringAt(c, p[j]) = names[j]
        /\ iter_next(c, p[j]) = IF j = N THEN NULL ELSE p[j + 1]
    BY Iterators
  <2> QED
    BY <2>1, <2>2
<1>3. c[Len(c)] = NUL
  <2>1. N \in 1..N
    BY <1>1
  <2>2. Placed(c, p[N], names[N]) /\ p[N] + Len(names[N]) = Len(c)
    BY <2>1 DEF RingFacts
  <2> HIDE DEF N
  <2> QED
    BY <2>2 DEF Placed
<1>4. PICK g : /\ find_entry(c, names[k]) = g[iter_first(c)]
               /\ \A i \in 0..Len(c) : FoundFrom(c, names[k], g, i)
  BY <1>3, FindIsLoop
<1>5. iter_first(c) = p[1]
  BY <1>1, IterEnds
<1> HIDE DEF N
<1> DEFINE S == {m \in 0..(k - 1) : g[p[k - m]] = p[k]}
<1>6. \A j \in 1..N : g[p[j]] = IF names[j] = names[k] THEN p[j] ELSE g[iter_next(c, p[j])]
  <2> TAKE j \in 1..N
  <2>1. p[j] \in 0..Len(c)
    BY <1>2
  <2>2. FoundFrom(c, names[k], g, p[j])
    BY <1>4, <2>1
  <2> QED
    BY <1>2, <2>2 DEF FoundFrom
<1>7. 0 \in S
  <2>1. g[p[k]] = p[k] /\ k - 0 = k /\ 0 \in 0..(k - 1)
    BY <1>1, <1>6
  <2> QED
    BY <2>1
<1>8. ASSUME NEW m \in 0..(k - 1 - 1), m \in S PROVE m + 1 \in S
  <2> DEFINE j == k - (m + 1)
  <2>1. j \in 1..N /\ j # k /\ j # N /\ j + 1 = k - m /\ m + 1 \in 0..(k - 1)
    BY <1>1
  <2> HIDE DEF j
  <2>2. names[j] # names[k]
    BY <1>1, <2>1 DEF N
  <2>3. g[p[j]] = g[p[k - m]]
    BY <1>2, <1>6, <2>1, <2>2
  <2>4. g[p[j]] = p[k]
    BY <1>8, <2>3
  <2> QED
    BY <2>1, <2>4 DEF j
<1>9. k - 1 \in S
  <2> HIDE DEF S
  <2>1. k - 1 \in Nat
    BY <1>1
  <2>2. 0..(k - 1) \subseteq S
    BY <1>7, <1>8, <2>1, InductionUpTo
  <2> QED
    BY <2>1, <2>2
<1>10. k - (k - 1) = 1
  BY <1>1
<1>11. g[p[1]] = p[k]
  BY <1>9, <1>10
<1> QED
  BY <1>4, <1>5, <1>11

-------------------------------------------------------------------------------
(* The buttons.                                                             *)

LEMMA NamesAreNames == Names \subseteq Name
BY GifPlayerAssumption DEF Name

LEMMA ListedNames ==
  ASSUME DirectoryTypes
  PROVE  /\ Listed \in Seq(Names) /\ Listed \in Seq(Name)
         /\ \A i, j \in 1..Len(Listed) : Listed[i] = Listed[j] => i = j
<1>1. Listed \in Seq(Names) /\ Sifted(Listed, directory, Len(directory), unlisted)
  BY WithoutIsSifted DEF DirectoryTypes, Listed
<1>2. Listed \in Seq(Name)
  BY <1>1, NamesAreNames
<1> QED
  BY <1>1, <1>2 DEF Sifted

\* One way round the list, and the other.
LEMMA RingGoesRound ==
  ASSUME NEW names \in Seq(Names), names \in Seq(Name), cache = iterate_dir(names),
         \A i, j \in 1..Len(names) : names[i] = names[j] => i = j,
         NEW k \in 1..Len(names), NEW next, next = names[(k % Len(names)) + 1]
  PROVE  NextName(names[k]) = next /\ PrevName(next) = names[k]
<1> DEFINE N == Len(names)
<1> DEFINE m == IF k = N THEN 1 ELSE k + 1
<1>1. N \in Nat /\ k \in 1..N /\ N >= 1 /\ m \in 1..N /\ 1 \in 1..N /\ N \in 1..N
  OBVIOUS
<1>2. next = names[m]
  <2>1. (k % N) + 1 = m
    <3>1. CASE k = N
      BY <1>1, <3>1
    <3>2. CASE k < N
      <4>1. k % N = k
        BY <1>1, <3>2
      <4> QED
        BY <1>1, <3>2, <4>1
    <3> QED
      BY <1>1, <3>1, <3>2
  <2> QED
    BY <2>1
<1>3. cache \in Seq(Nat) /\ \E p : Ring(cache, names, p)
  BY RingIsWritten
<1>4. PICK p : RingFacts(cache, names, p)
  BY <1>3, RingHasFacts
<1>5. \A j \in 1..N : names[j] \in Names /\ names[j] # None
  BY NamesAreNotEmpty DEF NoneIsNoName
<1>6. \A j \in 1..N :
        /\ find_entry(cache, names[j]) = p[j]
        /\ StringAt(cache, p[j]) = names[j] /\ p[j] # NULL
        /\ iter_next(cache, p[j]) = IF j = N THEN NULL ELSE p[j + 1]
        /\ iter_prev(cache, p[j]) = IF j = 1 THEN NULL ELSE p[j - 1]
  <2> TAKE j \in 1..N
  <2>1. find_entry(cache, names[j]) = p[j]
    BY <1>3, <1>4, FoundAtPlace
  <2>2. /\ StringAt(cache, p[j]) = names[j]
        /\ iter_next(cache, p[j]) = IF j = N THEN NULL ELSE p[j + 1]
        /\ iter_prev(cache, p[j]) = IF j = 1 THEN NULL ELSE p[j - 1]
    BY <1>3, <1>4, Iterators
  <2>3. p[j] # NULL
    <3>1. p[j] \in 1..Len(cache)
      BY <1>4 DEF RingFacts
    <3> QED
      BY <3>1 DEF NULL
  <2> QED
    BY <2>1, <2>2, <2>3
<1>7. iter_first(cache) = p[1] /\ iter_last(cache) = p[N]
  BY <1>1, <1>3, <1>4, IterEnds
<1> HIDE DEF N
<1>8. NextName(names[k]) = names[m]
  <2>1. CASE k = N
    <3>1. iter_next(cache, find_entry(cache, names[k])) = NULL /\ m = 1
      BY <1>1, <1>6, <2>1
    <3> QED
      BY <1>1, <1>5, <1>6, <1>7, <3>1 DEF NextName, NameAt
  <2>2. CASE k # N
    <3>1. iter_next(cache, find_entry(cache, names[k])) = p[k + 1] /\ m = k + 1
      BY <1>1, <1>6, <2>2
    <3> QED
      BY <1>1, <1>5, <1>6, <3>1 DEF NextName, NameAt
  <2> QED
    BY <2>1, <2>2
<1>9. PrevName(names[m]) = names[k]
  <2>1. CASE k = N
    <3>1. iter_prev(cache, find_entry(cache, names[m])) = NULL /\ m = 1
      BY <1>1, <1>6, <2>1
    <3> QED
      BY <1>1, <1>5, <1>6, <1>7, <2>1, <3>1 DEF PrevName, NameAt
  <2>2. CASE k # N
    <3>1. m = k + 1 /\ m # 1 /\ m - 1 = k
      BY <1>1, <2>2
    <3> HIDE DEF m
    <3>2. iter_prev(cache, find_entry(cache, names[m])) = p[k]
      BY <1>1, <1>6, <3>1
    <3> QED
      BY <1>1, <1>5, <1>6, <3>2 DEF PrevName, NameAt
  <2> QED
    BY <2>1, <2>2
<1> QED
  BY <1>2, <1>8, <1>9

LEMMA ListGoesRound == ListInv => ButtonsGoRound
<1> SUFFICES ASSUME ListInv, ~Locked, NEW k \in 1..Len(Listed)
             PROVE  LET next == Listed[(k % Len(Listed)) + 1]
                    IN NextName(Listed[k]) = next /\ PrevName(next) = Listed[k]
  BY DEF ButtonsGoRound
<1>1. cache = iterate_dir(Listed)
  BY CurrentList DEF ListIsCurrent
<1>2. /\ Listed \in Seq(Names) /\ Listed \in Seq(Name)
      /\ \A i, j \in 1..Len(Listed) : Listed[i] = Listed[j] => i = j
  BY ListedNames DEF ListInv
<1> QED
  BY <1>1, <1>2, RingGoesRound

THEOREM ButtonsVisitAll == Spec => []ButtonsGoRound
<1>1. FileInv /\ ListInv /\ [Next]_vars => FileInv' /\ ListInv'
  BY FileInvStep, ListStep
<1> QED
  BY <1>1, FileInvInit, ListInvInit, ListGoesRound, PTL DEF Spec
================================================================================
