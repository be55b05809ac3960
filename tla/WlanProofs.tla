------------------------------- MODULE WlanProofs -------------------------------
(***************************************************************************)
(* The wireless network, for any number of operations, one at a time, and  *)
(* any number of events that wait: the driver runs what is enabled, the    *)
(* station knows whether it is connected, and does not give up.            *)
(*                                                                         *)
(* The invariant says how far the operation under way has come with the    *)
(* driver (Phase), what the events that wait will make the station know    *)
(* (Known), and who will look for the network (Trying).                    *)
(***************************************************************************)
EXTENDS Wlan, SequenceTheorems, TLAPS

(* What an operation has still to do, if rest follows when component c is  *)
(* switched on or off.                                                     *)

Cons(x, s) == <<x>> \o s
LastStep(c, on) ==
  IF c = "ap" THEN (IF on THEN "active" ELSE "inactive") ELSE (IF on THEN "scan" ELSE "scanEnded")
AtEnd(c, on, rest) == Cons(LastStep(c, on), rest)
AtStarted(c, on, rest) == Cons("started", AtEnd(c, on, rest))
AtStart(c, on, rest) == Cons("start", AtStarted(c, on, rest))
AtConfig(c, on, rest) == Cons("setConfig", AtStart(c, on, rest))
AfterMode(c, on, rest) == IF on THEN AtConfig(c, on, rest) ELSE AtStart(c, on, rest)
AtMode(c, on, rest) == Cons("setMode", AfterMode(c, on, rest))
AtReconfigure(c, on, rest) == Cons("reconfigure", AtMode(c, on, rest))
AtStopped(c, on, rest) == Cons("stopped", AtReconfigure(c, on, rest))
AtStop(c, on, rest) == Cons("stop", AtStopped(c, on, rest))
AtSwitch(c, on, rest) == Cons(IF on THEN "enable" ELSE "disable", AtStop(c, on, rest))

\* The rest of an operation stores what was switched, or switches c on again.
Rests(c) == {<<>>, <<"storeOn">>, <<"storeOff">>, AtSwitch(c, TRUE, <<>>)}
Ends(c, on, rest) ==
  \/ rest = <<>> /\ stored[c] = on
  \/ rest = <<"storeOn">> /\ on
  \/ rest = <<"storeOff">> /\ ~on
  \/ rest = AtSwitch(c, TRUE, <<>>) /\ ~on /\ stored[c]

-------------------------------------------------------------------------------
(* The driver, the operation and what is enabled.                           *)

Runs(E) == /\ wlan_started = radio.running /\ radio.running = (E # {})
           /\ radio.running => radio.mode = E
Settled == Runs(Enabled) /\ wlan_ap_active = enabled["ap"]

\* How far an operation that switches c has come.
Switched(c, on, rest) ==
  \/ todo[c] = AtStop(c, on, rest) /\ wlan_started = radio.running
  \/ todo[c] = AtStopped(c, on, rest) /\ ~radio.running
  \/ /\ ~radio.running /\ ~wlan_started
     /\ \/ todo[c] = AtReconfigure(c, on, rest)
        \/ todo[c] = AtMode(c, on, rest) /\ mode[c] = Enabled /\ Enabled # {}
        \/ todo[c] = AtConfig(c, on, rest) /\ radio.mode = Enabled /\ on
        \/ todo[c] = AtStart(c, on, rest) /\ (Enabled # {} => radio.mode = Enabled)
  \/ todo[c] = AtStarted(c, on, rest) /\ radio.running /\ Enabled # {} /\ radio.mode = Enabled
  \/ todo[c] = AtEnd(c, on, rest) /\ Runs(Enabled)

Phase(c, on, rest) ==
  \/ todo[c] = AtSwitch(c, on, rest) /\ Settled
  \/ /\ enabled[c] = on
     /\ c = "station" => wlan_ap_active = enabled["ap"]
     /\ Switched(c, on, rest)

Works(c) == \E on \in BOOLEAN, rest \in Rests(c) : Ends(c, on, rest) /\ Phase(c, on, rest)
Stores(c) ==
  /\ Settled
  /\ todo[c] = IF enabled[c] THEN <<"storeOn">> ELSE <<"storeOff">>
Rest(c) == todo[c] = <<>> /\ stored[c] = enabled[c]

Controlled ==
  \/ Settled /\ \A c \in Components : Rest(c)
  \/ \E c, d \in Components : c # d /\ Rest(d) /\ (Works(c) \/ Stores(c))

-------------------------------------------------------------------------------
(* The station.                                                             *)

LinkEvents == {"connected", "disconnected"}
Reports == {"scanDone"} \union LinkEvents
NoLinkEvent(s) == \A k \in 1..Len(s) : s[k] \notin LinkEvents
LastLinkEvent(s, e) ==
  \E k \in 1..Len(s) : s[k] = e /\ \A j \in k + 1..Len(s) : s[j] \notin LinkEvents
ScanReported(s) == \E k \in 1..Len(s) : s[k] = "scanDone"

\* The station was switched, and the driver is not stopped yet.
StopNext == Busy("station") /\ Now("station") = "stop"
\* What sta_connected will be when the events are handled.
Known ==
  \/ /\ NoLinkEvent(events)
     /\ IF StopNext THEN ~sta_connected ELSE sta_connected = (radio.link = "up")
  \/ LastLinkEvent(events, "connected") /\ radio.link = "up"
  \/ LastLinkEvent(events, "disconnected") /\ radio.link # "up"

LinkNeedsRadio == radio.link # "down" => Operates("station")
ScanGoesOn ==
  scan_in_progress => radio.scanning \/ ScanReported(events)

Switching == Busy("station") /\ Now("station") \notin {"storeOn", "storeOff"}
Trying ==
  ~Switching /\ enabled["station"] /\ radio.link = "down" /\ events = <<>> =>
    scan_task = "scheduled" \/ scan_cb # "none" \/ radio.scanning

Types ==
  /\ enabled \in [Components -> BOOLEAN] /\ stored \in [Components -> BOOLEAN]
  /\ todo = [c \in Components |-> todo[c]] /\ mode = [c \in Components |-> mode[c]]
  /\ wlan_started \in BOOLEAN /\ wlan_ap_active \in BOOLEAN /\ sta_connected \in BOOLEAN
  /\ radio \in [running : BOOLEAN, mode : SUBSET Components,
                link : {"down", "connecting", "up"}, scanning : BOOLEAN]
  /\ events \in Seq(Reports)
  /\ ~aborted

Station == Known /\ LinkNeedsRadio /\ ScanGoesOn /\ Trying
WlanInv == Types /\ Controlled /\ Station

-------------------------------------------------------------------------------
(* Rows of steps.                                                           *)

Steps == {"enable", "disable", "stop", "stopped", "reconfigure", "setMode", "setConfig", "start",
          "started", "active", "inactive", "scan", "scanEnded", "storeOn", "storeOff"}
Rows == Seq(Steps)
Join(s, t) == s \o t

LEMMA StepsAre ==
  /\ "enable" \in Steps /\ "disable" \in Steps /\ "stop" \in Steps /\ "stopped" \in Steps
  /\ "reconfigure" \in Steps /\ "setMode" \in Steps /\ "setConfig" \in Steps
  /\ "start" \in Steps /\ "started" \in Steps
  /\ "storeOn" \in Steps /\ "storeOff" \in Steps
  BY DEF Steps

LEMMA ConsIs ==
  ASSUME NEW x \in Steps, NEW s \in Rows
  PROVE  /\ Cons(x, s) \in Rows /\ Cons(x, s) # <<>>
         /\ Head(Cons(x, s)) = x /\ Tail(Cons(x, s)) = s
PROOF
<1>. DEFINE p == <<x>>
<1>1. p \in Seq(Steps) /\ Len(p) = 1 /\ p[1] = x /\ s \in Seq(Steps)
  BY DEF Rows
<1>. HIDE DEF p
<1>2. /\ p \o s \in Seq(Steps) /\ Len(p \o s) = Len(s) + 1
      /\ \A i \in 1..Len(s) + 1 : (p \o s)[i] = IF i <= 1 THEN p[i] ELSE s[i - 1]
  <2>1. /\ p \o s \in Seq(Steps) /\ Len(p \o s) = Len(p) + Len(s)
        /\ \A i \in 1..Len(p) + Len(s) : (p \o s)[i] = IF i <= Len(p) THEN p[i] ELSE s[i - Len(p)]
    BY <1>1, ConcatProperties
  <2>2. 1 + Len(s) = Len(s) + 1
    BY <1>1
  <2>. QED
    BY <1>1, <2>1, <2>2
<1>3. p \o s # <<>> /\ Len(s) \in Nat
  BY <1>1, <1>2
<1>4. Head(p \o s) = x
  BY <1>1, <1>2, <1>3
<1>5. Tail(p \o s) = s
  <2>1. Tail(p \o s) \in Seq(Steps) /\ Len(Tail(p \o s)) = Len(s)
    BY <1>2, <1>3
  <2>2. ASSUME NEW i \in 1..Len(s)
        PROVE  Tail(p \o s)[i] = s[i]
    <3>1. Tail(p \o s)[i] = (p \o s)[i + 1]
      BY <1>2, <1>3
    <3>2. (p \o s)[i + 1] = s[i + 1 - 1] /\ i + 1 - 1 = i
      BY <1>2, <1>3
    <3>. QED
      BY <3>1, <3>2
  <2>. QED
    BY <1>1, <2>1, <2>2, SeqEqual
<1>. QED
  BY <1>2, <1>3, <1>4, <1>5 DEF Cons, Rows, p

LEMMA JoinIs ==
  /\ \A s, t \in Rows : Join(s, t) \in Rows
  /\ \A s, t, u \in Rows : Join(Join(s, t), u) = Join(s, Join(t, u))
  /\ \A s \in Rows : Join(s, <<>>) = s /\ Join(<<>>, s) = s
  BY ConcatAssociative, ConcatEmptySeq DEF Rows, Join

LEMMA RowIs ==
  /\ <<>> \in Rows
  /\ \A x \in Steps : <<x>> \in Rows
  /\ \A x, y \in Steps : <<x, y>> \in Rows
  BY DEF Rows

LEMMA SingleJoin ==
  ASSUME NEW x \in Steps, NEW t \in Rows
  PROVE  Join(<<x>>, t) = Cons(x, t)
  BY DEF Join, Cons

LEMMA PairJoin ==
  ASSUME NEW x \in Steps, NEW y \in Steps, NEW t \in Rows
  PROVE  Join(<<x, y>>, t) = Cons(x, Cons(y, t))
PROOF
<1>1. <<x, y>> = Join(<<x>>, <<y>>)
  <2>. DEFINE p == <<x>>  q == <<y>>
  <2>1. p \in Seq(Steps) /\ q \in Seq(Steps) /\ Len(p) = 1 /\ Len(q) = 1 /\ p[1] = x /\ q[1] = y
    OBVIOUS
  <2>2. p \o q \in Seq(Steps) /\ Len(p \o q) = 2 /\ (p \o q)[1] = x /\ (p \o q)[2] = y
    <3>. HIDE DEF p, q
    <3>1. /\ p \o q \in Seq(Steps) /\ Len(p \o q) = Len(p) + Len(q)
          /\ \A i \in 1..Len(p) + Len(q) : (p \o q)[i] = IF i <= Len(p) THEN p[i] ELSE q[i - Len(p)]
      BY <2>1, ConcatProperties
    <3>. QED
      BY <2>1, <3>1
  <2>. DEFINE r == p \o q
  <2>3. r \in Seq(Steps) /\ Len(r) = 2 /\ r[1] = x /\ r[2] = y
    BY <2>2
  <2>. HIDE DEF r
  <2>4. /\ \A i \in 1..2 : <<x, y>>[i] = r[i]
        /\ Len(<<x, y>>) = 2 /\ <<x, y>> \in Seq(Steps)
    BY <2>3
  <2>5. <<x, y>> = r
    BY <2>3, <2>4, SeqEqual
  <2>. QED
    BY <2>5 DEF r, Join
<1>2. Join(Join(<<x>>, <<y>>), t) = Join(<<x>>, Join(<<y>>, t))
  BY JoinIs, RowIs
<1>. QED
  BY <1>1, <1>2, Zenon DEF Join, Cons

LEMMA FourInARow ==
  ASSUME NEW a \in Rows, NEW b \in Rows, NEW c \in Rows, NEW d \in Rows
  PROVE  Join(Join(Join(a, b), c), d) = Join(a, Join(b, Join(c, d)))
PROOF
<1>1. /\ Join(Join(Join(a, b), c), d) = Join(Join(a, b), Join(c, d))
      /\ Join(Join(a, b), Join(c, d)) = Join(a, Join(b, Join(c, d)))
  BY JoinIs
<1>. QED
  BY <1>1

-------------------------------------------------------------------------------
(* The steps of an operation, in a row.                                     *)

\* What is left at each place, for a rest that is a row of steps itself.
LEMMA PlacesAre ==
  ASSUME NEW c \in Components, NEW on \in BOOLEAN, NEW rest \in Rows
  PROVE  /\ AtEnd(c, on, rest) \in Rows /\ AtStarted(c, on, rest) \in Rows
         /\ AtStart(c, on, rest) \in Rows /\ AtConfig(c, on, rest) \in Rows
         /\ AfterMode(c, on, rest) \in Rows /\ AtMode(c, on, rest) \in Rows
         /\ AtReconfigure(c, on, rest) \in Rows /\ AtStopped(c, on, rest) \in Rows
         /\ AtStop(c, on, rest) \in Rows /\ AtSwitch(c, on, rest) \in Rows
PROOF
<1>1. LastStep(c, on) \in Steps /\ (IF on THEN "enable" ELSE "disable") \in Steps
  BY DEF LastStep, Steps
<1>2. AtEnd(c, on, rest) \in Rows
  BY <1>1, StepsAre, ConsIs DEF AtEnd
<1>3. AtStarted(c, on, rest) \in Rows
  BY <1>2, StepsAre, ConsIs DEF AtStarted
<1>4. AtStart(c, on, rest) \in Rows
  BY <1>3, StepsAre, ConsIs DEF AtStart
<1>5. AtConfig(c, on, rest) \in Rows
  BY <1>4, StepsAre, ConsIs DEF AtConfig
<1>6. AfterMode(c, on, rest) \in Rows
  BY <1>4, <1>5 DEF AfterMode
<1>7. AtMode(c, on, rest) \in Rows
  BY <1>6, StepsAre, ConsIs DEF AtMode
<1>8. AtReconfigure(c, on, rest) \in Rows
  BY <1>7, StepsAre, ConsIs DEF AtReconfigure
<1>9. AtStopped(c, on, rest) \in Rows
  BY <1>8, StepsAre, ConsIs DEF AtStopped
<1>10. AtStop(c, on, rest) \in Rows
  BY <1>9, StepsAre, ConsIs DEF AtStop
<1>11. AtSwitch(c, on, rest) \in Rows
  BY <1>1, <1>10, StepsAre, ConsIs DEF AtSwitch
<1>. QED
  BY <1>2, <1>3, <1>4, <1>5, <1>6, <1>7, <1>8, <1>9, <1>10, <1>11

LEMMA RestsAre ==
  ASSUME NEW c \in Components
  PROVE  Rests(c) \subseteq Rows
PROOF
<1>1. /\ <<>> \in Rows /\ <<"storeOn">> \in Rows /\ <<"storeOff">> \in Rows
  BY RowIs, StepsAre
<1>2. AtSwitch(c, TRUE, <<>>) \in Rows
  BY <1>1, PlacesAre
<1>. QED
  BY <1>1, <1>2 DEF Rests

\* Every step, and what follows it.
Is(s, x, t) == s # <<>> /\ Head(s) = x /\ Tail(s) = t

LEMMA ConsIsIs ==
  ASSUME NEW x \in Steps, NEW s \in Rows
  PROVE  Is(Cons(x, s), x, s)
  BY StepsAre, ConsIs DEF Is

LEMMA Follows ==
  ASSUME NEW c \in Components, NEW on \in BOOLEAN, NEW rest \in Rows
  PROVE  /\ Is(AtSwitch(c, on, rest), IF on THEN "enable" ELSE "disable", AtStop(c, on, rest))
         /\ Is(AtStop(c, on, rest), "stop", AtStopped(c, on, rest))
         /\ Is(AtStopped(c, on, rest), "stopped", AtReconfigure(c, on, rest))
         /\ Is(AtReconfigure(c, on, rest), "reconfigure", AtMode(c, on, rest))
         /\ Is(AtMode(c, on, rest), "setMode", AfterMode(c, on, rest))
         /\ Is(AtConfig(c, on, rest), "setConfig", AtStart(c, on, rest))
         /\ Is(AtStart(c, on, rest), "start", AtStarted(c, on, rest))
         /\ Is(AtStarted(c, on, rest), "started", AtEnd(c, on, rest))
         /\ Is(AtEnd(c, on, rest), LastStep(c, on), rest)
PROOF
<1>1. LastStep(c, on) \in Steps /\ (IF on THEN "enable" ELSE "disable") \in Steps
  BY DEF LastStep, Steps
<1>2. Is(AtSwitch(c, on, rest), IF on THEN "enable" ELSE "disable", AtStop(c, on, rest))
  BY <1>1, PlacesAre, StepsAre, ConsIsIs DEF AtSwitch
<1>3. Is(AtStop(c, on, rest), "stop", AtStopped(c, on, rest))
  BY PlacesAre, StepsAre, ConsIsIs DEF AtStop
<1>4. Is(AtStopped(c, on, rest), "stopped", AtReconfigure(c, on, rest))
  BY PlacesAre, StepsAre, ConsIsIs DEF AtStopped
<1>5. Is(AtReconfigure(c, on, rest), "reconfigure", AtMode(c, on, rest))
  BY PlacesAre, StepsAre, ConsIsIs DEF AtReconfigure
<1>6. Is(AtMode(c, on, rest), "setMode", AfterMode(c, on, rest))
  BY PlacesAre, StepsAre, ConsIsIs DEF AtMode
<1>7. Is(AtConfig(c, on, rest), "setConfig", AtStart(c, on, rest))
  BY PlacesAre, StepsAre, ConsIsIs DEF AtConfig
<1>8. Is(AtStart(c, on, rest), "start", AtStarted(c, on, rest))
  BY PlacesAre, StepsAre, ConsIsIs DEF AtStart
<1>9. Is(AtStarted(c, on, rest), "started", AtEnd(c, on, rest))
  BY PlacesAre, StepsAre, ConsIsIs DEF AtStarted
<1>10. Is(AtEnd(c, on, rest), LastStep(c, on), rest)
  BY <1>1, StepsAre, ConsIsIs DEF AtEnd
<1>. QED
  BY <1>2, <1>3, <1>4, <1>5, <1>6, <1>7, <1>8, <1>9, <1>10

\* The operations of the two components are the steps of a switch.
LEMMA Literals ==
  /\ <<"enable">> \in Rows /\ <<"disable">> \in Rows /\ <<"setConfig">> \in Rows
  /\ wlan_stop \in Rows /\ wlan_reconfigure \in Rows /\ wlan_start \in Rows
  /\ \A c \in Components, on \in BOOLEAN : <<LastStep(c, on)>> \in Rows
  BY RowIs DEF Steps, wlan_stop, wlan_reconfigure, wlan_start, LastStep

LEMMA Parts ==
  ASSUME NEW c \in Components, NEW on \in BOOLEAN, NEW rest \in Rows
  PROVE  /\ Join(<<LastStep(c, on)>>, rest) = AtEnd(c, on, rest)
         /\ Join(wlan_start, AtEnd(c, on, rest)) = AtStart(c, on, rest)
         /\ Join(<<"setConfig">>, AtStart(c, on, rest)) = AtConfig(c, on, rest)
         /\ Join(wlan_reconfigure, AfterMode(c, on, rest)) = AtReconfigure(c, on, rest)
         /\ Join(wlan_stop, AtReconfigure(c, on, rest)) = AtStop(c, on, rest)
         /\ Join(<<"enable">>, AtStop(c, on, rest)) = Cons("enable", AtStop(c, on, rest))
         /\ Join(<<"disable">>, AtStop(c, on, rest)) = Cons("disable", AtStop(c, on, rest))
PROOF
<1>1. /\ "start" \in Steps /\ "started" \in Steps /\ "reconfigure" \in Steps
      /\ "setMode" \in Steps /\ "stop" \in Steps /\ "stopped" \in Steps
  BY DEF Steps
<1>2. Join(<<LastStep(c, on)>>, rest) = AtEnd(c, on, rest)
  BY DEF Join, Cons, AtEnd
<1>3. Join(wlan_start, AtEnd(c, on, rest)) = AtStart(c, on, rest)
  BY <1>1, PairJoin, PlacesAre DEF wlan_start, AtStart, AtStarted
<1>4. Join(<<"setConfig">>, AtStart(c, on, rest)) = AtConfig(c, on, rest)
  BY DEF Join, Cons, AtConfig
<1>5. Join(wlan_reconfigure, AfterMode(c, on, rest)) = AtReconfigure(c, on, rest)
  BY <1>1, PairJoin, PlacesAre DEF wlan_reconfigure, AtReconfigure, AtMode
<1>6. Join(wlan_stop, AtReconfigure(c, on, rest)) = AtStop(c, on, rest)
  BY <1>1, PairJoin, PlacesAre DEF wlan_stop, AtStop, AtStopped
<1>7. /\ Join(<<"enable">>, AtStop(c, on, rest)) = Cons("enable", AtStop(c, on, rest))
      /\ Join(<<"disable">>, AtStop(c, on, rest)) = Cons("disable", AtStop(c, on, rest))
  BY DEF Join, Cons
<1>. QED
  BY <1>2, <1>3, <1>4, <1>5, <1>6, <1>7

LEMMA SwitchesOn ==
  ASSUME NEW rest \in Rows
  PROVE  /\ Join(enable_ap_, rest) = AtSwitch("ap", TRUE, rest)
         /\ Join(wlan_station_enable_, rest) = AtSwitch("station", TRUE, rest)
         /\ enable_ap_ \in Rows /\ wlan_station_enable_ \in Rows
PROOF
<1>. DEFINE head == Join(Join(Join(Join(<<"enable">>, wlan_stop), wlan_reconfigure),
                              <<"setConfig">>), wlan_start)
<1>1. ASSUME NEW c \in Components
      PROVE  Join(Join(head, <<LastStep(c, TRUE)>>), rest) = AtSwitch(c, TRUE, rest)
  <2>1. head \in Rows
    BY Literals, JoinIs
  <2>2. Join(Join(head, <<LastStep(c, TRUE)>>), rest) = Join(head, AtEnd(c, TRUE, rest))
    <3>. DEFINE last == <<LastStep(c, TRUE)>>
    <3>1. last \in Rows
      BY Literals
    <3>. HIDE DEF head, last
    <3>2. Join(Join(head, last), rest) = Join(head, Join(last, rest))
      BY <2>1, <3>1, JoinIs
    <3>. QED
      BY <3>2, Parts DEF last
  <2>3. AtEnd(c, TRUE, rest) \in Rows
    BY PlacesAre
  <2>4. Join(head, AtEnd(c, TRUE, rest))
          = Join(<<"enable">>, Join(wlan_stop, Join(wlan_reconfigure,
              Join(<<"setConfig">>, Join(wlan_start, AtEnd(c, TRUE, rest))))))
    <3>. DEFINE a == <<"enable">>  d == <<"setConfig">>
    <3>1. a \in Rows /\ d \in Rows
      BY Literals
    <3>. DEFINE end == AtEnd(c, TRUE, rest)
    <3>2. end \in Rows /\ wlan_stop \in Rows /\ wlan_reconfigure \in Rows /\ wlan_start \in Rows
      BY <2>3, Literals
    <3>3. Join(Join(Join(Join(Join(a, wlan_stop), wlan_reconfigure), d), wlan_start), end)
            = Join(a, Join(wlan_stop, Join(wlan_reconfigure, Join(d, Join(wlan_start, end)))))
      <4>. DEFINE p == Join(Join(a, wlan_stop), wlan_reconfigure)
                  q == Join(d, Join(wlan_start, end))
      <4>. HIDE DEF a, d, end
      <4>1. p \in Rows /\ q \in Rows
        BY <3>1, <3>2, JoinIs
      <4>2. Join(Join(Join(p, d), wlan_start), end) = Join(p, q)
        <5>. HIDE DEF p
        <5>. QED
          BY <3>1, <3>2, <4>1, FourInARow
      <4>3. Join(Join(Join(a, wlan_stop), wlan_reconfigure), q)
              = Join(a, Join(wlan_stop, Join(wlan_reconfigure, q)))
        <5>. HIDE DEF q
        <5>. QED
          BY <3>1, <3>2, <4>1, FourInARow
      <4>. QED
        BY <4>2, <4>3
    <3>. QED
      BY <3>3, Zenon
  <2>5. Join(<<"setConfig">>, Join(wlan_start, AtEnd(c, TRUE, rest))) = AfterMode(c, TRUE, rest)
    BY Parts DEF AfterMode
  <2>6. Join(wlan_stop, Join(wlan_reconfigure, AfterMode(c, TRUE, rest))) = AtStop(c, TRUE, rest)
    BY Parts
  <2>7. Join(<<"enable">>, AtStop(c, TRUE, rest)) = AtSwitch(c, TRUE, rest)
    BY Parts DEF AtSwitch
  <2>. HIDE DEF head
  <2>. QED
    BY <2>2, <2>4, <2>5, <2>6, <2>7
<1>2. enable_ap_ = Join(head, <<LastStep("ap", TRUE)>>)
  BY Zenon DEF enable_ap_, LastStep, Join
<1>3. wlan_station_enable_ = Join(head, <<LastStep("station", TRUE)>>)
  <2>1. LastStep("station", TRUE) = "scan"
    BY DEF LastStep
  <2>. QED
    BY <2>1, Zenon DEF wlan_station_enable_, Join
<1>4. head \in Rows
  BY Literals, JoinIs
<1>. HIDE DEF head
<1>5. ASSUME NEW c \in Components
      PROVE  Join(head, <<LastStep(c, TRUE)>>) \in Rows
  <2>. DEFINE last == <<LastStep(c, TRUE)>>
  <2>1. last \in Rows
    BY Literals
  <2>. HIDE DEF last
  <2>2. Join(head, last) \in Rows
    BY <1>4, <2>1, JoinIs
  <2>. QED
    BY <2>2 DEF last
<1>. QED
  BY <1>1, <1>2, <1>3, <1>5 DEF Components

LEMMA SwitchesOff ==
  ASSUME NEW rest \in Rows
  PROVE  /\ Join(disable_ap_, rest) = AtSwitch("ap", FALSE, rest)
         /\ enabled["station"] =>
              Join(wlan_station_disable_, rest) = AtSwitch("station", FALSE, rest)
PROOF
<1>. DEFINE restart == Join(Join(wlan_stop, wlan_reconfigure), wlan_start)
            head == Join(<<"disable">>, restart)
<1>1. ASSUME NEW c \in Components
      PROVE  Join(Join(head, <<LastStep(c, FALSE)>>), rest) = AtSwitch(c, FALSE, rest)
  <2>1. head \in Rows /\ restart \in Rows
    BY Literals, JoinIs
  <2>2. Join(Join(head, <<LastStep(c, FALSE)>>), rest) = Join(head, AtEnd(c, FALSE, rest))
    <3>. DEFINE last == <<LastStep(c, FALSE)>>
    <3>1. last \in Rows
      BY Literals
    <3>. HIDE DEF head, last
    <3>2. Join(Join(head, last), rest) = Join(head, Join(last, rest))
      BY <2>1, <3>1, JoinIs
    <3>. QED
      BY <3>2, Parts DEF last
  <2>3. AtEnd(c, FALSE, rest) \in Rows
    BY PlacesAre
  <2>4. Join(head, AtEnd(c, FALSE, rest)) = Join(<<"disable">>, Join(restart, AtEnd(c, FALSE, rest)))
    <3>. DEFINE a == <<"disable">>
    <3>1. a \in Rows
      BY Literals
    <3>2. Join(Join(a, restart), AtEnd(c, FALSE, rest))
            = Join(a, Join(restart, AtEnd(c, FALSE, rest)))
      <4>. HIDE DEF restart, a
      <4>. QED
        BY <2>1, <2>3, <3>1, JoinIs
    <3>. QED
      BY <3>2, Zenon
  <2>5. Join(restart, AtEnd(c, FALSE, rest))
          = Join(wlan_stop, Join(wlan_reconfigure, Join(wlan_start, AtEnd(c, FALSE, rest))))
    <3>. DEFINE end == AtEnd(c, FALSE, rest)
    <3>1. end \in Rows /\ wlan_stop \in Rows /\ wlan_reconfigure \in Rows /\ wlan_start \in Rows
      BY <2>3, Literals
    <3>. HIDE DEF end
    <3>2. Join(Join(Join(wlan_stop, wlan_reconfigure), wlan_start), end)
            = Join(wlan_stop, Join(wlan_reconfigure, Join(wlan_start, end)))
      BY <3>1, FourInARow
    <3>. QED
      BY <3>2, Zenon DEF end
  <2>6. Join(wlan_start, AtEnd(c, FALSE, rest)) = AfterMode(c, FALSE, rest)
    BY Parts DEF AfterMode
  <2>7. Join(wlan_stop, Join(wlan_reconfigure, AfterMode(c, FALSE, rest))) = AtStop(c, FALSE, rest)
    BY Parts
  <2>8. Join(<<"disable">>, AtStop(c, FALSE, rest)) = AtSwitch(c, FALSE, rest)
    BY Parts DEF AtSwitch
  <2>. HIDE DEF head, restart
  <2>. QED
    BY <2>2, <2>4, <2>5, <2>6, <2>7, <2>8
<1>2. disable_ap_ = Join(head, <<LastStep("ap", FALSE)>>)
  BY Zenon DEF disable_ap_, wlan_restart, LastStep, Join
<1>3. enabled["station"] => wlan_station_disable_ = Join(head, <<LastStep("station", FALSE)>>)
  <2>1. LastStep("station", FALSE) = "scanEnded"
    BY DEF LastStep
  <2>. QED
    BY <2>1, Zenon DEF wlan_station_disable_, wlan_restart, Join
<1>. HIDE DEF head
<1>. QED
  BY <1>1, <1>2, <1>3 DEF Components

-------------------------------------------------------------------------------
(* Where an operation is.                                                   *)

Switch(c, on) == enabled[c] = on /\ (c = "station" => wlan_ap_active = enabled["ap"])

LEMMA Where ==
  ASSUME NEW c \in Components, NEW on \in BOOLEAN, NEW rest \in Rows, Phase(c, on, rest)
  PROVE  /\ Busy(c) /\ Now(c) \notin {"storeOn", "storeOff"}
         /\ Now(c) \in {"enable", "disable"} =>
              /\ todo[c] = AtSwitch(c, on, rest) /\ Settled
              /\ Now(c) = IF on THEN "enable" ELSE "disable"
         /\ Now(c) \notin {"enable", "disable"} => Switch(c, on)
         /\ Now(c) = "stop" => todo[c] = AtStop(c, on, rest) /\ wlan_started = radio.running
         /\ Now(c) = "stopped" => todo[c] = AtStopped(c, on, rest) /\ ~radio.running
         /\ Now(c) = "reconfigure" =>
              todo[c] = AtReconfigure(c, on, rest) /\ ~radio.running /\ ~wlan_started
         /\ Now(c) = "setMode" =>
              /\ todo[c] = AtMode(c, on, rest) /\ ~radio.running /\ ~wlan_started
              /\ mode[c] = Enabled /\ Enabled # {}
         /\ Now(c) = "setConfig" =>
              /\ todo[c] = AtConfig(c, on, rest) /\ ~radio.running /\ ~wlan_started
              /\ radio.mode = Enabled /\ on
         /\ Now(c) = "start" =>
              /\ todo[c] = AtStart(c, on, rest) /\ ~radio.running /\ ~wlan_started
              /\ Enabled # {} => radio.mode = Enabled
         /\ Now(c) = "started" =>
              /\ todo[c] = AtStarted(c, on, rest)
              /\ radio.running /\ Enabled # {} /\ radio.mode = Enabled
         /\ Now(c) \in {"active", "inactive", "scan", "scanEnded"} =>
              todo[c] = AtEnd(c, on, rest) /\ Now(c) = LastStep(c, on) /\ Runs(Enabled)
PROOF
<1>1. todo[c] = AtSwitch(c, on, rest) => Busy(c) /\ Now(c) = IF on THEN "enable" ELSE "disable"
  BY Follows DEF Is, Busy, Now
<1>2. todo[c] = AtStop(c, on, rest) => Busy(c) /\ Now(c) = "stop"
  BY Follows DEF Is, Busy, Now
<1>3. todo[c] = AtStopped(c, on, rest) => Busy(c) /\ Now(c) = "stopped"
  BY Follows DEF Is, Busy, Now
<1>4. todo[c] = AtReconfigure(c, on, rest) => Busy(c) /\ Now(c) = "reconfigure"
  BY Follows DEF Is, Busy, Now
<1>5. todo[c] = AtMode(c, on, rest) => Busy(c) /\ Now(c) = "setMode"
  BY Follows DEF Is, Busy, Now
<1>6. todo[c] = AtConfig(c, on, rest) => Busy(c) /\ Now(c) = "setConfig"
  BY Follows DEF Is, Busy, Now
<1>7. todo[c] = AtStart(c, on, rest) => Busy(c) /\ Now(c) = "start"
  BY Follows DEF Is, Busy, Now
<1>8. todo[c] = AtStarted(c, on, rest) => Busy(c) /\ Now(c) = "started"
  BY Follows DEF Is, Busy, Now
<1>9. todo[c] = AtEnd(c, on, rest) => Busy(c) /\ Now(c) = LastStep(c, on)
  BY Follows DEF Is, Busy, Now
<1>10. LastStep(c, on) \in {"active", "inactive", "scan", "scanEnded"}
  BY DEF LastStep
<1>11. (IF on THEN "enable" ELSE "disable") \in {"enable", "disable"}
  OBVIOUS
<1>. QED
  BY <1>1, <1>2, <1>3, <1>4, <1>5, <1>6, <1>7, <1>8, <1>9, <1>10, <1>11
     DEF Phase, Switched, Switch

LEMMA WhereStores ==
  ASSUME NEW c \in Components, Stores(c)
  PROVE  /\ Busy(c) /\ Now(c) \in {"storeOn", "storeOff"} /\ Settled
         /\ enabled[c] => Now(c) = "storeOn"
         /\ ~enabled[c] => Now(c) = "storeOff"
         /\ Tail(todo[c]) = <<>>
PROOF
<1>1. \A x : <<x>> # <<>> /\ Head(<<x>>) = x /\ Tail(<<x>>) = <<>>
  OBVIOUS
<1>. QED
  BY <1>1 DEF Stores, Busy, Now

\* One component is switched at a time.
LEMMA OneWorks ==
  ASSUME Controlled, NEW c \in Components, Busy(c)
  PROVE  /\ Works(c) \/ Stores(c)
         /\ \A d \in Components : d # c => Rest(d) /\ ~Busy(d)
PROOF
<1>1. \A d \in Components : Rest(d) => ~Busy(d)
  BY DEF Rest, Busy
<1>2. PICK e, d \in Components : e # d /\ Rest(d) /\ (Works(e) \/ Stores(e))
  BY <1>1 DEF Controlled
<1>3. e = c /\ \A f \in Components : f # c => f = d
  BY <1>1, <1>2 DEF Components
<1>. QED
  BY <1>1, <1>2, <1>3

LEMMA NoneWorks ==
  ASSUME Controlled, Idle
  PROVE  Settled /\ \A c \in Components : Rest(c)
PROOF
<1>1. \A c \in Components : Stores(c) => Busy(c)
  BY WhereStores
<1>2. ASSUME NEW c \in Components, Works(c)
      PROVE  Busy(c)
  <2>1. PICK on \in BOOLEAN, rest \in Rests(c) : Phase(c, on, rest)
    BY <1>2 DEF Works
  <2>. QED
    BY <2>1, Where, RestsAre
<1>. QED
  BY <1>1, <1>2 DEF Controlled, Idle

\* What is still to do is known from the step that is next.
LEMMA IsAt ==
  ASSUME Controlled, NEW c \in Components, Busy(c), Now(c) \notin {"storeOn", "storeOff"}
  PROVE  \E on \in BOOLEAN, rest \in Rests(c) : Ends(c, on, rest) /\ Phase(c, on, rest)
  BY OneWorks, WhereStores DEF Works

-------------------------------------------------------------------------------
(* The steps of an operation leave the driver under control.                *)

LEMMA ControlledNext ==
  ASSUME Types, Controlled, NEW c \in Components, Busy(c),
         NEW t, todo' = [todo EXCEPT ![c] = t],
         \A d \in Components : d # c => enabled'[d] = enabled[d] /\ stored'[d] = stored[d],
         Works(c)' \/ Stores(c)' \/ (Settled' /\ Rest(c)')
  PROVE  Controlled'
PROOF
<1>1. \A d \in Components : d # c => Rest(d)
  BY OneWorks
<1>2. \A d \in Components : d # c => todo'[d] = todo[d]
  BY DEF Types
<1>3. \A d \in Components : d # c => Rest(d)'
  BY <1>1, <1>2 DEF Rest
<1>4. \E d \in Components : d # c
  BY DEF Components
<1>. QED
  BY <1>3, <1>4 DEF Controlled

LEMMA TodoNext ==
  ASSUME Types, NEW c \in Components, NEW t, todo' = [todo EXCEPT ![c] = t]
  PROVE  todo'[c] = t
  BY DEF Types

LEMMA WorksNext ==
  ASSUME NEW c \in Components, NEW on \in BOOLEAN, NEW rest \in Rests(c),
         Ends(c, on, rest)', Phase(c, on, rest)'
  PROVE  Works(c)'
  BY DEF Works, Rests

\* A component that has been switched waits for its state to be stored, or for
\* what comes next.
LEMMA FinishNext ==
  ASSUME NEW c \in Components, NEW on \in BOOLEAN, NEW rest \in Rests(c),
         Ends(c, on, rest)', Settled', todo'[c] = rest, enabled'[c] = on,
         stored'[c] \in BOOLEAN
  PROVE  Works(c)' \/ Stores(c)' \/ (Settled' /\ Rest(c)')
PROOF
<1>1. ASSUME rest = <<>> /\ stored'[c] = on
      PROVE  Rest(c)'
  BY <1>1 DEF Rest
<1>2. ASSUME rest = <<"storeOn">> /\ on
      PROVE  Stores(c)'
  BY <1>2 DEF Stores
<1>3. ASSUME rest = <<"storeOff">> /\ ~on
      PROVE  Stores(c)'
  BY <1>3 DEF Stores
<1>4. ASSUME rest = AtSwitch(c, TRUE, <<>>) /\ ~on /\ stored'[c]
      PROVE  Works(c)'
  <2>1. Phase(c, TRUE, <<>>)'
    BY <1>4 DEF Phase
  <2>2. stored'[c] = TRUE
    BY <1>4
  <2>3. Ends(c, TRUE, <<>>)'
    BY <2>2 DEF Ends
  <2>4. <<>> \in Rests(c)
    BY DEF Rests
  <2>. QED
    BY <2>1, <2>3, <2>4, WorksNext
<1>. QED
  BY <1>1, <1>2, <1>3, <1>4 DEF Ends

LEMMA EndsNext ==
  ASSUME NEW c \in Components, NEW on \in BOOLEAN, NEW rest \in Rests(c),
         Ends(c, on, rest), stored'[c] = stored[c]
  PROVE  Ends(c, on, rest)'
  BY DEF Ends

LEMMA SetEnabledNext ==
  ASSUME Types, Controlled, NEW c \in Components, Busy(c), SetEnabled(c)
  PROVE  Controlled' /\ Now(c)' = "stop" /\ Busy(c)'
PROOF
<1>1. Now(c) \in {"enable", "disable"}
  BY DEF SetEnabled
<1>2. PICK on \in BOOLEAN, rest \in Rests(c) : Ends(c, on, rest) /\ Phase(c, on, rest)
  BY <1>1, IsAt
<1>3. rest \in Rows
  BY RestsAre
<1>4. todo[c] = AtSwitch(c, on, rest) /\ Settled /\ Now(c) = IF on THEN "enable" ELSE "disable"
  BY <1>1, <1>2, <1>3, Where
<1>5. /\ todo' = [todo EXCEPT ![c] = AtStop(c, on, rest)]
      /\ Is(AtStop(c, on, rest), "stop", AtStopped(c, on, rest))
  <2>1. /\ Is(AtSwitch(c, on, rest), IF on THEN "enable" ELSE "disable", AtStop(c, on, rest))
        /\ Is(AtStop(c, on, rest), "stop", AtStopped(c, on, rest))
    BY <1>3, Follows
  <2>2. Tail(todo[c]) = AtStop(c, on, rest)
    BY <1>4, <2>1 DEF Is
  <2>. QED
    BY <2>1, <2>2 DEF SetEnabled, Done
<1>6. /\ enabled' = [enabled EXCEPT ![c] = (Now(c) = "enable")]
      /\ stored' = stored /\ radio' = radio /\ wlan_started' = wlan_started
      /\ wlan_ap_active' = wlan_ap_active
  BY DEF SetEnabled, driver
<1>7. (Now(c) = "enable") = on
  BY <1>4
<1>8. enabled'[c] = on /\ (c = "station" => enabled'["ap"] = enabled["ap"])
  BY <1>6, <1>7 DEF Types, Components
<1>9. todo'[c] = AtStop(c, on, rest)
  BY <1>5, TodoNext
<1>10. wlan_started = radio.running /\ wlan_ap_active = enabled["ap"]
  BY <1>4 DEF Settled, Runs
<1>11. Switched(c, on, rest)'
  BY <1>6, <1>9, <1>10 DEF Switched
<1>12. Phase(c, on, rest)'
  BY <1>6, <1>8, <1>10, <1>11 DEF Phase
<1>13. Works(c)'
  BY <1>2, <1>6, <1>12, EndsNext, WorksNext
<1>14. \A d \in Components : d # c => enabled'[d] = enabled[d] /\ stored'[d] = stored[d]
  BY <1>6 DEF Types
<1>. QED
  BY <1>5, <1>9, <1>13, <1>14, ControlledNext DEF Is, Busy, Now

\* A step that is part of a switch, from what it changes.
LEMMA SwitchedNext ==
  ASSUME Types, Controlled, NEW c \in Components, Busy(c),
         NEW on \in BOOLEAN, NEW rest \in Rests(c), Ends(c, on, rest), Switch(c, on),
         NEW t, todo' = [todo EXCEPT ![c] = t],
         enabled' = enabled, stored' = stored, wlan_ap_active' = wlan_ap_active,
         Switched(c, on, rest)'
  PROVE  Controlled'
PROOF
<1>1. Phase(c, on, rest)'
  BY DEF Phase, Switch
<1>2. Works(c)'
  BY <1>1, EndsNext, WorksNext
<1>. QED
  BY <1>2, ControlledNext

LEMMA StopNext_ ==
  ASSUME Types, Controlled, NEW c \in Components, Busy(c), Stop(c)
  PROVE  /\ Controlled' /\ Busy(c)' /\ Now(c)' \in {"stopped", "reconfigure"}
         /\ wlan_started = radio.running
PROOF
<1>1. Now(c) = "stop"
  BY DEF Stop
<1>2. PICK on \in BOOLEAN, rest \in Rests(c) : Ends(c, on, rest) /\ Phase(c, on, rest)
  BY <1>1, IsAt
<1>3. rest \in Rows
  BY RestsAre
<1>4. Switch(c, on) /\ todo[c] = AtStop(c, on, rest) /\ wlan_started = radio.running
  BY <1>1, <1>2, <1>3, Where
<1>5. /\ Is(AtStop(c, on, rest), "stop", AtStopped(c, on, rest))
      /\ Is(AtStopped(c, on, rest), "stopped", AtReconfigure(c, on, rest))
      /\ Is(AtReconfigure(c, on, rest), "reconfigure", AtMode(c, on, rest))
  BY <1>3, Follows
<1>6. /\ enabled' = enabled /\ stored' = stored /\ wlan_started' = wlan_started
      /\ wlan_ap_active' = wlan_ap_active
  BY DEF Stop, switches
<1>7. ASSUME wlan_started
      PROVE  Controlled' /\ Busy(c)' /\ Now(c)' \in {"stopped", "reconfigure"}
  <2>1. esp_wifi_stop /\ todo' = [todo EXCEPT ![c] = AtStopped(c, on, rest)]
    BY <1>4, <1>5, <1>7 DEF Stop, Done, Is
  <2>2. todo'[c] = AtStopped(c, on, rest)
    BY <2>1, TodoNext
  <2>3. ~radio'.running
    BY <2>1 DEF esp_wifi_stop, Down, Types
  <2>4. Switched(c, on, rest)'
    BY <2>2, <2>3 DEF Switched
  <2>. QED
    BY <1>2, <1>4, <1>5, <1>6, <2>1, <2>2, <2>4, SwitchedNext DEF Is, Busy, Now
<1>8. ASSUME ~wlan_started
      PROVE  Controlled' /\ Busy(c)' /\ Now(c)' \in {"stopped", "reconfigure"}
  <2>1. radio' = radio /\ todo' = [todo EXCEPT ![c] = AtReconfigure(c, on, rest)]
    BY <1>4, <1>5, <1>8 DEF Stop, Skip, Is
  <2>2. todo'[c] = AtReconfigure(c, on, rest)
    BY <2>1, TodoNext
  <2>3. ~radio'.running /\ ~wlan_started'
    BY <1>4, <1>6, <1>8, <2>1
  <2>4. Switched(c, on, rest)'
    BY <2>2, <2>3 DEF Switched
  <2>. QED
    BY <1>2, <1>4, <1>5, <1>6, <2>1, <2>2, <2>4, SwitchedNext DEF Is, Busy, Now
<1>. QED
  BY <1>4, <1>7, <1>8

LEMMA SetStartedNext ==
  ASSUME Types, Controlled, NEW c \in Components, Busy(c), SetStarted(c)
  PROVE  Controlled' /\ Busy(c)' /\ Now(c)' \in {"reconfigure", LastStep(c, TRUE), LastStep(c, FALSE)}
PROOF
<1>1. Now(c) \in {"stopped", "started"}
  BY DEF SetStarted
<1>2. PICK on \in BOOLEAN, rest \in Rests(c) : Ends(c, on, rest) /\ Phase(c, on, rest)
  BY <1>1, IsAt
<1>3. rest \in Rows
  BY RestsAre
<1>4. Switch(c, on)
  BY <1>1, <1>2, <1>3, Where
<1>5. /\ enabled' = enabled /\ stored' = stored /\ radio' = radio
      /\ wlan_ap_active' = wlan_ap_active /\ wlan_started' = (Now(c) = "started")
  BY DEF SetStarted, driver
<1>6. Enabled' = Enabled
  BY <1>5 DEF Enabled
<1>7. ASSUME Now(c) = "stopped"
      PROVE  Controlled' /\ Busy(c)' /\ Now(c)' = "reconfigure"
  <2>1. todo[c] = AtStopped(c, on, rest) /\ ~radio.running
    BY <1>2, <1>3, <1>7, Where
  <2>2. /\ Is(AtStopped(c, on, rest), "stopped", AtReconfigure(c, on, rest))
        /\ Is(AtReconfigure(c, on, rest), "reconfigure", AtMode(c, on, rest))
    BY <1>3, Follows
  <2>3. todo' = [todo EXCEPT ![c] = AtReconfigure(c, on, rest)]
    BY <2>1, <2>2 DEF SetStarted, Done, Is
  <2>4. todo'[c] = AtReconfigure(c, on, rest)
    BY <2>3, TodoNext
  <2>5. Switched(c, on, rest)'
    BY <1>5, <1>7, <2>1, <2>4 DEF Switched
  <2>. QED
    BY <1>2, <1>4, <1>5, <2>2, <2>3, <2>4, <2>5, SwitchedNext DEF Is, Busy, Now
<1>8. ASSUME Now(c) = "started"
      PROVE  Controlled' /\ Busy(c)' /\ Now(c)' = LastStep(c, on)
  <2>1. todo[c] = AtStarted(c, on, rest) /\ radio.running /\ Enabled # {} /\ radio.mode = Enabled
    BY <1>2, <1>3, <1>8, Where
  <2>2. /\ Is(AtStarted(c, on, rest), "started", AtEnd(c, on, rest))
        /\ Is(AtEnd(c, on, rest), LastStep(c, on), rest)
    BY <1>3, Follows
  <2>3. todo' = [todo EXCEPT ![c] = AtEnd(c, on, rest)]
    BY <2>1, <2>2 DEF SetStarted, Done, Is
  <2>4. todo'[c] = AtEnd(c, on, rest)
    BY <2>3, TodoNext
  <2>5. wlan_started' = TRUE /\ radio'.running = TRUE
    <3>1. radio.running \in BOOLEAN
      BY DEF Types
    <3>. QED
      BY <1>5, <1>8, <2>1, <3>1
  <2>6. Runs(Enabled)'
    BY <1>5, <1>6, <2>1, <2>5 DEF Runs
  <2>7. Switched(c, on, rest)'
    BY <2>4, <2>6 DEF Switched
  <2>. QED
    BY <1>2, <1>4, <1>5, <2>2, <2>3, <2>4, <2>7, SwitchedNext DEF Is, Busy, Now
<1>. QED
  BY <1>1, <1>7, <1>8

LEMMA ReconfigureNext ==
  ASSUME Types, Controlled, NEW c \in Components, Busy(c), Reconfigure(c)
  PROVE  Controlled' /\ Busy(c)' /\ Now(c)' \in {"setMode", "start"}
PROOF
<1>1. Now(c) = "reconfigure"
  BY DEF Reconfigure
<1>2. PICK on \in BOOLEAN, rest \in Rests(c) : Ends(c, on, rest) /\ Phase(c, on, rest)
  BY <1>1, IsAt
<1>3. rest \in Rows
  BY RestsAre
<1>4. Switch(c, on) /\ todo[c] = AtReconfigure(c, on, rest) /\ ~radio.running /\ ~wlan_started
  BY <1>1, <1>2, <1>3, Where
<1>5. /\ Is(AtReconfigure(c, on, rest), "reconfigure", AtMode(c, on, rest))
      /\ Is(AtMode(c, on, rest), "setMode", AfterMode(c, on, rest))
      /\ Is(AtStart(c, on, rest), "start", AtStarted(c, on, rest))
  BY <1>3, Follows
<1>6. /\ enabled' = enabled /\ stored' = stored /\ wlan_started' = wlan_started
      /\ wlan_ap_active' = wlan_ap_active /\ radio' = radio
  BY DEF Reconfigure, switches, driver
<1>7. Enabled' = Enabled
  BY <1>6 DEF Enabled
<1>8. ASSUME Enabled # {}
      PROVE  Controlled' /\ Busy(c)' /\ Now(c)' \in {"setMode", "start"}
  <2>1. mode' = [mode EXCEPT ![c] = Enabled] /\ todo' = [todo EXCEPT ![c] = AtMode(c, on, rest)]
    BY <1>4, <1>5, <1>8 DEF Reconfigure, Done, Is
  <2>2. todo'[c] = AtMode(c, on, rest)
    BY <2>1, TodoNext
  <2>3. mode'[c] = Enabled
    BY <2>1 DEF Types
  <2>4. Switched(c, on, rest)'
    BY <1>4, <1>6, <1>7, <1>8, <2>2, <2>3 DEF Switched
  <2>. QED
    BY <1>2, <1>4, <1>5, <1>6, <2>1, <2>2, <2>4, SwitchedNext DEF Is, Busy, Now
<1>9. ASSUME Enabled = {}
      PROVE  Controlled' /\ Busy(c)' /\ Now(c)' \in {"setMode", "start"}
  <2>1. ~on
    BY <1>4, <1>9 DEF Switch, Enabled
  <2>2. AfterMode(c, on, rest) = AtStart(c, on, rest)
    BY <2>1 DEF AfterMode
  <2>3. todo' = [todo EXCEPT ![c] = AtStart(c, on, rest)]
    BY <1>4, <1>5, <1>9, <2>2 DEF Reconfigure, Skip, Is
  <2>4. todo'[c] = AtStart(c, on, rest)
    BY <2>3, TodoNext
  <2>5. Switched(c, on, rest)'
    BY <1>4, <1>6, <1>7, <1>9, <2>4 DEF Switched
  <2>. QED
    BY <1>2, <1>4, <1>5, <1>6, <2>3, <2>4, <2>5, SwitchedNext DEF Is, Busy, Now
<1>. QED
  BY <1>8, <1>9

LEMMA SetModeNext ==
  ASSUME Types, Controlled, NEW c \in Components, Busy(c), SetMode(c)
  PROVE  /\ Controlled' /\ Busy(c)' /\ Now(c)' \in {"setConfig", "start"}
         /\ ~radio.running /\ mode[c] \subseteq Components
PROOF
<1>1. Now(c) = "setMode"
  BY DEF SetMode
<1>2. PICK on \in BOOLEAN, rest \in Rests(c) : Ends(c, on, rest) /\ Phase(c, on, rest)
  BY <1>1, IsAt
<1>3. rest \in Rows
  BY RestsAre
<1>4. /\ Switch(c, on) /\ todo[c] = AtMode(c, on, rest) /\ ~radio.running /\ ~wlan_started
      /\ mode[c] = Enabled
  BY <1>1, <1>2, <1>3, Where
<1>5. /\ Is(AtMode(c, on, rest), "setMode", AfterMode(c, on, rest))
      /\ Is(AtConfig(c, on, rest), "setConfig", AtStart(c, on, rest))
      /\ Is(AtStart(c, on, rest), "start", AtStarted(c, on, rest))
  BY <1>3, Follows
<1>6. /\ enabled' = enabled /\ stored' = stored /\ wlan_started' = wlan_started
      /\ wlan_ap_active' = wlan_ap_active
  BY DEF SetMode, switches
<1>7. Enabled' = Enabled
  BY <1>6 DEF Enabled
<1>8. todo' = [todo EXCEPT ![c] = AfterMode(c, on, rest)]
  BY <1>4, <1>5 DEF SetMode, Done, Is
<1>9. todo'[c] = AfterMode(c, on, rest)
  BY <1>8, TodoNext
<1>10. radio'.running = radio.running /\ radio'.mode = Enabled
  BY <1>4 DEF SetMode, esp_wifi_set_mode, Down, Types
<1>11. ASSUME on
       PROVE  Switched(c, on, rest)' /\ Busy(c)' /\ Now(c)' \in {"setConfig", "start"}
  <2>1. todo'[c] = AtConfig(c, on, rest)
    BY <1>9, <1>11 DEF AfterMode
  <2>. QED
    BY <1>4, <1>5, <1>6, <1>7, <1>10, <1>11, <2>1 DEF Switched, Is, Busy, Now
<1>12. ASSUME ~on
       PROVE  Switched(c, on, rest)' /\ Busy(c)' /\ Now(c)' \in {"setConfig", "start"}
  <2>1. todo'[c] = AtStart(c, on, rest)
    BY <1>9, <1>12 DEF AfterMode
  <2>. QED
    BY <1>4, <1>5, <1>6, <1>7, <1>10, <2>1 DEF Switched, Is, Busy, Now
<1>13. mode[c] \subseteq Components
  BY <1>4 DEF Enabled
<1>. QED
  BY <1>2, <1>4, <1>6, <1>8, <1>11, <1>12, <1>13, SwitchedNext

LEMMA SetConfigNext ==
  ASSUME Types, Controlled, NEW c \in Components, Busy(c), SetConfig(c)
  PROVE  Controlled' /\ Busy(c)' /\ Now(c)' = "start" /\ aborted' = FALSE
PROOF
<1>1. Now(c) = "setConfig"
  BY DEF SetConfig
<1>2. PICK on \in BOOLEAN, rest \in Rests(c) : Ends(c, on, rest) /\ Phase(c, on, rest)
  BY <1>1, IsAt
<1>3. rest \in Rows
  BY RestsAre
<1>4. /\ Switch(c, on) /\ todo[c] = AtConfig(c, on, rest) /\ ~radio.running /\ ~wlan_started
      /\ radio.mode = Enabled /\ on
  BY <1>1, <1>2, <1>3, Where
<1>5. /\ Is(AtConfig(c, on, rest), "setConfig", AtStart(c, on, rest))
      /\ Is(AtStart(c, on, rest), "start", AtStarted(c, on, rest))
  BY <1>3, Follows
<1>6. /\ enabled' = enabled /\ stored' = stored /\ wlan_started' = wlan_started
      /\ wlan_ap_active' = wlan_ap_active /\ radio' = radio
  BY DEF SetConfig, switches
<1>7. Enabled' = Enabled
  BY <1>6 DEF Enabled
<1>8. todo' = [todo EXCEPT ![c] = AtStart(c, on, rest)]
  BY <1>4, <1>5 DEF SetConfig, Done, Is
<1>9. todo'[c] = AtStart(c, on, rest)
  BY <1>8, TodoNext
<1>10. Switched(c, on, rest)'
  BY <1>4, <1>6, <1>7, <1>9 DEF Switched
<1>11. c \in radio.mode
  BY <1>4 DEF Switch, Enabled
<1>. QED
  BY <1>2, <1>4, <1>5, <1>6, <1>8, <1>9, <1>10, <1>11, SwitchedNext
     DEF SetConfig, Is, Busy, Now

LEMMA StartNext ==
  ASSUME Types, Controlled, NEW c \in Components, Busy(c), Start(c)
  PROVE  /\ Controlled' /\ Busy(c)' /\ ~radio.running
         /\ Now(c)' \in {"started", LastStep(c, TRUE), LastStep(c, FALSE)}
PROOF
<1>1. Now(c) = "start"
  BY DEF Start
<1>2. PICK on \in BOOLEAN, rest \in Rests(c) : Ends(c, on, rest) /\ Phase(c, on, rest)
  BY <1>1, IsAt
<1>3. rest \in Rows
  BY RestsAre
<1>4. /\ Switch(c, on) /\ todo[c] = AtStart(c, on, rest) /\ ~radio.running /\ ~wlan_started
      /\ Enabled # {} => radio.mode = Enabled
  BY <1>1, <1>2, <1>3, Where
<1>5. /\ Is(AtStart(c, on, rest), "start", AtStarted(c, on, rest))
      /\ Is(AtStarted(c, on, rest), "started", AtEnd(c, on, rest))
      /\ Is(AtEnd(c, on, rest), LastStep(c, on), rest)
  BY <1>3, Follows
<1>6. /\ enabled' = enabled /\ stored' = stored /\ wlan_started' = wlan_started
      /\ wlan_ap_active' = wlan_ap_active
  BY DEF Start, switches
<1>7. Enabled' = Enabled
  BY <1>6 DEF Enabled
<1>8. ASSUME Enabled # {}
      PROVE  Controlled' /\ Busy(c)' /\ Now(c)' = "started"
  <2>1. /\ radio' = [radio EXCEPT !.running = TRUE]
        /\ todo' = [todo EXCEPT ![c] = AtStarted(c, on, rest)]
    BY <1>4, <1>5, <1>8 DEF Start, Done, Is
  <2>2. todo'[c] = AtStarted(c, on, rest)
    BY <2>1, TodoNext
  <2>3. radio'.running /\ radio'.mode = radio.mode
    BY <2>1 DEF Types
  <2>4. Switched(c, on, rest)'
    BY <1>4, <1>7, <1>8, <2>2, <2>3 DEF Switched
  <2>. QED
    BY <1>2, <1>4, <1>5, <1>6, <2>1, <2>2, <2>4, SwitchedNext DEF Is, Busy, Now
<1>9. ASSUME Enabled = {}
      PROVE  Controlled' /\ Busy(c)' /\ Now(c)' = LastStep(c, on)
  <2>1. radio' = radio /\ todo' = [todo EXCEPT ![c] = AtEnd(c, on, rest)]
    BY <1>4, <1>5, <1>9 DEF Start, Skip, Is
  <2>2. todo'[c] = AtEnd(c, on, rest)
    BY <2>1, TodoNext
  <2>3. radio.running = FALSE /\ wlan_started = FALSE
    BY <1>4 DEF Types
  <2>4. Runs(Enabled)'
    BY <1>6, <1>7, <1>9, <2>1, <2>3 DEF Runs
  <2>5. Switched(c, on, rest)'
    BY <2>2, <2>4 DEF Switched
  <2>. QED
    BY <1>2, <1>4, <1>5, <1>6, <2>1, <2>2, <2>5, SwitchedNext DEF Is, Busy, Now
<1>. QED
  BY <1>4, <1>8, <1>9

\* The last step of a switch.
LEMMA LastNext ==
  ASSUME Types, Controlled, NEW c \in Components, Busy(c), Now(c) = LastStep(c, enabled[c]),
         Now(c) \in {"active", "inactive", "scan", "scanEnded"}, Done(c),
         enabled' = enabled, stored' = stored, radio' = radio, wlan_started' = wlan_started,
         wlan_ap_active' = enabled["ap"]
  PROVE  Controlled'
PROOF
<1>1. PICK on \in BOOLEAN, rest \in Rests(c) : Ends(c, on, rest) /\ Phase(c, on, rest)
  BY IsAt
<1>2. rest \in Rows
  BY RestsAre
<1>3. Switch(c, on) /\ todo[c] = AtEnd(c, on, rest) /\ Runs(Enabled)
  BY <1>1, <1>2, Where
<1>4. Is(AtEnd(c, on, rest), LastStep(c, on), rest)
  BY <1>2, Follows
<1>5. todo' = [todo EXCEPT ![c] = rest]
  BY <1>3, <1>4 DEF Done, Is
<1>6. todo'[c] = rest
  BY <1>5, TodoNext
<1>7. Enabled' = Enabled
  BY DEF Enabled
<1>8. Settled'
  BY <1>3, <1>7 DEF Settled, Runs
<1>9. stored'[c] \in BOOLEAN
  BY DEF Types
<1>10. enabled'[c] = on
  BY <1>3 DEF Switch
<1>11. Works(c)' \/ Stores(c)' \/ (Settled' /\ Rest(c)')
  BY <1>1, <1>6, <1>8, <1>9, <1>10, EndsNext, FinishNext
<1>. QED
  BY <1>5, <1>11, ControlledNext

\* What is next after the last step of a switch.
LEMMA IsLast ==
  ASSUME Controlled, NEW c \in Components, Busy(c),
         Now(c) \in {"active", "inactive", "scan", "scanEnded"}
  PROVE  /\ Now(c) = LastStep(c, enabled[c]) /\ Runs(Enabled)
         /\ c = "station" => wlan_ap_active = enabled["ap"]
PROOF
<1>1. PICK on \in BOOLEAN, rest \in Rests(c) : Ends(c, on, rest) /\ Phase(c, on, rest)
  BY IsAt
<1>2. rest \in Rows
  BY RestsAre
<1>. QED
  BY <1>1, <1>2, Where DEF Switch

LEMMA SetActiveNext ==
  ASSUME Types, Controlled, Busy("ap"), SetActive
  PROVE  Controlled'
PROOF
<1>1. "ap" \in Components
  BY DEF Components
<1>2. Now("ap") \in {"active", "inactive"}
  BY DEF SetActive
<1>3. Now("ap") = LastStep("ap", enabled["ap"]) /\ Runs(Enabled)
  BY <1>1, <1>2, IsLast
<1>4. enabled["ap"] \in BOOLEAN /\ wlan_started \in BOOLEAN
  BY <1>1 DEF Types
<1>5. enabled["ap"] => wlan_started
  BY <1>1, <1>3 DEF Runs, Enabled
<1>6. wlan_ap_active' = (Now("ap") = "active" /\ wlan_started)
  BY DEF SetActive
<1>7. (Now("ap") = "active") = enabled["ap"]
  BY <1>3, <1>4 DEF LastStep
<1>8. wlan_ap_active' = enabled["ap"]
  BY <1>4, <1>5, <1>6, <1>7
<1>. QED
  BY <1>1, <1>2, <1>3, <1>8, LastNext DEF SetActive, driver

LEMMA EndScanNext ==
  ASSUME Types, Controlled, Busy("station"), EndScan
  PROVE  Controlled' /\ (enabled["station"] => Now("station") = "scan")
PROOF
<1>1. "station" \in Components
  BY DEF Components
<1>2. Now("station") \in {"scan", "scanEnded"}
  BY DEF EndScan
<1>3. /\ Now("station") = LastStep("station", enabled["station"])
      /\ wlan_ap_active = enabled["ap"]
  BY <1>1, <1>2, IsLast
<1>. QED
  BY <1>1, <1>2, <1>3, LastNext DEF EndScan, driver, switches, LastStep

LEMMA StoreNext ==
  ASSUME Types, Controlled, NEW c \in Components, Busy(c), Store(c)
  PROVE  Controlled' /\ todo'[c] = <<>> /\ Settled
PROOF
<1>1. Now(c) \in {"storeOn", "storeOff"}
  BY DEF Store
<1>2. ~Works(c)
  <2>1. SUFFICES ASSUME NEW on \in BOOLEAN, NEW rest \in Rests(c), Phase(c, on, rest)
                 PROVE  FALSE
    BY DEF Works
  <2>. QED
    BY <1>1, <2>1, Where, RestsAre
<1>3. Stores(c)
  BY <1>2, OneWorks
<1>4. todo' = [todo EXCEPT ![c] = <<>>]
  BY <1>3, WhereStores DEF Store, Done
<1>5. todo'[c] = <<>>
  BY <1>4, TodoNext
<1>6. enabled[c] \in BOOLEAN /\ (Now(c) = "storeOn") = enabled[c]
  BY <1>3, WhereStores DEF Types
<1>7. stored' = [stored EXCEPT ![c] = enabled[c]] /\ enabled' = enabled
  BY <1>6 DEF Store, switches
<1>8. Rest(c)'
  BY <1>5, <1>7 DEF Rest, Types
<1>9. Enabled' = Enabled
  BY <1>7 DEF Enabled
<1>10. Settled'
  BY <1>3, <1>7, <1>9 DEF Stores, Settled, Runs, Store, switches, driver
<1>11. \A d \in Components : d # c => enabled'[d] = enabled[d] /\ stored'[d] = stored[d]
  BY <1>7 DEF Types
<1>. QED
  BY <1>3, <1>4, <1>5, <1>8, <1>10, <1>11, ControlledNext DEF Stores

\* An operation begins with a switch.
LEMMA CallNext ==
  ASSUME Types, Controlled, Idle, NEW task, NEW c \in Components,
         NEW on \in BOOLEAN, NEW rest \in Rests(c), Ends(c, on, rest),
         Call(task, c, AtSwitch(c, on, rest))
  PROVE  Controlled' /\ Busy(c)' /\ Now(c)' \in {"enable", "disable"}
PROOF
<1>1. Settled /\ \A d \in Components : Rest(d)
  BY NoneWorks
<1>2. /\ todo' = [todo EXCEPT ![c] = AtSwitch(c, on, rest)]
      /\ enabled' = enabled /\ stored' = stored /\ wlan_started' = wlan_started
      /\ wlan_ap_active' = wlan_ap_active /\ radio' = radio
  BY DEF Call, switches, driver
<1>3. todo'[c] = AtSwitch(c, on, rest)
  BY <1>2, TodoNext
<1>4. Settled'
  BY <1>1, <1>2 DEF Settled, Runs, Enabled
<1>5. Works(c)'
  BY <1>2, <1>3, <1>4, EndsNext, WorksNext DEF Phase
<1>6. \A d \in Components : d # c => Rest(d)'
  BY <1>1, <1>2 DEF Rest, Types
<1>7. \E d \in Components : d # c
  BY DEF Components
<1>8. Is(AtSwitch(c, on, rest), IF on THEN "enable" ELSE "disable", AtStop(c, on, rest))
  BY RestsAre, Follows
<1>9. (IF on THEN "enable" ELSE "disable") \in {"enable", "disable"}
  OBVIOUS
<1>. QED
  BY <1>3, <1>5, <1>6, <1>7, <1>8, <1>9 DEF Controlled, Is, Busy, Now

LEMMA RestsHold ==
  ASSUME NEW c \in Components
  PROVE  /\ <<"storeOn">> \in Rests(c) /\ <<"storeOff">> \in Rests(c)
         /\ AtSwitch(c, TRUE, <<>>) \in Rests(c)
  BY DEF Rests

LEMMA CallsAp ==
  ASSUME Types, Controlled, Callers = 1, wlan_ap_endisable \/ restart_ap
  PROVE  Controlled'
PROOF
<1>. DEFINE c == "ap"
<1>1. c \in Components
  BY DEF Components
<1>2. Idle
  BY DEF wlan_ap_endisable, restart_ap, Call, Free
<1>3. Settled /\ Rest(c) /\ wlan_ap_active = enabled["ap"]
  BY <1>1, <1>2, NoneWorks DEF Settled
<1>4. <<"storeOn">> \in Rows /\ <<"storeOff">> \in Rows /\ <<>> \in Rows
  BY RowIs, StepsAre
<1>5. ASSUME wlan_ap_endisable, enabled["ap"]
      PROVE  Controlled'
  <2>1. Call("buttons", c, Join(disable_ap_, <<"storeOff">>))
    BY <1>3, <1>5 DEF wlan_ap_endisable, Join
  <2>2. Call("buttons", c, AtSwitch(c, FALSE, <<"storeOff">>))
    BY <1>4, <2>1, SwitchesOff
  <2>3. Ends(c, FALSE, <<"storeOff">>)
    BY DEF Ends
  <2>. QED
    BY <1>1, <1>2, <2>2, <2>3, RestsHold, CallNext
<1>6. ASSUME wlan_ap_endisable, ~enabled["ap"]
      PROVE  Controlled'
  <2>1. Call("buttons", c, Join(enable_ap_, <<"storeOn">>))
    BY <1>3, <1>6 DEF wlan_ap_endisable, Join
  <2>2. Call("buttons", c, AtSwitch(c, TRUE, <<"storeOn">>))
    BY <1>4, <2>1, SwitchesOn
  <2>3. Ends(c, TRUE, <<"storeOn">>)
    BY DEF Ends
  <2>. QED
    BY <1>1, <1>2, <2>2, <2>3, RestsHold, CallNext
<1>7. ASSUME restart_ap
      PROVE  Controlled'
  <2>1. wlan_ap_active /\ \E task \in Tasks : Call(task, c, Join(disable_ap_, enable_ap_))
    BY <1>7 DEF restart_ap, Join
  <2>2. Join(enable_ap_, <<>>) = enable_ap_
    BY <1>4, SwitchesOn, JoinIs
  <2>3. enable_ap_ = AtSwitch(c, TRUE, <<>>) /\ enable_ap_ \in Rows
    BY <1>4, <2>2, SwitchesOn
  <2>4. PICK task \in Tasks : Call(task, c, AtSwitch(c, FALSE, enable_ap_))
    BY <2>1, <2>3, SwitchesOff
  <2>5. Call(task, c, AtSwitch(c, FALSE, AtSwitch(c, TRUE, <<>>)))
    BY <2>3, <2>4
  <2>6. stored[c]
    BY <1>3, <2>1 DEF Rest
  <2>7. Ends(c, FALSE, AtSwitch(c, TRUE, <<>>))
    BY <2>6 DEF Ends
  <2>. QED
    BY <1>1, <1>2, <2>5, <2>7, RestsHold, CallNext
<1>. QED
  BY <1>5, <1>6, <1>7

LEMMA CallsStation ==
  ASSUME Types, Controlled, Callers = 1, wlan_station_endisable \/ wlan_station_reconfigure_
  PROVE  Controlled' /\ Busy("station")' /\ Now("station")' \in {"enable", "disable"}
PROOF
<1>. DEFINE c == "station"
<1>1. c \in Components
  BY DEF Components
<1>2. Idle
  BY DEF wlan_station_endisable, wlan_station_reconfigure_, Call, Free
<1>3. Rest(c)
  BY <1>1, <1>2, NoneWorks
<1>4. <<"storeOn">> \in Rows /\ <<"storeOff">> \in Rows /\ <<>> \in Rows
  BY RowIs, StepsAre
<1>5. ASSUME wlan_station_endisable, enabled["station"]
      PROVE  Controlled' /\ Busy(c)' /\ Now(c)' \in {"enable", "disable"}
  <2>1. Call("buttons", c, Join(wlan_station_disable_, <<"storeOff">>))
    BY <1>5 DEF wlan_station_endisable, Join
  <2>2. Call("buttons", c, AtSwitch(c, FALSE, <<"storeOff">>))
    BY <1>4, <1>5, <2>1, SwitchesOff
  <2>3. Ends(c, FALSE, <<"storeOff">>)
    BY DEF Ends
  <2>. QED
    BY <1>1, <1>2, <2>2, <2>3, RestsHold, CallNext
<1>6. ASSUME wlan_station_endisable, ~enabled["station"]
      PROVE  Controlled' /\ Busy(c)' /\ Now(c)' \in {"enable", "disable"}
  <2>1. Call("buttons", c, Join(wlan_station_enable_, <<"storeOn">>))
    BY <1>6 DEF wlan_station_endisable, Join
  <2>2. Call("buttons", c, AtSwitch(c, TRUE, <<"storeOn">>))
    BY <1>4, <2>1, SwitchesOn
  <2>3. Ends(c, TRUE, <<"storeOn">>)
    BY DEF Ends
  <2>. QED
    BY <1>1, <1>2, <2>2, <2>3, RestsHold, CallNext
<1>7. ASSUME wlan_station_reconfigure_
      PROVE  Controlled' /\ Busy(c)' /\ Now(c)' \in {"enable", "disable"}
  <2>1. Call("http", c, Join(wlan_station_disable_, wlan_station_enable_)) /\ enabled["station"]
    BY <1>7 DEF wlan_station_reconfigure_, Join
  <2>2. Join(wlan_station_enable_, <<>>) = wlan_station_enable_
    BY <1>4, SwitchesOn, JoinIs
  <2>3. /\ wlan_station_enable_ = AtSwitch(c, TRUE, <<>>)
        /\ wlan_station_enable_ \in Rows
    BY <1>4, <2>2, SwitchesOn
  <2>4. Call("http", c, AtSwitch(c, FALSE, wlan_station_enable_))
    BY <2>1, <2>3, SwitchesOff
  <2>5. Call("http", c, AtSwitch(c, FALSE, AtSwitch(c, TRUE, <<>>)))
    BY <2>3, <2>4
  <2>6. stored[c]
    BY <1>3, <2>1 DEF Rest
  <2>7. Ends(c, FALSE, AtSwitch(c, TRUE, <<>>))
    BY <2>6 DEF Ends
  <2>. QED
    BY <1>1, <1>2, <2>5, <2>7, RestsHold, CallNext
<1>. QED
  BY <1>5, <1>6, <1>7

\* What else happens does not concern the operations.
LEMMA ControlledKept ==
  ASSUME Controlled, UNCHANGED <<enabled, wlan_started, wlan_ap_active, stored, todo, mode>>,
         radio'.running = radio.running, radio'.mode = radio.mode
  PROVE  Controlled'
PROOF
<1>1. Enabled' = Enabled
  BY DEF Enabled
<1>2. Settled => Settled'
  BY <1>1 DEF Settled, Runs
<1>3. \A c \in Components : Rest(c) => Rest(c)'
  BY DEF Rest
<1>4. \A c \in Components : Stores(c) => Stores(c)'
  BY <1>2 DEF Stores
<1>5. ASSUME NEW c \in Components, Works(c)
      PROVE  Works(c)'
  <2>1. PICK on \in BOOLEAN, rest \in Rests(c) : Ends(c, on, rest) /\ Phase(c, on, rest)
    BY <1>5 DEF Works
  <2>2. Switched(c, on, rest) => Switched(c, on, rest)'
    BY <1>1 DEF Switched, Runs
  <2>3. Phase(c, on, rest)'
    BY <1>2, <2>1, <2>2 DEF Phase
  <2>. QED
    BY <2>1, <2>3, EndsNext, WorksNext
<1>. QED
  BY <1>2, <1>3, <1>4, <1>5 DEF Controlled

-------------------------------------------------------------------------------
(* What the driver has reported.                                            *)

LEMMA ReportsAppended ==
  ASSUME NEW s \in Seq(Reports), NEW e \in Reports
  PROVE  /\ Append(s, e) \in Seq(Reports) /\ Append(s, e) # <<>>
         /\ e \notin LinkEvents =>
              /\ NoLinkEvent(s) => NoLinkEvent(Append(s, e))
              /\ \A f : LastLinkEvent(s, f) => LastLinkEvent(Append(s, e), f)
         /\ LastLinkEvent(Append(s, e), e)
         /\ ScanReported(s) \/ e = "scanDone" => ScanReported(Append(s, e))
PROOF
<1>. DEFINE r == Append(s, e)
<1>1. /\ r \in Seq(Reports) /\ Len(r) = Len(s) + 1 /\ Len(s) \in Nat
      /\ r[Len(s) + 1] = e /\ \A k \in 1..Len(s) : r[k] = s[k]
  OBVIOUS
<1>. HIDE DEF r
<1>2. r # <<>>
  BY <1>1
<1>3. ASSUME e \notin LinkEvents, NoLinkEvent(s)
      PROVE  NoLinkEvent(r)
  BY <1>1, <1>3 DEF NoLinkEvent
<1>4. ASSUME e \notin LinkEvents, NEW f, LastLinkEvent(s, f)
      PROVE  LastLinkEvent(r, f)
  <2>1. PICK k \in 1..Len(s) : s[k] = f /\ \A j \in k + 1..Len(s) : s[j] \notin LinkEvents
    BY <1>4 DEF LastLinkEvent
  <2>2. k \in 1..Len(r) /\ r[k] = f
    BY <1>1, <2>1
  <2>3. \A j \in k + 1..Len(r) : r[j] \notin LinkEvents
    BY <1>1, <1>4, <2>1
  <2>. QED
    BY <2>2, <2>3 DEF LastLinkEvent
<1>5. LastLinkEvent(r, e)
  <2>1. Len(r) \in 1..Len(r) /\ r[Len(r)] = e /\ (Len(r) + 1)..Len(r) = {}
    BY <1>1
  <2>. QED
    BY <2>1 DEF LastLinkEvent
<1>6. ScanReported(s) \/ e = "scanDone" => ScanReported(r)
  BY <1>1 DEF ScanReported
<1>. QED
  BY <1>1, <1>2, <1>3, <1>4, <1>5, <1>6 DEF r

LEMMA ReportsJoined ==
  ASSUME NEW s \in Seq(Reports), NEW t \in Seq(Reports)
  PROVE  /\ s \o t \in Seq(Reports)
         /\ s \o t = <<>> => s = <<>> /\ t = <<>>
         /\ NoLinkEvent(t) =>
              /\ NoLinkEvent(s) => NoLinkEvent(s \o t)
              /\ \A f : LastLinkEvent(s, f) => LastLinkEvent(s \o t, f)
         /\ \A f : LastLinkEvent(t, f) => LastLinkEvent(s \o t, f)
         /\ ScanReported(s) \/ ScanReported(t) => ScanReported(s \o t)
PROOF
<1>. DEFINE r == s \o t
<1>1. /\ r \in Seq(Reports) /\ Len(r) = Len(s) + Len(t) /\ Len(s) \in Nat /\ Len(t) \in Nat
      /\ \A k \in 1..Len(s) + Len(t) : r[k] = IF k <= Len(s) THEN s[k] ELSE t[k - Len(s)]
  BY ConcatProperties
<1>. HIDE DEF r
<1>2. r = <<>> => s = <<>> /\ t = <<>>
  BY <1>1
<1>3. /\ \A k \in 1..Len(s) : k \in 1..Len(r) /\ r[k] = s[k]
      /\ \A k \in 1..Len(t) : k + Len(s) \in 1..Len(r) /\ r[k + Len(s)] = t[k]
      /\ \A j \in Len(s) + 1..Len(r) : j - Len(s) \in 1..Len(t) /\ r[j] = t[j - Len(s)]
  <2>1. \A k \in 1..Len(t) : k + Len(s) - Len(s) = k /\ ~(k + Len(s) <= Len(s))
    BY <1>1
  <2>. QED
    BY <1>1, <2>1
<1>4. ASSUME NoLinkEvent(t), NoLinkEvent(s)
      PROVE  NoLinkEvent(r)
  <2>1. ASSUME NEW k \in 1..Len(r)
        PROVE  r[k] \notin LinkEvents
    <3>1. k \in 1..Len(s) \/ k \in Len(s) + 1..Len(r)
      BY <1>1
    <3>. QED
      BY <1>3, <1>4, <3>1 DEF NoLinkEvent
  <2>. QED
    BY <2>1 DEF NoLinkEvent
<1>5. ASSUME NoLinkEvent(t), NEW f, LastLinkEvent(s, f)
      PROVE  LastLinkEvent(r, f)
  <2>1. PICK k \in 1..Len(s) : s[k] = f /\ \A j \in k + 1..Len(s) : s[j] \notin LinkEvents
    BY <1>5 DEF LastLinkEvent
  <2>2. ASSUME NEW j \in k + 1..Len(r)
        PROVE  r[j] \notin LinkEvents
    <3>1. (j \in k + 1..Len(s) /\ j \in 1..Len(s)) \/ j \in Len(s) + 1..Len(r)
      BY <1>1
    <3>. QED
      BY <1>3, <1>5, <2>1, <3>1 DEF NoLinkEvent
  <2>3. k \in 1..Len(r) /\ r[k] = f
    BY <1>3, <2>1
  <2>. QED
    BY <2>2, <2>3 DEF LastLinkEvent
<1>6. ASSUME NEW f, LastLinkEvent(t, f)
      PROVE  LastLinkEvent(r, f)
  <2>1. PICK k \in 1..Len(t) : t[k] = f /\ \A j \in k + 1..Len(t) : t[j] \notin LinkEvents
    BY <1>6 DEF LastLinkEvent
  <2>2. ASSUME NEW j \in k + Len(s) + 1..Len(r)
        PROVE  r[j] \notin LinkEvents
    <3>1. j \in Len(s) + 1..Len(r) /\ j - Len(s) \in k + 1..Len(t)
      BY <1>1
    <3>. QED
      BY <1>3, <2>1, <3>1
  <2>3. k + Len(s) \in 1..Len(r) /\ r[k + Len(s)] = f
    BY <1>3, <2>1
  <2>. QED
    BY <2>2, <2>3 DEF LastLinkEvent
<1>7. ScanReported(s) \/ ScanReported(t) => ScanReported(r)
  BY <1>1, <1>3 DEF ScanReported
<1>. QED
  BY <1>1, <1>2, <1>4, <1>5, <1>6, <1>7 DEF r

LEMMA ReportsHandled ==
  ASSUME NEW s \in Seq(Reports), s # <<>>
  PROVE  /\ Tail(s) \in Seq(Reports)
         /\ NoLinkEvent(s) => NoLinkEvent(Tail(s)) /\ Head(s) \notin LinkEvents
         /\ \A f : LastLinkEvent(s, f) =>
                     LastLinkEvent(Tail(s), f) \/ (Head(s) = f /\ NoLinkEvent(Tail(s)))
         /\ ScanReported(s) => ScanReported(Tail(s)) \/ Head(s) = "scanDone"
PROOF
<1>. DEFINE r == Tail(s)
<1>1. /\ r \in Seq(Reports) /\ Len(s) = Len(r) + 1 /\ Len(r) \in Nat /\ Head(s) = s[1]
      /\ \A k \in 1..Len(r) : r[k] = s[k + 1]
  OBVIOUS
<1>. HIDE DEF r
<1>2. NoLinkEvent(s) => NoLinkEvent(r) /\ Head(s) \notin LinkEvents
  BY <1>1 DEF NoLinkEvent
<1>3. ASSUME NEW f, LastLinkEvent(s, f)
      PROVE  LastLinkEvent(r, f) \/ (Head(s) = f /\ NoLinkEvent(r))
  <2>1. PICK k \in 1..Len(s) : s[k] = f /\ \A j \in k + 1..Len(s) : s[j] \notin LinkEvents
    BY <1>3 DEF LastLinkEvent
  <2>2. ASSUME k = 1
        PROVE  Head(s) = f /\ NoLinkEvent(r)
    BY <1>1, <2>1, <2>2 DEF NoLinkEvent
  <2>3. ASSUME k # 1
        PROVE  LastLinkEvent(r, f)
    <3>1. k - 1 \in 1..Len(r) /\ k - 1 + 1 = k
      BY <1>1, <2>3
    <3>2. r[k - 1] = f
      BY <1>1, <2>1, <3>1
    <3>3. ASSUME NEW j \in k - 1 + 1..Len(r)
          PROVE  r[j] \notin LinkEvents
      <4>1. j \in 1..Len(r) /\ j + 1 \in k + 1..Len(s)
        BY <1>1, <2>1
      <4>. QED
        BY <1>1, <2>1, <4>1
    <3>. QED
      BY <3>1, <3>2, <3>3 DEF LastLinkEvent
  <2>. QED
    BY <2>2, <2>3
<1>4. ScanReported(s) => ScanReported(r) \/ Head(s) = "scanDone"
  <2>1. SUFFICES ASSUME NEW k \in 1..Len(s), s[k] = "scanDone", k # 1
                 PROVE  ScanReported(r)
    BY <1>1 DEF ScanReported
  <2>2. k - 1 \in 1..Len(r) /\ k - 1 + 1 = k
    BY <1>1, <2>1
  <2>. QED
    BY <1>1, <2>1, <2>2 DEF ScanReported
<1>. QED
  BY <1>1, <1>2, <1>3, <1>4 DEF r

LEMMA NothingReported ==
  NoLinkEvent(<<>>) /\ (\A f : ~LastLinkEvent(<<>>, f)) /\ ~ScanReported(<<>>)
  BY DEF NoLinkEvent, LastLinkEvent, ScanReported

LEMMA LostReports ==
  ASSUME Types
  PROVE  /\ Lost \in Seq(Reports)
         /\ radio.link = "down" => NoLinkEvent(Lost)
         /\ radio.link # "down" => LastLinkEvent(Lost, "disconnected")
         /\ radio.scanning => ScanReported(Lost)
PROOF
<1>. DEFINE s == IF radio.link = "down" THEN <<>> ELSE <<"disconnected">>
            t == IF radio.scanning THEN <<"scanDone">> ELSE <<>>
<1>1. /\ <<>> \in Seq(Reports) /\ <<"disconnected">> \in Seq(Reports)
      /\ <<"scanDone">> \in Seq(Reports)
  BY DEF Reports, LinkEvents
<1>2. s \in Seq(Reports) /\ t \in Seq(Reports)
  BY <1>1
<1>3. LastLinkEvent(<<"disconnected">>, "disconnected")
  BY DEF LastLinkEvent
<1>4. NoLinkEvent(<<"scanDone">>) /\ ScanReported(<<"scanDone">>)
  BY DEF NoLinkEvent, LinkEvents, ScanReported
<1>5. NoLinkEvent(t) /\ (radio.scanning => ScanReported(t))
  BY <1>4, NothingReported
<1>6. /\ radio.link = "down" => NoLinkEvent(s)
      /\ radio.link # "down" => LastLinkEvent(s, "disconnected")
  BY <1>3, NothingReported
<1>7. Lost = s \o t
  BY DEF Lost
<1>. HIDE DEF s, t
<1>. QED
  BY <1>2, <1>5, <1>6, <1>7, ReportsJoined

-------------------------------------------------------------------------------
(* The steps of an operation, as the station sees them.                     *)

\* A step that concerns neither the link nor the search for the network.
LEMMA StationKept ==
  ASSUME Station,
         UNCHANGED <<sta_connected, scan_in_progress, scan_task, scan_cb, events>>,
         radio'.link = radio.link, radio'.scanning = radio.scanning,
         ~StopNext, ~StopNext',
         ~Switching' => ~Switching /\ enabled'["station"] = enabled["station"],
         radio.link # "down" => Operates("station")'
  PROVE  Station'
PROOF
<1>1. Known'
  BY DEF Station, Known
<1>2. LinkNeedsRadio'
  BY DEF Station, LinkNeedsRadio
<1>3. ScanGoesOn'
  BY DEF Station, ScanGoesOn
<1>4. Trying'
  BY DEF Station, Trying
<1>. QED
  BY <1>1, <1>2, <1>3, <1>4 DEF Station

\* While the access point is switched the station is left alone.
LEMMA ApWorks ==
  ASSUME Types, Controlled, Busy("ap"), NEW t, todo' = [todo EXCEPT !["ap"] = t]
  PROVE  ~StopNext /\ ~StopNext' /\ ~Switching /\ ~Switching'
PROOF
<1>1. "ap" \in Components /\ "station" \in Components /\ "ap" # "station"
  BY DEF Components
<1>2. ~Busy("station")
  BY <1>1, OneWorks
<1>3. todo'["station"] = todo["station"]
  BY <1>1 DEF Types
<1>. QED
  BY <1>2, <1>3 DEF StopNext, Switching, Busy

LEMMA TodoIs ==
  ASSUME Types, NEW c \in Components, Done(c) \/ Skip(c)
  PROVE  \E t : todo' = [todo EXCEPT ![c] = t]
PROOF
<1>1. Done(c) => todo' = [todo EXCEPT ![c] = Tail(todo[c])]
  BY DEF Done
<1>2. Skip(c) => todo' = [todo EXCEPT ![c] = Tail(Tail(todo[c]))]
  BY DEF Skip
<1>. QED
  BY <1>1, <1>2

\* Who takes the step: the access point, or the station, on its way.
LEMMA WhoWorks ==
  ASSUME Types, Controlled, NEW c \in Components, Busy(c), Done(c) \/ Skip(c),
         Now(c) \notin {"storeOn", "storeOff"},
         Busy(c)', Now(c)' \notin {"stop", "storeOn", "storeOff"}
  PROVE  /\ ~StopNext' /\ (StopNext => c = "station" /\ Now(c) = "stop")
         /\ ~Switching' => ~Switching
PROOF
<1>1. PICK t : todo' = [todo EXCEPT ![c] = t]
  BY TodoIs
<1>2. ASSUME c = "ap"
      PROVE  ~StopNext /\ ~StopNext' /\ ~Switching /\ ~Switching'
  BY <1>1, <1>2, ApWorks
<1>3. ASSUME c = "station"
      PROVE  ~StopNext' /\ (StopNext => c = "station" /\ Now(c) = "stop") /\ Switching'
  BY <1>3 DEF StopNext, Switching
<1>. QED
  BY <1>2, <1>3 DEF Components

LEMMA LastStepIs ==
  ASSUME NEW c, NEW on
  PROVE  LastStep(c, on) \in {"active", "inactive", "scan", "scanEnded"}
  BY DEF LastStep

LEMMA SetStartedStation ==
  ASSUME Types, Controlled, Station, NEW c \in Components, Busy(c), SetStarted(c)
  PROVE  Station'
PROOF
<1>1. Busy(c)' /\ Now(c)' \in {"reconfigure", "active", "inactive", "scan", "scanEnded"}
  BY SetStartedNext, LastStepIs
<1>2. Now(c) \in {"stopped", "started"} /\ Done(c)
  BY DEF SetStarted
<1>3. ~StopNext' /\ ~StopNext /\ (~Switching' => ~Switching)
  BY <1>1, <1>2, WhoWorks
<1>4. /\ UNCHANGED <<sta_connected, scan_in_progress, scan_task, scan_cb, events>>
      /\ radio' = radio /\ enabled' = enabled
  BY DEF SetStarted, station, scan, driver
<1>5. radio.link # "down" => Operates("station")'
  BY <1>4 DEF Station, LinkNeedsRadio, Operates
<1>. QED
  BY <1>3, <1>4, <1>5, StationKept

LEMMA ReconfigureStation ==
  ASSUME Types, Controlled, Station, NEW c \in Components, Busy(c), Reconfigure(c)
  PROVE  Station'
PROOF
<1>1. Busy(c)' /\ Now(c)' \in {"setMode", "start"}
  BY ReconfigureNext
<1>2. Now(c) = "reconfigure" /\ (Done(c) \/ Skip(c))
  BY DEF Reconfigure
<1>3. ~StopNext' /\ ~StopNext /\ (~Switching' => ~Switching)
  BY <1>1, <1>2, WhoWorks
<1>4. /\ UNCHANGED <<sta_connected, scan_in_progress, scan_task, scan_cb, events>>
      /\ radio' = radio /\ enabled' = enabled
  BY DEF Reconfigure, switches, station, scan, driver
<1>5. radio.link # "down" => Operates("station")'
  BY <1>4 DEF Station, LinkNeedsRadio, Operates
<1>. QED
  BY <1>3, <1>4, <1>5, StationKept

LEMMA SetConfigStation ==
  ASSUME Types, Controlled, Station, NEW c \in Components, Busy(c), SetConfig(c)
  PROVE  Station'
PROOF
<1>1. Busy(c)' /\ Now(c)' = "start"
  BY SetConfigNext
<1>2. Now(c) = "setConfig" /\ Done(c)
  BY DEF SetConfig
<1>3. ~StopNext' /\ ~StopNext /\ (~Switching' => ~Switching)
  BY <1>1, <1>2, WhoWorks
<1>4. /\ UNCHANGED <<sta_connected, scan_in_progress, scan_task, scan_cb, events>>
      /\ radio' = radio /\ enabled' = enabled
  BY DEF SetConfig, switches, station, scan
<1>5. radio.link # "down" => Operates("station")'
  BY <1>4 DEF Station, LinkNeedsRadio, Operates
<1>. QED
  BY <1>3, <1>4, <1>5, StationKept

LEMMA StartStation ==
  ASSUME Types, Controlled, Station, NEW c \in Components, Busy(c), Start(c)
  PROVE  Station'
PROOF
<1>1. /\ Busy(c)' /\ Now(c)' \in {"started", "active", "inactive", "scan", "scanEnded"}
      /\ ~radio.running
  BY StartNext, LastStepIs
<1>2. Now(c) = "start" /\ (Done(c) \/ Skip(c))
  BY DEF Start
<1>3. ~StopNext' /\ ~StopNext /\ (~Switching' => ~Switching)
  BY <1>1, <1>2, WhoWorks
<1>4. /\ UNCHANGED <<sta_connected, scan_in_progress, scan_task, scan_cb, events>>
      /\ enabled' = enabled
  BY DEF Start, switches, station, scan
<1>5. radio'.link = radio.link /\ radio'.scanning = radio.scanning
  BY DEF Start, Types
<1>6. radio.link = "down"
  BY <1>1 DEF Station, LinkNeedsRadio, Operates
<1>. QED
  BY <1>3, <1>4, <1>5, <1>6, StationKept

LEMMA SetModeStation ==
  ASSUME Types, Controlled, Station, NEW c \in Components, Busy(c), SetMode(c)
  PROVE  Station'
PROOF
<1>1. Busy(c)' /\ Now(c)' \in {"setConfig", "start"} /\ ~radio.running
  BY SetModeNext
<1>2. Now(c) = "setMode" /\ Done(c)
  BY DEF SetMode
<1>3. ~StopNext' /\ ~StopNext /\ (~Switching' => ~Switching)
  BY <1>1, <1>2, WhoWorks
<1>4. UNCHANGED <<sta_connected, scan_in_progress, scan_task, scan_cb, enabled>>
  BY DEF SetMode, switches, station, scan
<1>5. radio.link = "down"
  BY <1>1 DEF Station, LinkNeedsRadio, Operates
<1>6. radio'.link = "down"
  BY <1>5 DEF SetMode, esp_wifi_set_mode, Down, Types
<1>7. \/ events' = events /\ radio'.scanning = radio.scanning
      \/ events' = events \o Lost
  BY DEF SetMode, esp_wifi_set_mode, Types
<1>8. ASSUME events' = events /\ radio'.scanning = radio.scanning
      PROVE  Station'
  BY <1>3, <1>4, <1>5, <1>6, <1>8, StationKept
<1>9. ASSUME events' = events \o Lost
      PROVE  Station'
  <2>1. /\ Lost \in Seq(Reports) /\ NoLinkEvent(Lost)
        /\ radio.scanning => ScanReported(Lost)
    BY <1>5, LostReports
  <2>2. /\ NoLinkEvent(events) => NoLinkEvent(events')
        /\ \A f : LastLinkEvent(events, f) => LastLinkEvent(events', f)
        /\ ScanReported(events) \/ ScanReported(Lost) => ScanReported(events')
        /\ events' = <<>> => events = <<>> /\ Lost = <<>>
    BY <1>9, <2>1, ReportsJoined DEF Types
  <2>3. Known'
    BY <1>3, <1>4, <1>5, <1>6, <2>2 DEF Station, Known
  <2>4. LinkNeedsRadio'
    BY <1>6 DEF LinkNeedsRadio
  <2>5. ScanGoesOn'
    BY <1>4, <2>1, <2>2 DEF Station, ScanGoesOn
  <2>6. Trying'
    <3>1. Lost = <<>> => ~radio.scanning
      BY <2>1, NothingReported
    <3>. QED
      BY <1>3, <1>4, <1>5, <2>2, <3>1 DEF Station, Trying
  <2>. QED
    BY <2>3, <2>4, <2>5, <2>6 DEF Station
<1>. QED
  BY <1>7, <1>8, <1>9

\* The driver is stopped: the connection is lost, and reported if there was one.
LEMMA StopStation ==
  ASSUME Types, Controlled, Station, NEW c \in Components, Busy(c), Stop(c)
  PROVE  Station'
PROOF
<1>1. /\ Busy(c)' /\ Now(c)' \in {"stopped", "reconfigure"}
      /\ wlan_started = radio.running
  BY StopNext_
<1>2. Now(c) = "stop" /\ (Done(c) \/ Skip(c))
  BY DEF Stop
<1>3. ~StopNext' /\ (~Switching' => ~Switching)
  BY <1>1, <1>2, WhoWorks
<1>4. UNCHANGED <<sta_connected, scan_in_progress, scan_task, scan_cb, enabled>>
  BY DEF Stop, switches, station, scan
<1>5. ASSUME wlan_started
      PROVE  Station'
  <2>1. radio'.link = "down" /\ events' = events \o Lost
    BY <1>5 DEF Stop, esp_wifi_stop, Down, Types
  <2>2. /\ Lost \in Seq(Reports)
        /\ radio.link = "down" => NoLinkEvent(Lost)
        /\ radio.link # "down" => LastLinkEvent(Lost, "disconnected")
        /\ radio.scanning => ScanReported(Lost)
    BY LostReports
  <2>3. /\ NoLinkEvent(Lost) =>
             /\ NoLinkEvent(events) => NoLinkEvent(events')
             /\ \A f : LastLinkEvent(events, f) => LastLinkEvent(events', f)
        /\ \A f : LastLinkEvent(Lost, f) => LastLinkEvent(events', f)
        /\ ScanReported(events) \/ ScanReported(Lost) => ScanReported(events')
        /\ events' = <<>> => events = <<>> /\ Lost = <<>>
    BY <2>1, <2>2, ReportsJoined DEF Types
  <2>4. Known'
    <3>1. ASSUME radio.link = "down"
          PROVE  Known'
      <4>1. sta_connected \in BOOLEAN
        BY DEF Types
      <4>2. NoLinkEvent(events) => NoLinkEvent(events')
        BY <2>2, <2>3, <3>1
      <4>3. LastLinkEvent(events, "disconnected") => LastLinkEvent(events', "disconnected")
        BY <2>2, <2>3, <3>1
      <4>4. (NoLinkEvent(events) /\ ~sta_connected) \/ LastLinkEvent(events, "disconnected")
        BY <3>1, <4>1 DEF Station, Known
      <4>5. ASSUME NoLinkEvent(events), ~sta_connected
            PROVE  Known'
        <5>1. ~sta_connected' /\ NoLinkEvent(events') /\ radio'.link # "up"
          BY <1>4, <2>1, <4>2, <4>5
        <5>. QED
          BY <1>3, <1>4, <4>1, <5>1 DEF Known
      <4>6. ASSUME LastLinkEvent(events, "disconnected")
            PROVE  Known'
        BY <2>1, <4>3, <4>6 DEF Known
      <4>. QED
        BY <4>4, <4>5, <4>6
    <3>2. ASSUME radio.link # "down"
          PROVE  Known'
      BY <2>1, <2>2, <2>3, <3>2 DEF Known
    <3>. QED
      BY <3>1, <3>2
  <2>5. LinkNeedsRadio'
    BY <2>1 DEF LinkNeedsRadio
  <2>6. ScanGoesOn'
    BY <1>4, <2>2, <2>3 DEF Station, ScanGoesOn
  <2>7. Trying'
    <3>1. Lost = <<>> => ~radio.scanning /\ radio.link = "down"
      BY <2>2, NothingReported
    <3>. QED
      BY <1>3, <1>4, <2>3, <3>1 DEF Station, Trying
  <2>. QED
    BY <2>4, <2>5, <2>6, <2>7 DEF Station
<1>6. ASSUME ~wlan_started
      PROVE  Station'
  <2>1. radio' = radio /\ events' = events
    BY <1>6 DEF Stop
  <2>2. radio.link = "down"
    BY <1>1, <1>6 DEF Station, LinkNeedsRadio, Operates
  <2>3. Known'
    BY <1>3, <1>4, <2>1, <2>2 DEF Station, Known, Types
  <2>4. LinkNeedsRadio'
    BY <2>1, <2>2 DEF LinkNeedsRadio
  <2>5. ScanGoesOn'
    BY <1>4, <2>1 DEF Station, ScanGoesOn
  <2>6. Trying'
    BY <1>3, <1>4, <2>1 DEF Station, Trying
  <2>. QED
    BY <2>3, <2>4, <2>5, <2>6 DEF Station
<1>. QED
  BY <1>5, <1>6

LEMMA SetEnabledStation ==
  ASSUME Types, Controlled, Station, NEW c \in Components, Busy(c), SetEnabled(c)
  PROVE  Station'
PROOF
<1>1. Busy(c)' /\ Now(c)' = "stop"
  BY SetEnabledNext
<1>2. Now(c) \in {"enable", "disable"} /\ Done(c)
  BY DEF SetEnabled
<1>3. PICK t : todo' = [todo EXCEPT ![c] = t]
  BY <1>2, TodoIs
<1>4. UNCHANGED <<scan_in_progress, scan_cb, radio, events>>
  BY DEF SetEnabled, driver
<1>5. radio.link # "down" => Operates("station")'
  BY <1>4 DEF Station, LinkNeedsRadio, Operates
<1>6. ASSUME c = "ap"
      PROVE  Station'
  <2>1. ~StopNext /\ ~StopNext' /\ ~Switching /\ ~Switching'
    BY <1>3, <1>6, ApWorks
  <2>2. UNCHANGED <<sta_connected, scan_task>> /\ enabled'["station"] = enabled["station"]
    BY <1>6 DEF SetEnabled, Types
  <2>. QED
    BY <1>4, <1>5, <2>1, <2>2, StationKept
<1>7. ASSUME c = "station"
      PROVE  Station'
  <2>1. StopNext' /\ ~StopNext /\ Switching'
    BY <1>1, <1>2, <1>7 DEF StopNext, Switching
  <2>2. sta_connected' = FALSE
    BY <1>7 DEF SetEnabled
  <2>3. Known'
    BY <1>4, <2>1, <2>2 DEF Station, Known
  <2>4. LinkNeedsRadio'
    BY <1>4, <1>5 DEF LinkNeedsRadio
  <2>5. ScanGoesOn'
    BY <1>4 DEF Station, ScanGoesOn
  <2>6. Trying'
    BY <2>1 DEF Trying
  <2>. QED
    BY <2>3, <2>4, <2>5, <2>6 DEF Station
<1>. QED
  BY <1>6, <1>7 DEF Components

LEMMA SetActiveStation ==
  ASSUME Types, Controlled, Station, Busy("ap"), SetActive
  PROVE  Station'
PROOF
<1>1. "ap" \in Components
  BY DEF Components
<1>2. PICK t : todo' = [todo EXCEPT !["ap"] = t]
  BY <1>1, TodoIs DEF SetActive
<1>3. ~StopNext /\ ~StopNext' /\ ~Switching /\ ~Switching'
  BY <1>2, ApWorks
<1>4. /\ UNCHANGED <<sta_connected, scan_in_progress, scan_task, scan_cb, events>>
      /\ radio' = radio /\ enabled' = enabled
  BY DEF SetActive, station, scan, driver
<1>5. radio.link # "down" => Operates("station")'
  BY <1>4 DEF Station, LinkNeedsRadio, Operates
<1>. QED
  BY <1>3, <1>4, <1>5, StationKept

\* The search begins as soon as the station is enabled.
LEMMA EndScanStation ==
  ASSUME Types, Controlled, Station, Busy("station"), EndScan
  PROVE  Station'
PROOF
<1>1. "station" \in Components
  BY DEF Components
<1>2. PICK on \in BOOLEAN, rest \in Rests("station") : Phase("station", on, rest)
  BY <1>1, IsAt DEF EndScan
<1>3. rest \in Rows
  BY <1>1, RestsAre
<1>4. todo["station"] = AtEnd("station", on, rest)
  BY <1>1, <1>2, <1>3, Where DEF EndScan
<1>5. /\ Is(AtEnd("station", on, rest), LastStep("station", on), rest)
      /\ Is(AtSwitch("station", TRUE, <<>>), "enable", AtStop("station", TRUE, <<>>))
  BY <1>1, <1>3, Follows, RowIs
<1>6. todo'["station"] = rest
  BY <1>1, <1>4, <1>5 DEF EndScan, Done, Is, Types
<1>7. rest = <<>> \/ Head(rest) \in {"enable", "storeOn", "storeOff"}
  <2>1. Head(<<"storeOn">>) = "storeOn" /\ Head(<<"storeOff">>) = "storeOff"
    OBVIOUS
  <2>. QED
    BY <1>5, <2>1 DEF Rests, Is
<1>8. ~StopNext /\ ~StopNext'
  BY <1>6, <1>7 DEF StopNext, EndScan, Now, Busy
<1>9. /\ UNCHANGED <<sta_connected, scan_cb, radio, events, enabled>>
      /\ scan_in_progress' = FALSE
  BY DEF EndScan, switches, driver
<1>10. Known'
  BY <1>8, <1>9 DEF Station, Known
<1>11. LinkNeedsRadio'
  BY <1>9 DEF Station, LinkNeedsRadio, Operates
<1>12. ScanGoesOn'
  BY <1>9 DEF ScanGoesOn
<1>13. enabled["station"] => Now("station") = "scan"
  BY EndScanNext
<1>14. enabled'["station"] => scan_task' = "scheduled"
  BY <1>9, <1>13 DEF EndScan, schedule_scan
<1>15. Trying'
  BY <1>14 DEF Trying
<1>. QED
  BY <1>10, <1>11, <1>12, <1>15 DEF Station

LEMMA StoreStation ==
  ASSUME Types, Controlled, Station, NEW c \in Components, Busy(c), Store(c)
  PROVE  Station'
PROOF
<1>1. todo'[c] = <<>> /\ Now(c) \in {"storeOn", "storeOff"} /\ Done(c)
  BY StoreNext DEF Store
<1>2. /\ UNCHANGED <<sta_connected, scan_in_progress, scan_task, scan_cb, events>>
      /\ radio' = radio /\ enabled' = enabled
  BY DEF Store, switches, station, scan, driver
<1>3. radio.link # "down" => Operates("station")'
  BY <1>2 DEF Station, LinkNeedsRadio, Operates
<1>4. ASSUME c = "ap"
      PROVE  ~StopNext /\ ~StopNext' /\ ~Switching
  <2>1. PICK t : todo' = [todo EXCEPT ![c] = t]
    BY <1>1, TodoIs
  <2>. QED
    BY <1>4, <2>1, ApWorks
<1>5. ASSUME c = "station"
      PROVE  ~StopNext /\ ~StopNext' /\ ~Switching
  BY <1>1, <1>5 DEF StopNext, Switching, Busy
<1>6. ~StopNext /\ ~StopNext' /\ ~Switching
  BY <1>4, <1>5 DEF Components
<1>. QED
  BY <1>2, <1>3, <1>6, StationKept

LEMMA OperationNext ==
  ASSUME Types, Controlled, Station, NEW c \in Components, Operation(c)
  PROVE  Controlled' /\ Station'
PROOF
<1>1. Busy(c)
  BY DEF Operation
<1>2. CASE SetEnabled(c)
  BY <1>1, <1>2, SetEnabledNext, SetEnabledStation
<1>3. CASE Stop(c)
  BY <1>1, <1>3, StopNext_, StopStation
<1>4. CASE SetStarted(c)
  BY <1>1, <1>4, SetStartedNext, SetStartedStation
<1>5. CASE Reconfigure(c)
  BY <1>1, <1>5, ReconfigureNext, ReconfigureStation
<1>6. CASE SetMode(c)
  BY <1>1, <1>6, SetModeNext, SetModeStation
<1>7. CASE SetConfig(c)
  BY <1>1, <1>7, SetConfigNext, SetConfigStation
<1>8. CASE Start(c)
  BY <1>1, <1>8, StartNext, StartStation
<1>9. CASE Store(c)
  BY <1>1, <1>9, StoreNext, StoreStation
<1>10. CASE c = "ap" /\ SetActive
  BY <1>1, <1>10, SetActiveNext, SetActiveStation
<1>11. CASE c = "station" /\ EndScan
  BY <1>1, <1>11, EndScanNext, EndScanStation
<1>. QED
  BY <1>2, <1>3, <1>4, <1>5, <1>6, <1>7, <1>8, <1>9, <1>10, <1>11 DEF Operation

LEMMA CallerNext ==
  ASSUME Types, Controlled, Station, Callers = 1, Caller
  PROVE  Controlled' /\ Station'
PROOF
<1>1. Idle
  BY DEF Caller, wlan_ap_endisable, restart_ap, wlan_station_endisable,
         wlan_station_reconfigure_, Call, Free
<1>2. ~Busy("station")
  BY <1>1 DEF Idle, Components
<1>3. /\ UNCHANGED <<sta_connected, scan_in_progress, scan_task, scan_cb, events>>
      /\ radio' = radio /\ enabled' = enabled
  BY DEF Caller, wlan_ap_endisable, restart_ap, wlan_station_endisable,
         wlan_station_reconfigure_, Call, switches, station, scan, driver
<1>4. radio.link # "down" => Operates("station")'
  BY <1>3 DEF Station, LinkNeedsRadio, Operates
<1>5. ASSUME wlan_ap_endisable \/ restart_ap
      PROVE  Controlled' /\ ~StopNext'
  <2>1. PICK t : todo' = [todo EXCEPT !["ap"] = t]
    BY <1>5 DEF wlan_ap_endisable, restart_ap, Call
  <2>2. todo'["station"] = todo["station"]
    BY <2>1 DEF Types, Components
  <2>. QED
    BY <1>2, <1>5, <2>2, CallsAp DEF StopNext, Busy
<1>6. ASSUME wlan_station_endisable \/ wlan_station_reconfigure_
      PROVE  Controlled' /\ ~StopNext'
  BY <1>6, CallsStation DEF StopNext
<1>7. ~StopNext /\ ~Switching
  BY <1>2 DEF StopNext, Switching
<1>. QED
  BY <1>3, <1>4, <1>5, <1>6, <1>7, StationKept DEF Caller

-------------------------------------------------------------------------------
(* The driver, the scheduler and the events.                                *)

LEMMA DriverNext ==
  ASSUME Types, Controlled, Station, Driver
  PROVE  Controlled' /\ Station'
PROOF
<1>1. UNCHANGED <<switches, station, operation, scan>>
  BY DEF Driver
<1>2. radio'.running = radio.running /\ radio'.mode = radio.mode
  BY DEF Driver, DriverScanDone, DriverConnected, DriverDisconnected, Types
<1>3. Controlled'
  BY <1>1, <1>2, ControlledKept DEF switches, operation
<1>4. /\ UNCHANGED <<sta_connected, scan_in_progress, scan_task, scan_cb, todo, enabled>>
      /\ StopNext' = StopNext
  BY <1>1 DEF switches, station, operation, scan, StopNext, Busy, Now
<1>5. Operates("station")' = Operates("station")
  BY <1>2 DEF Operates
<1>6. events' # <<>> => Trying'
  BY DEF Trying
<1>7. {"scanDone", "connected", "disconnected"} \subseteq Reports /\ "scanDone" \notin LinkEvents
  BY DEF Reports, LinkEvents
<1>8. ASSUME DriverScanDone
      PROVE  Station'
  <2>1. radio'.link = radio.link /\ events' = Append(events, "scanDone")
    BY <1>8 DEF DriverScanDone, Types
  <2>2. /\ events' # <<>> /\ ScanReported(events')
        /\ NoLinkEvent(events) => NoLinkEvent(events')
        /\ \A f : LastLinkEvent(events, f) => LastLinkEvent(events', f)
    BY <1>7, <2>1, ReportsAppended DEF Types
  <2>3. Known'
    BY <1>4, <2>1, <2>2 DEF Station, Known
  <2>4. LinkNeedsRadio'
    BY <1>5, <2>1 DEF Station, LinkNeedsRadio
  <2>5. ScanGoesOn'
    BY <2>2 DEF ScanGoesOn
  <2>. QED
    BY <1>6, <2>2, <2>3, <2>4, <2>5 DEF Station
<1>9. ASSUME DriverConnected
      PROVE  Station'
  <2>1. /\ radio.link = "connecting" /\ radio'.link = "up" /\ radio'.scanning = radio.scanning
        /\ events' = Append(events, "connected")
    BY <1>9 DEF DriverConnected, Types
  <2>2. /\ events' # <<>> /\ (ScanReported(events) => ScanReported(events'))
        /\ LastLinkEvent(events', "connected")
    BY <1>7, <2>1, ReportsAppended DEF Types
  <2>3. Known'
    BY <2>1, <2>2 DEF Known
  <2>4. LinkNeedsRadio'
    BY <1>5, <2>1 DEF Station, LinkNeedsRadio
  <2>5. ScanGoesOn'
    BY <1>4, <2>1, <2>2 DEF Station, ScanGoesOn
  <2>. QED
    BY <1>6, <2>2, <2>3, <2>4, <2>5 DEF Station
<1>10. ASSUME DriverDisconnected
       PROVE  Station'
  <2>1. /\ radio'.link = "down" /\ radio'.scanning = radio.scanning
        /\ events' = Append(events, "disconnected")
    BY <1>10 DEF DriverDisconnected, Types
  <2>2. /\ events' # <<>> /\ (ScanReported(events) => ScanReported(events'))
        /\ LastLinkEvent(events', "disconnected")
    BY <1>7, <2>1, ReportsAppended DEF Types
  <2>3. Known'
    BY <2>1, <2>2 DEF Known
  <2>4. LinkNeedsRadio'
    BY <2>1 DEF LinkNeedsRadio
  <2>5. ScanGoesOn'
    BY <1>4, <2>1, <2>2 DEF Station, ScanGoesOn
  <2>. QED
    BY <1>6, <2>2, <2>3, <2>4, <2>5 DEF Station
<1>. QED
  BY <1>3, <1>8, <1>9, <1>10 DEF Driver

\* When nothing waits to be handled, the station knows.
LEMMA KnownNow ==
  ASSUME Known, events = <<>>, ~StopNext
  PROVE  sta_connected = (radio.link = "up")
  BY NothingReported DEF Known

LEMMA SchedulerNext ==
  ASSUME Types, Controlled, Station, Scheduler
  PROVE  Controlled' /\ Station'
PROOF
<1>1. UNCHANGED <<switches, operation, sta_connected, events>>
  BY DEF Scheduler, AbortDone, scan_due, wlan_station_start_scan, scan_failed, scan_retry,
         station, driver
<1>2. /\ radio'.running = radio.running /\ radio'.mode = radio.mode /\ radio'.link = radio.link
  BY DEF Scheduler, AbortDone, scan_due, wlan_station_start_scan, scan_failed, scan_retry,
         driver, Types
<1>3. Controlled'
  BY <1>1, <1>2, ControlledKept DEF switches, operation
<1>4. /\ StopNext' = StopNext /\ Switching' = Switching /\ enabled' = enabled
  BY <1>1 DEF switches, operation, StopNext, Switching, Busy, Now
<1>5. Known'
  BY <1>1, <1>2, <1>4 DEF Station, Known
<1>6. LinkNeedsRadio'
  BY <1>2 DEF Station, LinkNeedsRadio, Operates
<1>7. ASSUME AbortDone
      PROVE  ScanGoesOn' /\ Trying'
  <2>1. UNCHANGED <<scan_in_progress, radio, scan_cb>> /\ scan_task # "scheduled"
    BY <1>7 DEF AbortDone, station, driver
  <2>2. ScanGoesOn'
    BY <1>1, <2>1 DEF Station, ScanGoesOn
  <2>. QED
    BY <1>1, <1>4, <2>1, <2>2 DEF Station, Trying
<1>8. ASSUME scan_due
      PROVE  ScanGoesOn' /\ Trying'
  <2>1. UNCHANGED <<scan_in_progress, radio>> /\ scan_cb' # "none"
    BY <1>8 DEF scan_due, station, driver
  <2>2. ScanGoesOn'
    BY <1>1, <2>1 DEF Station, ScanGoesOn
  <2>. QED
    BY <2>1, <2>2 DEF Trying
<1>9. ASSUME wlan_station_start_scan, scan_in_progress
      PROVE  ScanGoesOn' /\ Trying'
  <2>1. UNCHANGED <<scan_in_progress, radio>>
    BY <1>9 DEF wlan_station_start_scan
  <2>2. ScanGoesOn'
    BY <1>1, <2>1 DEF Station, ScanGoesOn
  <2>. QED
    BY <1>9, <2>1, <2>2, NothingReported DEF ScanGoesOn, Trying
<1>10. ASSUME wlan_station_start_scan, ~scan_in_progress
       PROVE  ScanGoesOn' /\ Trying'
  <2>1. /\ scan_in_progress' = CanScan /\ scan_cb' = IF CanScan THEN "none" ELSE "failed"
        /\ radio' = [radio EXCEPT !.scanning = CanScan]
    BY <1>10 DEF wlan_station_start_scan
  <2>2. radio'.scanning = CanScan
    BY <2>1 DEF Types
  <2>. QED
    BY <2>1, <2>2 DEF ScanGoesOn, Trying
<1>11. ASSUME scan_failed
       PROVE  ScanGoesOn' /\ Trying'
  <2>1. /\ UNCHANGED <<scan_in_progress, radio>>
        /\ scan_cb' = IF enabled["station"] /\ ~sta_connected THEN "retry" ELSE "none"
    BY <1>11 DEF scan_failed, station, driver
  <2>2. ScanGoesOn'
    BY <1>1, <2>1 DEF Station, ScanGoesOn
  <2>3. Trying'
    <3>1. SUFFICES ASSUME ~Switching, enabled["station"], radio.link = "down", events = <<>>
                   PROVE  scan_cb' # "none"
      BY <1>1, <1>4, <2>1 DEF Trying
    <3>2. ~StopNext
      BY <3>1 DEF StopNext, Switching
    <3>3. sta_connected = FALSE
      BY <3>1, <3>2, KnownNow DEF Station
    <3>. QED
      BY <2>1, <3>1, <3>3
  <2>. QED
    BY <2>2, <2>3
<1>12. ASSUME scan_retry
       PROVE  ScanGoesOn' /\ Trying'
  <2>1. UNCHANGED <<scan_in_progress, radio>> /\ scan_task' = "scheduled"
    BY <1>12 DEF scan_retry, schedule_scan, station, driver
  <2>2. ScanGoesOn'
    BY <1>1, <2>1 DEF Station, ScanGoesOn
  <2>. QED
    BY <2>1, <2>2 DEF Trying
<1>. QED
  BY <1>3, <1>5, <1>6, <1>7, <1>8, <1>9, <1>10, <1>11, <1>12 DEF Scheduler, Station

LEMMA EventsNext ==
  ASSUME Types, Controlled, Station, Events
  PROVE  Controlled' /\ Station'
PROOF
<1>1. UNCHANGED <<switches, operation, scan_cb>> /\ ~Busy("station") /\ events # <<>>
  BY DEF Events, handle_scan_done_event, handle_station_connected_event,
         handle_station_disconnected_event, Event
<1>2. radio'.running = radio.running /\ radio'.mode = radio.mode /\ radio'.scanning = radio.scanning
  BY DEF Events, handle_scan_done_event, handle_station_connected_event,
         handle_station_disconnected_event, Types
<1>3. Controlled'
  BY <1>1, <1>2, ControlledKept DEF switches, operation
<1>4. /\ ~StopNext /\ ~StopNext' /\ enabled' = enabled
      /\ Operates("station")' = Operates("station")
  BY <1>1, <1>2 DEF switches, operation, StopNext, Busy, Operates
<1>5. events' = Tail(events)
  BY DEF Events, handle_scan_done_event, handle_station_connected_event,
         handle_station_disconnected_event, Event
<1>6. /\ NoLinkEvent(events) => NoLinkEvent(events') /\ Head(events) \notin LinkEvents
      /\ \A f : LastLinkEvent(events, f) =>
                  LastLinkEvent(events', f) \/ (Head(events) = f /\ NoLinkEvent(events'))
      /\ ScanReported(events) => ScanReported(events') \/ Head(events) = "scanDone"
  BY <1>1, <1>5, ReportsHandled DEF Types
<1>7. Known' => Trying' \/ (enabled["station"] /\ ~sta_connected' /\ scan_task' # "scheduled")
  <2>1. SUFFICES ASSUME Known', ~Trying'
                 PROVE  enabled["station"] /\ ~sta_connected' /\ scan_task' # "scheduled"
    OBVIOUS
  <2>2. /\ enabled["station"] /\ radio'.link = "down" /\ events' = <<>>
        /\ scan_task' # "scheduled"
    BY <1>4, <2>1 DEF Trying
  <2>3. NoLinkEvent(events') /\ (sta_connected' = (radio'.link = "up"))
    BY <1>4, <2>1, <2>2, NothingReported DEF Known
  <2>. QED
    BY <2>2, <2>3
<1>8. ASSUME NEW found \in BOOLEAN, handle_scan_done_event(found)
      PROVE  Station'
  <2>1. /\ Head(events) = "scanDone" /\ scan_in_progress' = FALSE
        /\ sta_connected' = sta_connected /\ schedule_scan_conditional
    BY <1>8 DEF handle_scan_done_event, Event
  <2>2. \/ radio'.link = radio.link
        \/ radio.link = "down" /\ radio'.link = "connecting" /\ Operates("station")
    BY <1>8 DEF handle_scan_done_event, Types
  <2>3. Head(events) \notin LinkEvents /\ "connected" # Head(events) /\ "disconnected" # Head(events)
    BY <2>1 DEF LinkEvents
  <2>4. /\ NoLinkEvent(events) => NoLinkEvent(events')
        /\ LastLinkEvent(events, "connected") => LastLinkEvent(events', "connected")
        /\ LastLinkEvent(events, "disconnected") => LastLinkEvent(events', "disconnected")
    BY <1>6, <2>3
  <2>5. Known'
    BY <1>4, <2>1, <2>2, <2>4 DEF Station, Known
  <2>6. LinkNeedsRadio'
    BY <1>4, <2>2 DEF Station, LinkNeedsRadio
  <2>7. ScanGoesOn'
    BY <2>1 DEF ScanGoesOn
  <2>8. Trying'
    BY <1>7, <2>1, <2>5 DEF schedule_scan_conditional, schedule_scan
  <2>. QED
    BY <2>5, <2>6, <2>7, <2>8 DEF Station
<1>9. ASSUME handle_station_connected_event
      PROVE  Station'
  <2>1. /\ Head(events) = "connected" /\ sta_connected' = TRUE
        /\ UNCHANGED <<radio, scan_in_progress>>
    BY <1>9 DEF handle_station_connected_event, Event
  <2>2. Head(events) \in LinkEvents /\ Head(events) # "scanDone" /\ Head(events) # "disconnected"
    BY <2>1 DEF LinkEvents
  <2>3. Known'
    BY <1>4, <1>6, <2>1, <2>2 DEF Station, Known
  <2>4. LinkNeedsRadio'
    BY <1>4, <2>1 DEF Station, LinkNeedsRadio
  <2>5. ScanGoesOn'
    BY <1>6, <2>1, <2>2 DEF Station, ScanGoesOn
  <2>6. Trying'
    BY <1>7, <2>1, <2>3
  <2>. QED
    BY <2>3, <2>4, <2>5, <2>6 DEF Station
<1>10. ASSUME handle_station_disconnected_event
       PROVE  Station'
  <2>1. /\ Head(events) = "disconnected" /\ sta_connected' = FALSE
        /\ UNCHANGED <<radio, scan_in_progress>> /\ schedule_scan_conditional
    BY <1>10 DEF handle_station_disconnected_event, Event
  <2>2. Head(events) \in LinkEvents /\ Head(events) # "scanDone" /\ Head(events) # "connected"
    BY <2>1 DEF LinkEvents
  <2>3. Known'
    BY <1>4, <1>6, <2>1, <2>2 DEF Station, Known
  <2>4. LinkNeedsRadio'
    BY <1>4, <2>1 DEF Station, LinkNeedsRadio
  <2>5. ScanGoesOn'
    BY <1>6, <2>1, <2>2 DEF Station, ScanGoesOn
  <2>6. Trying'
    BY <1>7, <2>1, <2>3 DEF schedule_scan_conditional, schedule_scan
  <2>. QED
    BY <2>3, <2>4, <2>5, <2>6 DEF Station
<1>. QED
  BY <1>3, <1>8, <1>9, <1>10 DEF Events

-------------------------------------------------------------------------------
(* The types.                                                               *)

RadioType ==
  radio \in [running : BOOLEAN, mode : SUBSET Components,
             link : {"down", "connecting", "up"}, scanning : BOOLEAN]
SwitchTypes ==
  /\ enabled \in [Components -> BOOLEAN] /\ stored \in [Components -> BOOLEAN]
  /\ wlan_started \in BOOLEAN /\ wlan_ap_active \in BOOLEAN /\ sta_connected \in BOOLEAN
TodoType == todo = [c \in Components |-> todo[c]] /\ mode = [c \in Components |-> mode[c]]
ReportTypes == events \in Seq(Reports) /\ ~aborted

LEMMA TypesAre == Types <=> RadioType /\ SwitchTypes /\ TodoType /\ ReportTypes
  BY DEF Types, RadioType, SwitchTypes, TodoType, ReportTypes

LEMMA TypesAreNext == Types' <=> RadioType' /\ SwitchTypes' /\ TodoType' /\ ReportTypes'
  BY DEF Types, RadioType, SwitchTypes, TodoType, ReportTypes

LEMMA TodoTypeNext ==
  ASSUME Types, NEW c \in Components, Done(c) \/ Skip(c),
         mode' = mode \/ \E m : mode' = [mode EXCEPT ![c] = m]
  PROVE  TodoType'
PROOF
<1>1. PICK t : todo' = [todo EXCEPT ![c] = t]
  BY TodoIs
<1>2. todo' = [d \in Components |-> todo'[d]]
  BY <1>1 DEF Types
<1>3. mode' = [d \in Components |-> mode'[d]]
  BY DEF Types
<1>. QED
  BY <1>2, <1>3 DEF TodoType

LEMMA OperationTypes ==
  ASSUME Types, Controlled, NEW c \in Components, Operation(c)
  PROVE  Types'
PROOF
<1>1. Busy(c)
  BY DEF Operation
<1>2. /\ Done(c) \/ Skip(c)
      /\ mode' = mode \/ \E m : mode' = [mode EXCEPT ![c] = m]
  BY DEF Operation, SetEnabled, Stop, SetStarted, Reconfigure, SetMode, SetConfig, Start, Store,
         SetActive, EndScan
<1>3. TodoType'
  BY <1>2, TodoTypeNext
<1>4. SwitchTypes'
  <2>1. ASSUME SetEnabled(c)
        PROVE  SwitchTypes'
    <3>1. /\ UNCHANGED <<stored, wlan_started, wlan_ap_active>>
          /\ sta_connected' = FALSE \/ sta_connected' = sta_connected
      BY <2>1 DEF SetEnabled
    <3>2. enabled' \in [Components -> BOOLEAN]
      BY <2>1 DEF SetEnabled, Types
    <3>. QED
      BY <3>1, <3>2 DEF SwitchTypes, Types
  <2>2. ASSUME Stop(c) \/ Reconfigure(c) \/ SetMode(c) \/ SetConfig(c) \/ Start(c)
        PROVE  SwitchTypes'
    <3>1. UNCHANGED <<enabled, stored, wlan_started, wlan_ap_active, sta_connected>>
      BY <2>2 DEF Stop, Reconfigure, SetMode, SetConfig, Start, switches, station
    <3>. QED
      BY <3>1 DEF SwitchTypes, Types
  <2>3. ASSUME SetStarted(c)
        PROVE  SwitchTypes'
    <3>1. UNCHANGED <<enabled, stored, wlan_ap_active, sta_connected>> /\ wlan_started' \in BOOLEAN
      BY <2>3 DEF SetStarted, station
    <3>. QED
      BY <3>1 DEF SwitchTypes, Types
  <2>4. ASSUME Store(c)
        PROVE  SwitchTypes'
    <3>1. UNCHANGED <<enabled, wlan_started, wlan_ap_active, sta_connected>>
      BY <2>4 DEF Store, switches, station
    <3>2. stored' \in [Components -> BOOLEAN]
      BY <2>4 DEF Store, Types
    <3>. QED
      BY <3>1, <3>2 DEF SwitchTypes, Types
  <2>5. ASSUME SetActive
        PROVE  SwitchTypes'
    <3>1. UNCHANGED <<enabled, stored, wlan_started, sta_connected>> /\ wlan_ap_active' \in BOOLEAN
      BY <2>5 DEF SetActive, station
    <3>. QED
      BY <3>1 DEF SwitchTypes, Types
  <2>6. ASSUME EndScan
        PROVE  SwitchTypes'
    <3>1. UNCHANGED <<enabled, stored, wlan_started, wlan_ap_active, sta_connected>>
      BY <2>6 DEF EndScan, switches
    <3>. QED
      BY <3>1 DEF SwitchTypes, Types
  <2>. QED
    BY <2>1, <2>2, <2>3, <2>4, <2>5, <2>6 DEF Operation
<1>5. RadioType' /\ ReportTypes'
  <2>1. ASSUME SetEnabled(c) \/ SetStarted(c) \/ Reconfigure(c) \/ Store(c) \/ SetActive \/ EndScan
        PROVE  RadioType' /\ ReportTypes'
    <3>1. UNCHANGED <<radio, events, aborted>>
      BY <2>1 DEF SetEnabled, SetStarted, Reconfigure, Store, SetActive, EndScan, driver
    <3>. QED
      BY <3>1 DEF RadioType, ReportTypes, Types
  <2>2. Lost \in Seq(Reports) /\ events \o Lost \in Seq(Reports)
    BY LostReports, ReportsJoined DEF Types
  <2>3. ASSUME Stop(c)
        PROVE  RadioType' /\ ReportTypes'
    <3>1. RadioType'
      BY <2>3 DEF Stop, esp_wifi_stop, Down, RadioType, Types
    <3>2. (events' = events \/ events' = events \o Lost) /\ aborted' = aborted
      BY <2>3 DEF Stop, esp_wifi_stop
    <3>. QED
      BY <2>2, <3>1, <3>2 DEF ReportTypes, Types
  <2>4. ASSUME SetMode(c)
        PROVE  RadioType' /\ ReportTypes'
    <3>1. mode[c] \subseteq Components
      BY <1>1, <2>4, SetModeNext
    <3>2. RadioType'
      BY <2>4, <3>1 DEF SetMode, esp_wifi_set_mode, Down, RadioType, Types
    <3>3. (events' = events \/ events' = events \o Lost) /\ aborted' = aborted
      BY <2>4 DEF SetMode, esp_wifi_set_mode
    <3>. QED
      BY <2>2, <3>2, <3>3 DEF ReportTypes, Types
  <2>5. ASSUME SetConfig(c)
        PROVE  RadioType' /\ ReportTypes'
    <3>1. UNCHANGED <<radio, events>> /\ aborted' = FALSE
      BY <1>1, <2>5, SetConfigNext DEF SetConfig
    <3>. QED
      BY <3>1 DEF RadioType, ReportTypes, Types
  <2>6. ASSUME Start(c)
        PROVE  RadioType' /\ ReportTypes'
    <3>1. UNCHANGED <<events, aborted>>
      BY <2>6 DEF Start
    <3>2. RadioType'
      BY <2>6 DEF Start, RadioType, Types
    <3>. QED
      BY <3>1, <3>2 DEF ReportTypes, Types
  <2>. QED
    BY <2>1, <2>3, <2>4, <2>5, <2>6 DEF Operation
<1>. QED
  BY <1>3, <1>4, <1>5, TypesAreNext

LEMMA OtherTypes ==
  ASSUME Types, Driver \/ Scheduler \/ Events
  PROVE  Types'
PROOF
<1>1. UNCHANGED <<enabled, stored, wlan_started, wlan_ap_active, todo, mode, aborted>>
  BY DEF Driver, Scheduler, Events, AbortDone, scan_due, wlan_station_start_scan, scan_failed,
         scan_retry, handle_scan_done_event, handle_station_connected_event,
         handle_station_disconnected_event, switches, operation, driver
<1>2. sta_connected' \in BOOLEAN
  BY DEF Driver, Scheduler, Events, AbortDone, scan_due, wlan_station_start_scan, scan_failed,
         scan_retry, handle_scan_done_event, handle_station_connected_event,
         handle_station_disconnected_event, station, Types
<1>3. SwitchTypes' /\ TodoType'
  BY <1>1, <1>2 DEF SwitchTypes, TodoType, Types
<1>4. CanScan \in BOOLEAN
  BY DEF CanScan, Operates
<1>5. RadioType'
  <2>1. Driver => RadioType'
    BY DEF Driver, DriverScanDone, DriverConnected, DriverDisconnected, RadioType, Types
  <2>2. Scheduler => RadioType'
    BY <1>4 DEF Scheduler, AbortDone, scan_due, wlan_station_start_scan, scan_failed,
         scan_retry, driver, RadioType, Types
  <2>3. Events => RadioType'
    BY DEF Events, handle_scan_done_event, handle_station_connected_event,
         handle_station_disconnected_event, RadioType, Types
  <2>. QED
    BY <2>1, <2>2, <2>3
<1>6. events' \in Seq(Reports)
  <2>1. {"scanDone", "connected", "disconnected"} \subseteq Reports
    BY DEF Reports, LinkEvents
  <2>2. Driver => events' \in Seq(Reports)
    BY <2>1, ReportsAppended
       DEF Driver, DriverScanDone, DriverConnected, DriverDisconnected, Types
  <2>3. Scheduler => events' = events
    BY DEF Scheduler, AbortDone, scan_due, wlan_station_start_scan, scan_failed, scan_retry, driver
  <2>4. Events => events # <<>> /\ events' = Tail(events)
    BY DEF Events, handle_scan_done_event, handle_station_connected_event,
         handle_station_disconnected_event, Event
  <2>. QED
    BY <2>2, <2>3, <2>4, ReportsHandled DEF Types
<1>. QED
  BY <1>1, <1>3, <1>5, <1>6, TypesAreNext DEF ReportTypes, Types

LEMMA CallerTypes ==
  ASSUME Types, Caller
  PROVE  Types'
PROOF
<1>1. UNCHANGED <<enabled, stored, wlan_started, wlan_ap_active, mode, aborted, sta_connected,
                  radio, events>>
  BY DEF Caller, wlan_ap_endisable, restart_ap, wlan_station_endisable,
         wlan_station_reconfigure_, Call, switches, station, driver
<1>2. PICK c \in Components : \E t : todo' = [todo EXCEPT ![c] = t]
  BY DEF Caller, wlan_ap_endisable, restart_ap, wlan_station_endisable,
         wlan_station_reconfigure_, Call, Components
<1>3. todo' = [d \in Components |-> todo'[d]]
  BY <1>2 DEF Types
<1>. QED
  BY <1>1, <1>3 DEF Types

-------------------------------------------------------------------------------
(* The theorems.                                                            *)

LEMMA WlanInit == Init => WlanInv
PROOF
<1>. SUFFICES ASSUME Init
              PROVE  WlanInv
  OBVIOUS
<1>1. \A c \in Components : todo[c] = <<>>
  BY DEF Init
<1>2. <<>> \in Seq(Reports)
  OBVIOUS
<1>3. Enabled \subseteq Components /\ wlan_started \in BOOLEAN
  BY DEF Init, Enabled
<1>4. Types
  BY <1>2, <1>3 DEF Init, Types, Components
<1>5. Runs(Enabled)
  BY DEF Init, Runs
<1>6. Controlled
  BY <1>1, <1>5 DEF Init, Controlled, Settled, Rest
<1>7. ~StopNext
  BY <1>1 DEF StopNext, Busy, Components
<1>8. sta_connected = FALSE /\ radio.link = "down" /\ events = <<>> /\ scan_in_progress = FALSE
  BY DEF Init
<1>9. Known
  BY <1>7, <1>8, NothingReported DEF Known
<1>10. Trying
  BY DEF Init, Trying
<1>. QED
  BY <1>4, <1>6, <1>8, <1>9, <1>10 DEF WlanInv, Station, LinkNeedsRadio, ScanGoesOn

LEMMA WlanNext ==
  ASSUME Callers = 1, WlanInv, [Next]_vars
  PROVE  WlanInv'
PROOF
<1>1. ASSUME UNCHANGED vars
      PROVE  WlanInv'
  <2>1. Controlled'
    BY <1>1, ControlledKept DEF vars, switches, operation, driver, WlanInv
  <2>2. /\ UNCHANGED <<enabled, sta_connected, scan_in_progress, scan_task, scan_cb, events, radio>>
        /\ StopNext' = StopNext /\ Switching' = Switching
    BY <1>1 DEF vars, switches, station, operation, scan, driver, StopNext, Switching, Busy, Now
  <2>3. Station'
    BY <2>2 DEF WlanInv, Station, Known, LinkNeedsRadio, Operates, ScanGoesOn, Trying
  <2>4. Types'
    BY <1>1 DEF vars, switches, station, operation, driver, WlanInv, Types
  <2>. QED
    BY <2>1, <2>3, <2>4 DEF WlanInv
<1>2. ASSUME Next
      PROVE  WlanInv'
  <2>1. Types /\ Controlled /\ Station
    BY DEF WlanInv
  <2>2. CASE Driver
    BY <2>1, <2>2, DriverNext, OtherTypes DEF WlanInv
  <2>3. CASE Scheduler
    BY <2>1, <2>3, SchedulerNext, OtherTypes DEF WlanInv
  <2>4. CASE Events
    BY <2>1, <2>4, EventsNext, OtherTypes DEF WlanInv
  <2>5. CASE Caller
    BY <2>1, <2>5, CallerNext, CallerTypes DEF WlanInv
  <2>6. CASE \E c \in Components : Operation(c)
    BY <2>1, <2>6, OperationNext, OperationTypes DEF WlanInv
  <2>. QED
    BY <1>2, <2>2, <2>3, <2>4, <2>5, <2>6 DEF Next
<1>. QED
  BY <1>1, <1>2

\* How far each operation has come with the driver, what the events that wait
\* will make the station know, and who looks for the network: as long as no two
\* operations overlap, always as WlanInv says.
THEOREM WlanInvariant ==
  ASSUME Callers = 1
  PROVE  Spec => []WlanInv
PROOF
<1>1. WlanInv /\ [Next]_vars => WlanInv'
  BY WlanNext
<1>. QED
  BY <1>1, WlanInit, PTL DEF Spec

\* When no operation is under way the driver runs what is enabled, and nothing
\* else; the access point is active if it is enabled; the device will start so.
THEOREM RadioIsRight ==
  ASSUME Callers = 1
  PROVE  Spec => []RadioAgrees
PROOF
<1>1. WlanInv => RadioAgrees
  <2>. SUFFICES ASSUME WlanInv, Idle
                PROVE  /\ radio.running = (Enabled # {}) /\ wlan_started = radio.running
                       /\ radio.running => radio.mode = Enabled
                       /\ wlan_ap_active = enabled["ap"]
                       /\ stored = enabled
    BY DEF RadioAgrees
  <2>1. Settled /\ \A c \in Components : Rest(c)
    BY NoneWorks DEF WlanInv
  <2>2. stored = enabled
    BY <2>1 DEF Rest, WlanInv, Types
  <2>. QED
    BY <2>1, <2>2 DEF Settled, Runs
<1>. QED
  BY <1>1, WlanInvariant, PTL

\* When the events are handled the station knows whether it is connected.
THEOREM ConnectionIsKnown ==
  ASSUME Callers = 1
  PROVE  Spec => []ConnectionKnown
PROOF
<1>1. WlanInv => ConnectionKnown
  <2>. SUFFICES ASSUME WlanInv, Idle, events = <<>>
                PROVE  sta_connected = (radio.link = "up")
    BY DEF ConnectionKnown
  <2>1. ~StopNext
    BY DEF Idle, StopNext, Components
  <2>. QED
    BY <2>1, KnownNow DEF WlanInv, Station
<1>. QED
  BY <1>1, WlanInvariant, PTL

\* A station that is enabled and has no connection is about to get one.
THEOREM TheStationTries ==
  ASSUME Callers = 1
  PROVE  Spec => []KeepsTrying
PROOF
<1>1. WlanInv => KeepsTrying
  <2>. SUFFICES ASSUME WlanInv, Idle, enabled["station"], radio.link = "down"
                PROVE  scan_task = "scheduled" \/ scan_cb # "none" \/ radio.scanning \/ events # <<>>
    BY DEF KeepsTrying
  <2>1. ~Switching
    BY DEF Idle, Switching, Components
  <2>. QED
    BY <2>1 DEF WlanInv, Station, Trying
<1>. QED
  BY <1>1, WlanInvariant, PTL

\* If no two operations overlap the driver accepts every configuration: what goes
\* wrong when the HTTP server and the buttons call at the same time is the overlap.
THEOREM ConfigIsAccepted ==
  ASSUME Callers = 1
  PROVE  Spec => []ConfigAccepted
PROOF
<1>1. WlanInv => ConfigAccepted
  BY DEF WlanInv, Types, ConfigAccepted
<1>. QED
  BY <1>1, WlanInvariant, PTL

================================================================================
