--------------------------- MODULE Http2RpcProofs ---------------------------
(***************************************************************************)
(* Theorems about Http2Rpc, for every value of its constants.              *)
(***************************************************************************)
EXTENDS Http2Rpc, FiniteSetTheorems, SequenceTheorems, TLAPS

-----------------------------------------------------------------------------
(* Types.                                                                  *)

Somewhere == Targets \cup {Nowhere}

Links == [session : {"none", "open", "dead"}, dialing : Somewhere,
          phase : {"none", "connecting", "sleeping"}, aim : Somewhere,
          attempt : 0..(UnreachableAfter + 1), orphans : Nat]

Calls == [phase : {"idle", "unrouted", "connecting", "unconnected", "waiting", "sent",
                   "refused", "answered", "offline", "mute", "cancelled", "late"},
          peer : Peers \cup {Nobody}, counted : BOOLEAN, live : BOOLEAN]

Servings == [phase : {"none", "arriving", "running", "over"}, entry : BOOLEAN, made : Nat]

Cancels == {"none", "connecting", "sent", "arrived", "lost"}
Frames == {"headers", "refused", "item", "final"}

LinkTypes ==
    /\ order \in Seq(Peers)
    /\ reach \in [Peers -> Status]
    /\ target \in [Peers -> Somewhere]
    /\ link \in [Peers -> Links]
    /\ disposed \in BOOLEAN
    /\ forgotten \in [Peers -> BOOLEAN]

CallTypes ==
    /\ active \in [Peers -> Nat]
    /\ call \in [Requests -> Calls]
    /\ cancel \in [Requests -> Cancels]
    /\ serving \in [Requests -> Servings]
    /\ stream \in [Requests -> Seq(Frames)]

Types == LinkTypes /\ CallTypes

\* nodes$ holds a node once, and an address for each of its nodes.
MembersHaveTargets ==
    /\ \A i, j \in DOMAIN order : order[i] = order[j] => i = j
    /\ \A p \in Peers : Member(p) <=> target[p] # Nowhere

-----------------------------------------------------------------------------
(* What holds of the link l to a node, as far as it is known to Topology   *)
(* with a status, the transporter is stopped, and a loop's report lapsed.  *)

\* A loop that is over remembers nothing, a session that is known is not awaited, and an
\* attempt is in flight while a loop connects.
Tidy(l) ==
    /\ l.phase = "none" => l.aim = Nowhere /\ l.attempt = 0
    /\ l.phase = "connecting" => l.dialing # Nowhere
    /\ l.dialing # Nowhere => l.session = "none"

Knocking(l) == \/ l.session # "none"
               \/ l.phase # "none"
               \/ l.orphans > 0

Current(l, status) ==
    l.orphans = 0 => /\ l.session = "open" => status = "reachable"
                     /\ status # "reachable" => l.phase # "none" \/ l.session = "dead"

\* No event of a lost session is due that could take back what the last attempt reported.
Reporting(l, known, status) ==
    l.attempt >= UnreachableAfter =>
        /\ known
        /\ l.session = "none" /\ l.orphans = 0
        /\ \/ l.phase = "connecting" /\ l.attempt = UnreachableAfter
           \/ status = "unreachable"

Sound(l, known, stopped, status, lapsed) ==
    /\ Tidy(l)
    /\ ~known => status = "reachable"
    /\ known /\ ~stopped => Knocking(l) /\ Current(l, status)
    /\ UnreachableAfter > 1 /\ ~lapsed => Reporting(l, known, status)

Known(p) == target[p] # Nowhere

PeersAreSound ==
    \A p \in Peers : Sound(link[p], Known(p), disposed, reach[p], forgotten[p])

LEMMA Bounds == UnreachableAfter \in Nat /\ UnreachableAfter > 0 /\ Nowhere \notin Targets
  BY Http2LinkAssumption

LEMMA DialedFacts ==
    ASSUME NEW l \in Links, NEW t \in Targets
    PROVE  /\ Dialed(l, t) \in Links
           /\ Dialed(l, t).phase = l.phase
           /\ Dialed(l, t).aim = l.aim
           /\ Dialed(l, t).attempt = l.attempt
           /\ l.session = "open" => Dialed(l, t) = l
           /\ l.session # "open" => /\ Dialed(l, t).session = "none"
                                    /\ Dialed(l, t).dialing # Nowhere
           /\ l.session = "none" => Dialed(l, t).orphans = l.orphans
           /\ l.session = "dead" => Dialed(l, t).orphans = l.orphans + 1
<1>1. CASE l.session = "open"
  BY <1>1 DEF Dialed
<1>2. CASE l.session # "open"
  <2> DEFINE orphans == IF l.session = "dead" THEN l.orphans + 1 ELSE l.orphans
             dialing == IF l.dialing = Nowhere THEN t ELSE l.dialing
  <2>1. Dialed(l, t) = [l EXCEPT !.session = "none", !.orphans = orphans, !.dialing = dialing]
    BY <1>2 DEF Dialed
  <2>2. orphans \in Nat /\ dialing \in Targets
    BY DEF Links, Somewhere
  <2> HIDE DEF orphans, dialing
  <2>3. /\ Dialed(l, t) \in Links
        /\ Dialed(l, t).phase = l.phase
        /\ Dialed(l, t).aim = l.aim
        /\ Dialed(l, t).attempt = l.attempt
        /\ Dialed(l, t).session = "none"
        /\ Dialed(l, t).dialing = dialing
        /\ Dialed(l, t).orphans = orphans
    BY <2>1, <2>2 DEF Links, Somewhere
  <2> QED
    BY <1>2, <2>2, <2>3, Bounds DEF orphans
<1> QED
  BY <1>1, <1>2

LEMMA LoopOverFacts ==
    ASSUME NEW l \in Links
    PROVE  /\ LoopOver(l) \in Links
           /\ LoopOver(l).phase = "none"
           /\ LoopOver(l).aim = Nowhere
           /\ LoopOver(l).attempt = 0
           /\ LoopOver(l).session = l.session
           /\ LoopOver(l).dialing = l.dialing
           /\ LoopOver(l).orphans = l.orphans
<1>1. 0 \in 0..(UnreachableAfter + 1)
  BY Bounds
<1> QED
  BY <1>1 DEF LoopOver, Links, Somewhere

LEMMA TriedFacts ==
    ASSUME NEW l \in Links, NEW t \in Targets
    PROVE  /\ Tried(l, t) \in Links
           /\ l.session = "open" => Tried(l, t) = LoopOver(l)
           /\ l.session # "open" =>
                /\ Tried(l, t).phase = "connecting"
                /\ Tried(l, t).session = "none"
                /\ Tried(l, t).dialing # Nowhere
                /\ l.session = "none" => Tried(l, t).orphans = l.orphans
                /\ l.session = "dead" => Tried(l, t).orphans = l.orphans + 1
                /\ t # l.aim => Tried(l, t).attempt = 1
                /\ t = l.aim => Tried(l, t).attempt = IF l.attempt > UnreachableAfter
                                                      THEN l.attempt ELSE l.attempt + 1
<1> DEFINE attempt == IF t # l.aim THEN 1
                      ELSE IF l.attempt > UnreachableAfter THEN l.attempt ELSE l.attempt + 1
           d == Dialed(l, t)
<1>1. CASE l.session = "open"
  BY <1>1, LoopOverFacts DEF Tried
<1>2. CASE l.session # "open"
  <2>1. attempt \in 0..(UnreachableAfter + 1)
    BY Bounds DEF Links
  <2>2. d \in Links
    BY DialedFacts
  <2>3. Tried(l, t) = [d EXCEPT !.phase = "connecting", !.aim = t, !.attempt = attempt]
    BY <1>2 DEF Tried
  <2> HIDE DEF attempt, d
  <2>4. /\ Tried(l, t) \in Links
        /\ Tried(l, t).phase = "connecting"
        /\ Tried(l, t).attempt = attempt
        /\ Tried(l, t).session = d.session
        /\ Tried(l, t).dialing = d.dialing
        /\ Tried(l, t).orphans = d.orphans
    BY <2>1, <2>2, <2>3 DEF Links, Somewhere
  <2> QED
    BY <1>2, <2>4, DialedFacts DEF attempt, d
<1> QED
  BY <1>1, <1>2

\* A loop that is started, or woken, counts from one.
LEMMA EnsuredFacts ==
    ASSUME NEW l \in Links, NEW t \in Targets, Tidy(l)
    PROVE  /\ Ensured(l, t) \in Links
           /\ \/ Ensured(l, t) = l /\ (l.session = "open" \/ l.phase # "none")
              \/ /\ l.session # "open"
                 /\ Ensured(l, t) = Tried(l, t)
                 /\ Tried(l, t).attempt = 1
  BY TriedFacts, Bounds DEF Ensured, Tidy

-----------------------------------------------------------------------------
(* Each thing that happens to a link leaves it sound.                      *)

LEMMA DialedSound ==
    ASSUME NEW l \in Links, NEW t \in Targets, NEW known \in BOOLEAN, NEW stopped \in BOOLEAN,
           NEW status \in Status, NEW lapsed \in BOOLEAN,
           Sound(l, known, stopped, status, lapsed)
    PROVE  Sound(Dialed(l, t), known, stopped, status, lapsed)
<1>1. l.orphans \in Nat /\ l.session \in {"none", "open", "dead"}
  BY DEF Links
<1>2. CASE l.session = "open"
  BY <1>2, DialedFacts
<1>3. CASE l.session # "open"
  <2> DEFINE d == Dialed(l, t)
  <2>1. /\ d.phase = l.phase /\ d.aim = l.aim /\ d.attempt = l.attempt
        /\ d.session = "none" /\ d.dialing # Nowhere
        /\ l.session = "none" => d.orphans = l.orphans
        /\ l.session = "dead" => d.orphans = l.orphans + 1
    BY <1>3, DialedFacts
  <2> HIDE DEF d
  <2> QED
    <3>1. Sound(d, known, stopped, status, lapsed)
      BY <1>1, <1>3, <2>1 DEF Sound, Tidy, Knocking, Current, Reporting
    <3> QED
      BY <3>1 DEF d
<1> QED
  BY <1>2, <1>3

LEMMA EnsuredSound ==
    ASSUME NEW l \in Links, NEW t \in Targets, NEW known \in BOOLEAN,
           NEW status \in Status, NEW lapsed \in BOOLEAN,
           Sound(l, known, FALSE, status, lapsed)
    PROVE  Sound(Ensured(l, t), TRUE, FALSE,
                 IF l.session = "open" THEN "reachable" ELSE status, lapsed)
<1>1. /\ l.orphans \in Nat /\ l.attempt \in Nat /\ l.session \in {"none", "open", "dead"}
      /\ UnreachableAfter \in Nat /\ UnreachableAfter > 0
  BY Bounds DEF Links
<1>2. CASE Ensured(l, t) = l /\ (l.session = "open" \/ l.phase # "none")
  BY <1>1, <1>2 DEF Sound, Tidy, Knocking, Current, Reporting
<1>3. CASE l.session # "open" /\ Ensured(l, t) = Tried(l, t) /\ Tried(l, t).attempt = 1
  <2> DEFINE d == Tried(l, t)
  <2>1. /\ d.phase = "connecting" /\ d.attempt = 1
        /\ d.session = "none" /\ d.dialing # Nowhere
        /\ l.session = "none" => d.orphans = l.orphans
        /\ l.session = "dead" => d.orphans = l.orphans + 1
    BY <1>3, TriedFacts
  <2>2. Ensured(l, t) = d
    BY <1>3
  <2> HIDE DEF d
  <2> QED
    BY <1>1, <1>3, <2>1, <2>2 DEF Sound, Tidy, Knocking, Current, Reporting
<1>4. Tidy(l)
  BY DEF Sound
<1> QED
  BY <1>2, <1>3, <1>4, EnsuredFacts

\* The session of an attempt: a loop that awaits it is over, one that sleeps is not.
Opened(l) ==
    [(IF l.phase = "connecting" THEN LoopOver(l) ELSE l)
     EXCEPT !.session = "open", !.dialing = Nowhere]

LEMMA OpenedSound ==
    ASSUME NEW l \in Links, NEW known \in BOOLEAN, NEW stopped \in BOOLEAN,
           NEW status \in Status, NEW lapsed \in BOOLEAN,
           Sound(l, known, stopped, status, lapsed)
    PROVE  /\ Opened(l) \in Links
           /\ Sound(Opened(l), known, stopped, IF known THEN "reachable" ELSE status,
                    l.phase = "sleeping" /\ l.attempt >= UnreachableAfter)
<1> DEFINE awaited == IF l.phase = "connecting" THEN LoopOver(l) ELSE l
           d == Opened(l)
<1>1. awaited \in Links
  BY LoopOverFacts
<1>2. d = [awaited EXCEPT !.session = "open", !.dialing = Nowhere]
  BY DEF Opened
<1>3. /\ d \in Links
      /\ d.session = "open" /\ d.dialing = Nowhere
      /\ d.phase = awaited.phase /\ d.attempt = awaited.attempt /\ d.aim = awaited.aim
  <2> HIDE DEF awaited, d
  <2> QED
    BY <1>1, <1>2 DEF Links, Somewhere
<1>4. /\ l.attempt \in Nat /\ UnreachableAfter \in Nat /\ UnreachableAfter > 0
      /\ l.phase \in {"none", "connecting", "sleeping"}
  BY Bounds DEF Links
<1>5. CASE l.phase = "connecting"
  <2>1. d.phase = "none" /\ d.attempt = 0 /\ d.aim = Nowhere
    BY <1>3, <1>5, LoopOverFacts
  <2> HIDE DEF d
  <2>2. Sound(d, known, stopped, IF known THEN "reachable" ELSE status, FALSE)
    BY <1>3, <1>4, <2>1 DEF Sound, Tidy, Knocking, Current, Reporting
  <2> QED
    BY <1>3, <1>5, <2>2 DEF d
<1>6. CASE l.phase # "connecting"
  <2>1. d.phase = l.phase /\ d.attempt = l.attempt /\ d.aim = l.aim
    BY <1>3, <1>6
  <2> HIDE DEF d
  <2>2. Sound(d, known, stopped, IF known THEN "reachable" ELSE status,
              l.phase = "sleeping" /\ l.attempt >= UnreachableAfter)
    BY <1>3, <1>4, <1>6, <2>1 DEF Sound, Tidy, Knocking, Current, Reporting
  <2> QED
    BY <1>3, <2>2 DEF d
<1> QED
  BY <1>5, <1>6

\* The end of an attempt that failed.
Failed(l) == [l EXCEPT !.dialing = Nowhere,
                       !.phase = IF l.phase = "connecting" THEN "sleeping" ELSE @]

LEMMA FailedSound ==
    ASSUME NEW l \in Links, NEW known \in BOOLEAN, NEW stopped \in BOOLEAN,
           NEW status \in Status, NEW lapsed \in BOOLEAN,
           Sound(l, known, stopped, status, lapsed), l.dialing # Nowhere
    PROVE  /\ Failed(l) \in Links
           /\ Sound(Failed(l), known, stopped,
                    IF known /\ ReportsDown(l) THEN "unreachable" ELSE status, lapsed)
<1> DEFINE d == Failed(l)
           phase == IF l.phase = "connecting" THEN "sleeping" ELSE l.phase
<1>1. d = [l EXCEPT !.dialing = Nowhere, !.phase = phase]
  BY DEF Failed
<1>2. phase \in {"none", "sleeping"}
  BY DEF Links
<1> HIDE DEF d, phase
<1>3. /\ d \in Links
      /\ d.dialing = Nowhere /\ d.phase = phase
      /\ d.session = l.session /\ d.attempt = l.attempt /\ d.aim = l.aim
      /\ d.orphans = l.orphans
  BY <1>1, <1>2 DEF Links, Somewhere
<1>4. /\ l.attempt \in Nat /\ UnreachableAfter \in Nat /\ UnreachableAfter > 0
      /\ l.phase \in {"none", "connecting", "sleeping"} /\ l.session = "none"
      /\ l.orphans \in Nat
  BY Bounds DEF Links, Sound, Tidy
<1>5. CASE l.phase = "connecting"
  BY <1>3, <1>4, <1>5
  DEF Sound, Tidy, Knocking, Current, Reporting, ReportsDown, d, phase
<1>6. CASE l.phase # "connecting"
  BY <1>3, <1>4, <1>6
  DEF Sound, Tidy, Knocking, Current, Reporting, ReportsDown, d, phase
<1> QED
  BY <1>5, <1>6

\* A loop wakes once the events of lost sessions are handled.
LEMMA WokenSound ==
    ASSUME NEW l \in Links, NEW t, NEW known \in BOOLEAN, known => t \in Targets, NEW stopped \in BOOLEAN,
           NEW status \in Status, NEW lapsed \in BOOLEAN,
           Sound(l, known, stopped, status, lapsed),
           l.phase = "sleeping", l.orphans = 0, l.session # "dead",
           NEW d, d = IF stopped \/ ~known THEN LoopOver(l) ELSE Tried(l, t)
    PROVE  /\ d \in Links
           /\ Sound(d, known, stopped, status, lapsed /\ d.attempt >= UnreachableAfter)
<1>1. /\ l.attempt \in Nat /\ UnreachableAfter \in Nat /\ UnreachableAfter > 0
      /\ l.session \in {"none", "open"}
  BY Bounds DEF Links
<1>2. CASE stopped \/ ~known \/ l.session = "open"
  <2>1. d = LoopOver(l)
    BY <1>2, TriedFacts
  <2>2. d \in Links /\ d.phase = "none" /\ d.attempt = 0 /\ d.aim = Nowhere
        /\ d.session = l.session /\ d.dialing = l.dialing /\ d.orphans = l.orphans
    BY <2>1, LoopOverFacts
  <2> QED
    BY <1>1, <1>2, <2>2 DEF Sound, Tidy, Knocking, Current, Reporting
<1>3. CASE ~stopped /\ known /\ l.session = "none"
  <2>1. d = Tried(l, t)
    BY <1>3
  <2>2. /\ d \in Links /\ d.phase = "connecting" /\ d.session = "none" /\ d.dialing # Nowhere
        /\ d.orphans = l.orphans
        /\ \/ d.attempt = 1
           \/ d.attempt = IF l.attempt > UnreachableAfter THEN l.attempt ELSE l.attempt + 1
    BY <1>3, <2>1, TriedFacts
  <2> QED
    BY <1>1, <1>3, <2>2 DEF Sound, Tidy, Knocking, Current, Reporting
<1> QED
  BY <1>1, <1>2, <1>3

LEMMA LostSound ==
    ASSUME NEW l \in Links, NEW known \in BOOLEAN, NEW stopped \in BOOLEAN,
           NEW status \in Status, NEW lapsed \in BOOLEAN,
           Sound(l, known, stopped, status, lapsed), l.session = "open",
           NEW d, d = [l EXCEPT !.session = "dead"]
    PROVE  d \in Links /\ Sound(d, known, stopped, status, lapsed)
<1>1. /\ d \in Links /\ d.session = "dead" /\ d.phase = l.phase /\ d.attempt = l.attempt
      /\ d.aim = l.aim /\ d.dialing = l.dialing /\ d.orphans = l.orphans
  BY DEF Links
<1> QED
  BY <1>1 DEF Sound, Tidy, Knocking, Current, Reporting

\* The event of a lost session, which is the last one or one replaced before.
Dropped(l) == IF l.session = "dead" THEN [l EXCEPT !.session = "none"]
              ELSE [l EXCEPT !.orphans = l.orphans - 1]

LEMMA DroppedSound ==
    ASSUME NEW l \in Links, NEW t, NEW known \in BOOLEAN, known => t \in Targets, NEW stopped \in BOOLEAN,
           NEW status \in Status, NEW lapsed \in BOOLEAN,
           Sound(l, known, stopped, status, lapsed), l.session = "dead" \/ l.orphans > 0,
           NEW d, d = IF known /\ ~stopped THEN Ensured(Dropped(l), t) ELSE Dropped(l),
           NEW told, told = IF l.session = "open" /\ ~stopped THEN "reachable" ELSE "suspect"
    PROVE  /\ d \in Links
           /\ Sound(d, known, stopped, IF known THEN told ELSE status, lapsed)
<1> DEFINE e == Dropped(l)
           session == IF l.session = "dead" THEN "none" ELSE l.session
           orphans == IF l.session = "dead" THEN l.orphans ELSE l.orphans - 1
<1>1. /\ l.attempt \in Nat /\ UnreachableAfter \in Nat /\ UnreachableAfter > 0
      /\ l.session \in {"none", "open", "dead"} /\ l.orphans \in Nat
      /\ session \in {"none", "open"} /\ orphans \in Nat
  BY Bounds DEF Links
<1>2. /\ e \in Links /\ e.session = session /\ e.orphans = orphans
      /\ e.phase = l.phase /\ e.attempt = l.attempt /\ e.aim = l.aim /\ e.dialing = l.dialing
  BY <1>1 DEF Dropped, Links
<1>3. l.attempt >= UnreachableAfter => lapsed \/ UnreachableAfter = 1
  BY <1>1 DEF Sound, Reporting
<1>4. Tidy(e)
  BY <1>1, <1>2 DEF Sound, Tidy
<1>5. ~known => status = "reachable"
  BY DEF Sound
<1>6. CASE ~(known /\ ~stopped)
  <2>1. d = e
    BY <1>6
  <2> HIDE DEF e, session, orphans
  <2> QED
    BY <1>1, <1>2, <1>3, <1>4, <1>5, <1>6, <2>1 DEF Sound, Reporting
<1>7. CASE known /\ ~stopped
  <2>1. d = Ensured(e, t)
    BY <1>7
  <2>2. CASE d = e /\ (e.session = "open" \/ e.phase # "none")
    BY <1>1, <1>2, <1>3, <1>4, <1>7, <2>2 DEF Sound, Knocking, Current, Reporting, session
  <2>3. CASE e.session # "open" /\ d = Tried(e, t) /\ d.attempt = 1
    <3>1. /\ d \in Links /\ d.phase = "connecting" /\ d.session = "none"
          /\ d.dialing # Nowhere
      BY <1>2, <1>7, <2>3, TriedFacts
    <3> HIDE DEF e, session, orphans
    <3> QED
      BY <1>1, <1>7, <2>3, <3>1 DEF Sound, Tidy, Knocking, Current, Reporting
  <2> QED
    BY <1>2, <1>4, <1>7, <2>1, <2>2, <2>3, EnsuredFacts
<1> QED
  BY <1>6, <1>7

\* A node that is forgotten by Topology keeps its link.
LEMMA RemovedSound ==
    ASSUME NEW l \in Links, NEW stopped \in BOOLEAN, Tidy(l)
    PROVE  Sound(l, FALSE, stopped, "reachable", l.attempt >= UnreachableAfter)
  BY DEF Sound, Reporting

Stopped(n) == [NoLink EXCEPT !.orphans = n]

LEMMA StoppedFacts ==
    ASSUME NEW n \in Nat
    PROVE  /\ NoLink \in Links
           /\ Stopped(n) =
                [session |-> "none", dialing |-> Nowhere, phase |-> "none", aim |-> Nowhere,
                 attempt |-> 0, orphans |-> n]
           /\ Stopped(n) \in Links
<1>1. 0 \in 0..(UnreachableAfter + 1)
  BY Bounds
<1> QED
  BY <1>1 DEF Stopped, NoLink, Links, Somewhere

LEMMA StoppedSound ==
    ASSUME NEW n \in Nat, NEW known \in BOOLEAN, NEW status \in Status, NEW lapsed \in BOOLEAN,
           ~known => status = "reachable",
           NEW d, d = Stopped(n)
    PROVE  Sound(d, known, TRUE, status, lapsed)
<1>1. d.phase = "none" /\ d.attempt = 0 /\ d.aim = Nowhere /\ d.dialing = Nowhere
  BY StoppedFacts
<1> QED
  BY <1>1, Bounds DEF Sound, Tidy, Reporting

-----------------------------------------------------------------------------
(* Every step of the connections keeps the links sound.                    *)

LinkInv == LinkTypes /\ MembersHaveTargets /\ PeersAreSound

LEMMA RemoveAtFacts ==
    ASSUME NEW S, NEW s \in Seq(S), NEW j \in 1..Len(s)
    PROVE  /\ RemoveAt(s, j) \in Seq(S)
           /\ Len(RemoveAt(s, j)) = Len(s) - 1
           /\ \A i \in 1..(Len(s) - 1) : RemoveAt(s, j)[i] = IF i < j THEN s[i] ELSE s[i + 1]
<1> DEFINE front == SubSeq(s, 1, j - 1)
           back == SubSeq(s, j + 1, Len(s))
<1>1. Len(s) \in Nat /\ \A i \in 1..Len(s) : s[i] \in S
  BY LenProperties, ElementOfSeq
<1>2. /\ front \in Seq(S) /\ Len(front) = j - 1
      /\ \A i \in 1..(j - 1) : front[i] = s[i]
  <2>1. \A i \in 1..(j - 1) : s[i] \in S
    BY <1>1
  <2>2. /\ front \in Seq(S) /\ Len(front) = IF 1 <= j - 1 THEN (j - 1) - 1 + 1 ELSE 0
        /\ \A i \in 1..((j - 1) - 1 + 1) : front[i] = s[1 + i - 1]
    BY <1>1, <2>1, SubSeqProperties
  <2> HIDE DEF front
  <2> QED
    BY <1>1, <2>2
<1>3. /\ back \in Seq(S) /\ Len(back) = Len(s) - j
      /\ \A i \in 1..(Len(s) - j) : back[i] = s[j + i]
  <2>1. \A i \in (j + 1)..Len(s) : s[i] \in S
    BY <1>1
  <2>2. /\ back \in Seq(S)
        /\ Len(back) = IF j + 1 <= Len(s) THEN Len(s) - (j + 1) + 1 ELSE 0
        /\ \A i \in 1..(Len(s) - (j + 1) + 1) : back[i] = s[(j + 1) + i - 1]
    BY <1>1, <2>1, SubSeqProperties
  <2> HIDE DEF back
  <2> QED
    BY <1>1, <2>2
<1>4. RemoveAt(s, j) = front \o back
  BY DEF RemoveAt
<1> HIDE DEF front, back
<1>5. /\ front \o back \in Seq(S)
      /\ Len(front \o back) = Len(front) + Len(back)
      /\ \A i \in 1..(Len(front) + Len(back)) :
            (front \o back)[i] = IF i <= Len(front) THEN front[i] ELSE back[i - Len(front)]
  BY <1>2, <1>3, ConcatProperties
<1>6. Len(front) + Len(back) = Len(s) - 1
  BY <1>1, <1>2, <1>3
<1>7. ASSUME NEW i \in 1..(Len(s) - 1)
      PROVE  (front \o back)[i] = IF i < j THEN s[i] ELSE s[i + 1]
  <2>1. CASE i < j
    BY <1>1, <1>2, <1>5, <1>6, <2>1
  <2>2. CASE ~(i < j)
    <3>1. i - (j - 1) \in 1..(Len(s) - j) /\ j + (i - (j - 1)) = i + 1
      BY <1>1, <2>2
    <3>2. back[i - (j - 1)] = s[i + 1]
      BY <1>3, <3>1
    <3> QED
      BY <1>1, <1>2, <1>5, <1>6, <2>2, <3>2
  <2> QED
    BY <2>1, <2>2
<1> QED
  BY <1>1, <1>4, <1>5, <1>6, <1>7

\* What a step does that concerns the link of one node only.
LEMMA OneLink ==
    ASSUME LinkInv, NEW p \in Peers, NEW d \in Links, NEW status \in Status,
           NEW lapsed \in BOOLEAN,
           link' = [link EXCEPT ![p] = d], reach' = [reach EXCEPT ![p] = status],
           forgotten' = [forgotten EXCEPT ![p] = lapsed],
           UNCHANGED <<order, target, disposed>>,
           Sound(d, Known(p), disposed, status, lapsed)
    PROVE  LinkInv'
<1>1. LinkTypes'
  BY DEF LinkInv, LinkTypes
<1>2. MembersHaveTargets'
  BY DEF LinkInv, MembersHaveTargets, Member
<1>3. ASSUME NEW q \in Peers
      PROVE  Sound(link'[q], Known(q)', disposed', reach'[q], forgotten'[q])
  <2>1. CASE q = p
    <3>1. link'[q] = d /\ reach'[q] = status /\ forgotten'[q] = lapsed
      BY <2>1 DEF LinkInv, LinkTypes
    <3> QED
      BY <2>1, <3>1 DEF Known
  <2>2. CASE q # p
    <3>1. link'[q] = link[q] /\ reach'[q] = reach[q] /\ forgotten'[q] = forgotten[q]
      BY <2>2 DEF LinkInv, LinkTypes
    <3>2. Sound(link[q], Known(q), disposed, reach[q], forgotten[q])
      BY DEF LinkInv, PeersAreSound
    <3> QED
      BY <3>1, <3>2 DEF Known
  <2> QED
    BY <2>1, <2>2
<1>4. PeersAreSound'
  BY <1>3 DEF PeersAreSound
<1> QED
  BY <1>1, <1>2, <1>4 DEF LinkInv

LEMMA LinkFacts ==
    ASSUME LinkInv, NEW p \in Peers
    PROVE  /\ link[p] \in Links /\ reach[p] \in Status
           /\ target[p] \in Somewhere /\ forgotten[p] \in BOOLEAN /\ disposed \in BOOLEAN
           /\ Known(p) \in BOOLEAN /\ Member(p) \in BOOLEAN
           /\ Member(p) <=> Known(p)
           /\ Known(p) => target[p] \in Targets
           /\ Sound(link[p], Known(p), disposed, reach[p], forgotten[p])
           /\ link = [link EXCEPT ![p] = link[p]]
           /\ reach = [reach EXCEPT ![p] = reach[p]]
           /\ forgotten = [forgotten EXCEPT ![p] = forgotten[p]]
  BY DEF LinkInv, LinkTypes, MembersHaveTargets, PeersAreSound, Somewhere, Known,
         Member

\* A session is asked for: by a probe, a request or a cancel.
LEMMA DialedLink ==
    ASSUME LinkInv, NEW p \in Peers, Member(p),
           link' = [link EXCEPT ![p] = Dialed(@, target[p])],
           UNCHANGED <<order, reach, target, disposed, forgotten>>
    PROVE  LinkInv'
<1> DEFINE d == Dialed(link[p], target[p])
<1>1. link' = [link EXCEPT ![p] = d]
  OBVIOUS
<1>2. /\ link[p] \in Links /\ target[p] \in Targets /\ Known(p) \in BOOLEAN
      /\ reach[p] \in Status /\ forgotten[p] \in BOOLEAN /\ disposed \in BOOLEAN
      /\ Sound(link[p], Known(p), disposed, reach[p], forgotten[p])
  BY LinkFacts
<1>3. d \in Links
  BY <1>2, DialedFacts
<1>4. Sound(d, Known(p), disposed, reach[p], forgotten[p])
  BY <1>2, DialedSound
<1>5. /\ reach' = [reach EXCEPT ![p] = reach[p]]
      /\ forgotten' = [forgotten EXCEPT ![p] = forgotten[p]]
  BY LinkFacts
<1> HIDE DEF d
<1> QED
  BY <1>1, <1>2, <1>3, <1>4, <1>5, OneLink

LEMMA ConnectedLink ==
    ASSUME LinkInv, NEW p \in Peers, Connected(p)
    PROVE  LinkInv'
<1> DEFINE l == link[p]
           status == IF Member(p) THEN "reachable" ELSE reach[p]
           lapsed == l.phase = "sleeping" /\ l.attempt >= UnreachableAfter
<1>1. /\ link' = [link EXCEPT ![p] = Opened(l)]
      /\ reach' = [reach EXCEPT ![p] = status]
      /\ forgotten' = [forgotten EXCEPT ![p] = lapsed]
      /\ UNCHANGED <<order, target, disposed>>
  BY DEF Connected, Opened, ReportReachability, Reported
<1>2. /\ Opened(l) \in Links
      /\ Sound(Opened(l), Known(p), disposed, status, lapsed)
  <2>1. /\ Opened(l) \in Links
        /\ Sound(Opened(l), Known(p), disposed,
                 IF Known(p) THEN "reachable" ELSE reach[p], lapsed)
    BY LinkFacts, OpenedSound
  <2>2. Member(p) <=> Known(p)
    BY LinkFacts
  <2> QED
    BY <2>1, <2>2
<1>3. status \in Status /\ lapsed \in BOOLEAN
  BY LinkFacts DEF Status
<1> HIDE DEF l, status, lapsed
<1> QED
  BY <1>1, <1>2, <1>3, OneLink

LEMMA UnconnectedLink ==
    ASSUME LinkInv, NEW p \in Peers, Unconnected(p)
    PROVE  LinkInv'
<1> DEFINE l == link[p]
           status == IF Member(p) /\ ReportsDown(l) THEN "unreachable" ELSE reach[p]
<1>1. /\ link' = [link EXCEPT ![p] = Failed(l)]
      /\ UNCHANGED <<order, target, disposed, forgotten>>
  BY DEF Unconnected, Failed
<1>2. reach' = [reach EXCEPT ![p] = status]
  <2>1. CASE ReportsDown(l)
    BY <2>1 DEF Unconnected, ReportReachability, Reported
  <2>2. CASE ~ReportsDown(l)
    BY <2>2, LinkFacts DEF Unconnected
  <2> QED
    BY <2>1, <2>2
<1>3. /\ Failed(l) \in Links
      /\ Sound(Failed(l), Known(p), disposed, status, forgotten[p])
  <2>1. /\ Failed(l) \in Links
        /\ Sound(Failed(l), Known(p), disposed,
                 IF Known(p) /\ ReportsDown(l) THEN "unreachable" ELSE reach[p],
                 forgotten[p])
    BY LinkFacts, FailedSound DEF Unconnected
  <2>2. Member(p) <=> Known(p)
    BY LinkFacts
  <2> QED
    BY <2>1, <2>2
<1>4. status \in Status /\ forgotten[p] \in BOOLEAN
  BY LinkFacts DEF Status
<1>5. forgotten' = [forgotten EXCEPT ![p] = forgotten[p]]
  BY <1>1, LinkFacts
<1> HIDE DEF l, status
<1> QED
  BY <1>1, <1>2, <1>3, <1>4, <1>5, OneLink

LEMMA WokenLink ==
    ASSUME LinkInv, NEW p \in Peers, LoopWakes(p)
    PROVE  LinkInv'
<1> DEFINE l == link[p]
           d == IF disposed \/ ~Member(p) THEN LoopOver(l) ELSE Tried(l, target[p])
           lapsed == forgotten[p] /\ d.attempt >= UnreachableAfter
<1>1. link' = [link EXCEPT ![p] = d] /\ UNCHANGED <<order, target, disposed, reach>>
  BY DEF LoopWakes, routingVars
<1>2. link'[p] = d
  BY <1>1, LinkFacts DEF LinkInv, LinkTypes
<1>3. forgotten' = [forgotten EXCEPT ![p] = lapsed]
  <2> HIDE DEF d
  <2> QED
    BY <1>2 DEF LoopWakes
<1>4. d \in Links /\ Sound(d, Known(p), disposed, reach[p], lapsed)
  <2>1. d = IF disposed \/ ~Known(p) THEN LoopOver(l) ELSE Tried(l, target[p])
    BY LinkFacts
  <2>2. l.phase = "sleeping" /\ l.orphans = 0 /\ l.session # "dead"
    BY DEF LoopWakes
  <2>3. /\ l \in Links /\ reach[p] \in Status /\ forgotten[p] \in BOOLEAN
        /\ disposed \in BOOLEAN /\ Known(p) \in BOOLEAN
        /\ Known(p) => target[p] \in Targets
        /\ Sound(l, Known(p), disposed, reach[p], forgotten[p])
    BY LinkFacts
  <2> HIDE DEF l, d
  <2> QED
    BY <2>1, <2>2, <2>3, WokenSound
<1>5. reach' = [reach EXCEPT ![p] = reach[p]] /\ reach[p] \in Status
  BY <1>1, LinkFacts
<1>6. lapsed \in BOOLEAN
  OBVIOUS
<1> HIDE DEF l, d, lapsed
<1> QED
  BY <1>1, <1>3, <1>4, <1>5, <1>6, OneLink

LEMMA LostLink ==
    ASSUME LinkInv, NEW p \in Peers, Lost(p)
    PROVE  LinkInv'
<1> DEFINE d == [link[p] EXCEPT !.session = "dead"]
<1>1. /\ link' = [link EXCEPT ![p] = d]
      /\ UNCHANGED <<order, target, disposed, reach, forgotten>>
  BY DEF Lost, routingVars
<1>2. d \in Links /\ Sound(d, Known(p), disposed, reach[p], forgotten[p])
  <2>1. /\ link[p] \in Links /\ reach[p] \in Status /\ forgotten[p] \in BOOLEAN
        /\ disposed \in BOOLEAN /\ Known(p) \in BOOLEAN
        /\ Sound(link[p], Known(p), disposed, reach[p], forgotten[p])
    BY LinkFacts
  <2> QED
    BY <2>1, LostSound DEF Lost, Open
<1>3. /\ reach' = [reach EXCEPT ![p] = reach[p]] /\ reach[p] \in Status
      /\ forgotten' = [forgotten EXCEPT ![p] = forgotten[p]] /\ forgotten[p] \in BOOLEAN
  BY <1>1, LinkFacts
<1> HIDE DEF d
<1> QED
  BY <1>1, <1>2, <1>3, OneLink

LEMMA ClosedLink ==
    ASSUME LinkInv, NEW p \in Peers, CloseEvent(p)
    PROVE  LinkInv'
<1> DEFINE l == link[p]
           d == IF Known(p) /\ ~disposed THEN Ensured(Dropped(l), target[p]) ELSE Dropped(l)
           told == IF l.session = "open" /\ ~disposed THEN "reachable" ELSE "suspect"
           status == IF Known(p) THEN told ELSE reach[p]
<1>1. /\ l \in Links /\ reach[p] \in Status /\ forgotten[p] \in BOOLEAN
      /\ disposed \in BOOLEAN /\ Known(p) \in BOOLEAN
      /\ Known(p) => target[p] \in Targets
      /\ Member(p) <=> Known(p)
      /\ Sound(l, Known(p), disposed, reach[p], forgotten[p])
  BY LinkFacts
<1>2. /\ link' = [link EXCEPT ![p] = d]
      /\ UNCHANGED <<order, target, disposed, forgotten>>
  BY <1>1 DEF CloseEvent, AfterLoss, Dropped
<1>3. reach' = [reach EXCEPT ![p] = status]
  BY <1>1 DEF CloseEvent, ReportReachability, Reported, LossStatus, Open
<1>4. d \in Links /\ Sound(d, Known(p), disposed, status, forgotten[p])
  <2>1. l.session = "dead" \/ l.orphans > 0
    BY DEF CloseEvent
  <2>2. d = IF Known(p) /\ ~disposed THEN Ensured(Dropped(l), target[p]) ELSE Dropped(l)
    OBVIOUS
  <2>3. told = IF l.session = "open" /\ ~disposed THEN "reachable" ELSE "suspect"
    OBVIOUS
  <2> HIDE DEF l, d, told
  <2> QED
    BY <1>1, <2>1, <2>2, <2>3, DroppedSound
<1>5. status \in Status
  BY <1>1 DEF Status
<1>6. forgotten' = [forgotten EXCEPT ![p] = forgotten[p]]
  BY <1>2, LinkFacts
<1> HIDE DEF l, d, status
<1> QED
  BY <1>1, <1>2, <1>3, <1>4, <1>5, <1>6, OneLink

LEMMA DisposedLink ==
    ASSUME LinkInv, Disposed
    PROVE  LinkInv'
<1> DEFINE n(p) == link[p].orphans + (IF link[p].session = "none" THEN 0 ELSE 1)
<1>1. ASSUME NEW p \in Peers
      PROVE  /\ link'[p] = Stopped(n(p))
             /\ n(p) \in Nat
             /\ link'[p] \in Links
  <2>1. link'[p] = Stopped(n(p))
    BY DEF Disposed, Stopped
  <2>2. n(p) \in Nat
    BY LinkFacts DEF Links
  <2> HIDE DEF n
  <2> QED
    BY <2>1, <2>2, StoppedFacts
<1>2. link' \in [Peers -> Links]
  <2>1. link' = [p \in Peers |-> Stopped(n(p))]
    BY DEF Disposed, Stopped
  <2> HIDE DEF n
  <2>2. \A p \in Peers : Stopped(n(p)) \in Links
    BY <1>1, StoppedFacts
  <2> QED
    BY <2>1, <2>2
<1>3. UNCHANGED <<order, reach, target, forgotten>> /\ disposed' = TRUE
  BY DEF Disposed, routingVars
<1>4. LinkTypes' /\ MembersHaveTargets'
  BY <1>2, <1>3 DEF LinkInv, LinkTypes, MembersHaveTargets, Member
<1>5. ASSUME NEW p \in Peers
      PROVE  Sound(link'[p], Known(p)', disposed', reach'[p], forgotten'[p])
  <2>1. /\ Known(p) \in BOOLEAN /\ reach[p] \in Status /\ forgotten[p] \in BOOLEAN
        /\ ~Known(p) => reach[p] = "reachable"
    BY LinkFacts DEF Sound
  <2> HIDE DEF n
  <2>2. Sound(link'[p], Known(p), TRUE, reach[p], forgotten[p])
    BY <1>1, <2>1, StoppedSound
  <2> QED
    BY <1>3, <2>2 DEF Known
<1> QED
  BY <1>4, <1>5 DEF LinkInv, PeersAreSound

LEMMA AnnouncedMembers ==
    ASSUME LinkInv, NEW p \in Peers, NEW t \in Targets,
           order' = IF Member(p) THEN order ELSE Append(order, p),
           target' = [target EXCEPT ![p] = t]
    PROVE  order' \in Seq(Peers) /\ MembersHaveTargets'
<1>1. /\ order \in Seq(Peers) /\ Len(order) \in Nat /\ DOMAIN order = 1..Len(order)
      /\ target \in [Peers -> Somewhere] /\ t # Nowhere
  BY LenProperties, Bounds DEF LinkInv, LinkTypes
<1>2. /\ \A i, j \in DOMAIN order : order[i] = order[j] => i = j
      /\ \A q \in Peers : Member(q) <=> target[q] # Nowhere
  BY DEF LinkInv, MembersHaveTargets
<1>3. CASE Member(p)
  <2>1. order' = order
    BY <1>3
  <2> QED
    BY <1>1, <1>2, <1>3, <2>1 DEF MembersHaveTargets, Member
<1>4. CASE ~Member(p)
  <2>1. order' = Append(order, p)
    BY <1>4
  <2>2. /\ order' \in Seq(Peers) /\ Len(order') = Len(order) + 1
        /\ \A i \in 1..Len(order) : order'[i] = order[i]
        /\ order'[Len(order) + 1] = p
    BY <1>1, <2>1, AppendProperties
  <2>3. DOMAIN order' = 1..(Len(order) + 1)
    BY <2>2, LenProperties
  <2>4. \A i \in DOMAIN order : order[i] # p
    BY <1>4 DEF Member
  <2>5. \A i, j \in DOMAIN order' : order'[i] = order'[j] => i = j
    BY <1>1, <1>2, <2>2, <2>3, <2>4
  <2>6. ASSUME NEW q \in Peers
        PROVE  Member(q)' <=> target'[q] # Nowhere
    <3>1. Member(q)' <=> Member(q) \/ q = p
      BY <1>1, <2>2, <2>3 DEF Member
    <3> QED
      BY <1>1, <1>2, <3>1
  <2> QED
    BY <2>2, <2>5, <2>6 DEF MembersHaveTargets
<1> QED
  BY <1>3, <1>4

LEMMA AnnouncedLink ==
    ASSUME LinkInv, NEW p \in Peers, NEW t \in TargetsOf[p], Announced(p, t)
    PROVE  LinkInv'
<1>1. t \in Targets
  BY Http2LinkAssumption
<1>2. /\ target' = [target EXCEPT ![p] = t] /\ ~disposed
      /\ order' = IF Member(p) THEN order ELSE Append(order, p)
      /\ UNCHANGED <<disposed, forgotten>>
  BY DEF Announced
<1>3. order' \in Seq(Peers) /\ MembersHaveTargets'
  BY <1>1, <1>2, AnnouncedMembers
<1>4. target' \in [Peers -> Somewhere]
  BY <1>1, <1>2 DEF LinkInv, LinkTypes, Somewhere
<1>5. link' = [q \in Peers |-> IF target'[q] = Nowhere THEN link[q]
                               ELSE Ensured(link[q], target'[q])]
  BY DEF Announced, EnsuredAll
<1>6. reach' = [q \in Peers |-> IF link[q].session = "open" /\ (Member(q) \/ q = p)
                                THEN "reachable" ELSE reach[q]]
  BY DEF Announced, Open
<1>10. disposed' = FALSE
  BY <1>2 DEF LinkInv, LinkTypes
<1>7. ASSUME NEW q \in Peers
      PROVE  /\ link'[q] \in Links
             /\ reach'[q] \in Status
             /\ Sound(link'[q], Known(q)', disposed', reach'[q], forgotten'[q])
  <2>1. /\ link[q] \in Links /\ reach[q] \in Status /\ forgotten[q] \in BOOLEAN
        /\ Known(q) \in BOOLEAN /\ Known(q)' \in BOOLEAN
        /\ Member(q) <=> Known(q)
        /\ Sound(link[q], Known(q), FALSE, reach[q], forgotten[q])
    BY <1>2, LinkFacts DEF Known
  <2>2. CASE Known(q)'
    <3>1. target'[q] \in Targets
      BY <1>4, <2>2 DEF Known, Somewhere
    <3>2. link'[q] = Ensured(link[q], target'[q])
      BY <1>5, <2>2 DEF Known
    <3>3. Member(q) \/ q = p
      BY <1>1, <1>2, <2>1, <2>2 DEF LinkInv, LinkTypes, Known
    <3>4. reach'[q] = IF link[q].session = "open" THEN "reachable" ELSE reach[q]
      BY <1>6, <3>3
    <3>5. Tidy(link[q])
      BY <2>1 DEF Sound
    <3>6. Ensured(link[q], target'[q]) \in Links
      BY <2>1, <3>1, <3>5, EnsuredFacts
    <3>7. Sound(link'[q], TRUE, FALSE, reach'[q], forgotten[q])
      BY <2>1, <3>1, <3>2, <3>4, EnsuredSound
    <3>8. reach'[q] \in Status
      BY <2>1, <3>4 DEF Status
    <3>9. Known(q)' = TRUE /\ disposed' = FALSE /\ forgotten'[q] = forgotten[q]
      BY <1>2, <1>10, <2>1, <2>2
    <3> QED
      BY <3>2, <3>6, <3>7, <3>8, <3>9
  <2>3. CASE ~Known(q)'
    <3>1. ~Known(q) /\ q # p
      BY <1>1, <1>2, <1>4, <2>3, Bounds DEF LinkInv, LinkTypes, Known
    <3>2. link'[q] = link[q] /\ reach'[q] = reach[q]
      BY <1>5, <1>6, <2>1, <2>3, <3>1 DEF Known
    <3>3. Known(q)' = Known(q) /\ disposed' = FALSE /\ forgotten'[q] = forgotten[q]
      BY <1>2, <1>10, <2>1, <2>3, <3>1
    <3> QED
      BY <2>1, <3>2, <3>3
  <2> QED
    BY <2>2, <2>3
<1>8. link' \in [Peers -> Links] /\ reach' \in [Peers -> Status]
  BY <1>5, <1>6, <1>7
<1>9. LinkTypes'
  BY <1>2, <1>3, <1>4, <1>8 DEF LinkInv, LinkTypes
<1> QED
  BY <1>3, <1>7, <1>9 DEF LinkInv, PeersAreSound

LEMMA RemovedMembers ==
    ASSUME LinkInv, NEW p \in Peers, NEW j \in DOMAIN order, order[j] = p,
           order' = RemoveAt(order, j),
           target' = [target EXCEPT ![p] = Nowhere]
    PROVE  order' \in Seq(Peers) /\ MembersHaveTargets'
<1>1. /\ order \in Seq(Peers) /\ Len(order) \in Nat /\ DOMAIN order = 1..Len(order)
      /\ target \in [Peers -> Somewhere]
  BY LenProperties DEF LinkInv, LinkTypes
<1>2. /\ \A h, i \in DOMAIN order : order[h] = order[i] => h = i
      /\ \A q \in Peers : Member(q) <=> target[q] # Nowhere
  BY DEF LinkInv, MembersHaveTargets
<1>3. /\ order' \in Seq(Peers) /\ Len(order') = Len(order) - 1
      /\ \A i \in 1..(Len(order) - 1) : order'[i] = IF i < j THEN order[i] ELSE order[i + 1]
  BY <1>1, RemoveAtFacts
<1>4. DOMAIN order' = 1..(Len(order) - 1)
  BY <1>3, LenProperties
<1> DEFINE was(i) == IF i < j THEN i ELSE i + 1
<1>10. \A i \in DOMAIN order' :
          was(i) \in DOMAIN order /\ was(i) # j /\ order'[i] = order[was(i)]
  BY <1>1, <1>3, <1>4
<1>11. \A h, i \in DOMAIN order' : was(h) = was(i) => h = i
  BY <1>1, <1>4
<1>5. \A h, i \in DOMAIN order' : order'[h] = order'[i] => h = i
  <2> HIDE DEF was
  <2> QED
    BY <1>2, <1>10, <1>11
<1>6. ASSUME NEW q \in Peers
      PROVE  Member(q)' <=> target'[q] # Nowhere
  <2> HIDE DEF was
  <2>1. Member(q)' => Member(q) /\ q # p
    BY <1>2, <1>10 DEF Member
  <2>2. ASSUME Member(q), q # p
        PROVE  Member(q)'
    <3>1. PICK i \in 1..Len(order) : order[i] = q
      BY <1>1, <2>2 DEF Member
    <3>2. i # j
      BY <2>2, <3>1
    <3>3. CASE i < j
      BY <1>1, <1>3, <1>4, <3>1, <3>3 DEF Member
    <3>4. CASE i > j
      <4>1. i - 1 \in DOMAIN order' /\ order'[i - 1] = q
        BY <1>1, <1>3, <1>4, <3>1, <3>4
      <4> QED
        BY <4>1 DEF Member
    <3> QED
      BY <1>1, <3>1, <3>2, <3>3, <3>4
  <2> QED
    BY <1>1, <1>2, <2>1, <2>2
<1> QED
  BY <1>3, <1>5, <1>6 DEF MembersHaveTargets

LEMMA RemovedLink ==
    ASSUME LinkInv, NEW p \in Peers, Removed(p)
    PROVE  LinkInv'
<1>1. /\ target' = [target EXCEPT ![p] = Nowhere] /\ ~disposed
      /\ UNCHANGED disposed
      /\ forgotten' = [forgotten EXCEPT ![p] = link[p].attempt >= UnreachableAfter]
  BY DEF Removed
<1>2. PICK j \in DOMAIN order : order[j] = p /\ order' = RemoveAt(order, j)
  BY DEF Removed
<1>3. order' \in Seq(Peers) /\ MembersHaveTargets'
  BY <1>1, <1>2, RemovedMembers
<1>4. target' \in [Peers -> Somewhere]
  BY <1>1 DEF LinkInv, LinkTypes, Somewhere
<1>5. link' = [q \in Peers |-> IF target'[q] = Nowhere THEN link[q]
                               ELSE Ensured(link[q], target'[q])]
  BY DEF Removed, EnsuredAll
<1>6. reach' = [q \in Peers |-> IF q = p \/ (link[q].session = "open" /\ Member(q))
                                THEN "reachable" ELSE reach[q]]
  BY DEF Removed, Open
<1>7. forgotten' \in [Peers -> BOOLEAN]
  BY <1>1 DEF LinkInv, LinkTypes
<1>11. disposed' = FALSE
  BY <1>1 DEF LinkInv, LinkTypes
<1>8. ASSUME NEW q \in Peers
      PROVE  /\ link'[q] \in Links
             /\ reach'[q] \in Status
             /\ Sound(link'[q], Known(q)', disposed', reach'[q], forgotten'[q])
  <2>1. /\ link[q] \in Links /\ reach[q] \in Status /\ forgotten[q] \in BOOLEAN
        /\ Known(q) \in BOOLEAN /\ Known(q)' \in BOOLEAN
        /\ Member(q) <=> Known(q)
        /\ Sound(link[q], Known(q), FALSE, reach[q], forgotten[q])
        /\ Tidy(link[q])
    BY <1>1, LinkFacts DEF Known, Sound
  <2>2. CASE q = p
    <3>1. /\ ~Known(q)' /\ link'[q] = link[q] /\ reach'[q] = "reachable"
          /\ forgotten'[q] = (link[q].attempt >= UnreachableAfter)
      BY <1>1, <1>5, <1>6, <2>2 DEF LinkInv, LinkTypes, Known
    <3>2. Sound(link[q], FALSE, FALSE, "reachable", link[q].attempt >= UnreachableAfter)
      BY <2>1, RemovedSound
    <3>3. Known(q)' = FALSE /\ disposed' = FALSE
      BY <1>11, <2>1, <3>1
    <3>4. reach'[q] \in Status
      BY <3>1 DEF Status
    <3> QED
      BY <2>1, <3>1, <3>2, <3>3, <3>4
  <2>3. CASE q # p /\ Known(q)
    <3>1. target'[q] = target[q] /\ target[q] \in Targets
      BY <1>1, <2>3, LinkFacts DEF LinkInv, LinkTypes
    <3>2. /\ link'[q] = Ensured(link[q], target'[q]) /\ Known(q)'
          /\ forgotten'[q] = forgotten[q]
          /\ reach'[q] = IF link[q].session = "open" THEN "reachable" ELSE reach[q]
      BY <1>1, <1>5, <1>6, <2>1, <2>3, <3>1 DEF LinkInv, LinkTypes, Known
    <3>3. Ensured(link[q], target'[q]) \in Links
      BY <2>1, <3>1, EnsuredFacts
    <3>4. Sound(link'[q], TRUE, FALSE, reach'[q], forgotten[q])
      BY <2>1, <3>1, <3>2, EnsuredSound
    <3>5. reach'[q] \in Status
      BY <2>1, <3>2 DEF Status
    <3>6. Known(q)' = TRUE /\ disposed' = FALSE
      BY <1>11, <2>1, <3>2
    <3> QED
      BY <3>2, <3>3, <3>4, <3>5, <3>6
  <2>4. CASE q # p /\ ~Known(q)
    <3>1. /\ ~Known(q)' /\ link'[q] = link[q] /\ reach'[q] = reach[q]
          /\ forgotten'[q] = forgotten[q]
      BY <1>1, <1>5, <1>6, <2>1, <2>4 DEF LinkInv, LinkTypes, Known
    <3>2. Known(q)' = Known(q) /\ disposed' = FALSE
      BY <1>11, <2>1, <2>4, <3>1
    <3> QED
      BY <2>1, <3>1, <3>2
  <2> QED
    BY <2>1, <2>2, <2>3, <2>4
<1>9. link' \in [Peers -> Links] /\ reach' \in [Peers -> Status]
  BY <1>5, <1>6, <1>8
<1>10. LinkTypes'
  BY <1>1, <1>3, <1>4, <1>7, <1>9 DEF LinkInv, LinkTypes
<1> QED
  BY <1>3, <1>8, <1>10 DEF LinkInv, PeersAreSound

LEMMA InitLink == Init => LinkInv
<1> SUFFICES ASSUME Init PROVE LinkInv
  OBVIOUS
<1>1. /\ order = FirstMembers /\ reach = [p \in Peers |-> "reachable"]
      /\ target = AtStart /\ disposed = FALSE
      /\ forgotten = [p \in Peers |-> FALSE]
      /\ link = [p \in Peers |-> IF AtStart[p] = Nowhere THEN NoLink
                                 ELSE Ensured(NoLink, AtStart[p])]
  BY DEF Init, RoutingInit, LinkInit
<1>2. AtStart \in [Peers -> Somewhere]
  BY Http2LinkAssumption DEF Somewhere
<1>3. MembersHaveTargets
  BY <1>1, TopologyRoutingAssumption, Http2LinkAssumption
  DEF MembersHaveTargets, Member, IsInjective
<1>4. /\ NoLink \in Links /\ NoLink.phase = "none" /\ NoLink.aim = Nowhere
      /\ NoLink.attempt = 0 /\ NoLink.dialing = Nowhere /\ NoLink.session = "none"
      /\ NoLink.orphans = 0
  BY StoppedFacts DEF NoLink
<1>5. Tidy(NoLink)
  BY <1>4 DEF Tidy
<1>6. ASSUME NEW p \in Peers
      PROVE  /\ link[p] \in Links
             /\ Sound(link[p], Known(p), disposed, reach[p], forgotten[p])
  <2>1. CASE AtStart[p] = Nowhere
    <3>1. link[p] = NoLink /\ Known(p) = FALSE /\ reach[p] = "reachable"
      BY <1>1, <2>1 DEF Known
    <3> QED
      BY <1>4, <1>5, <3>1, Bounds DEF Sound, Reporting
  <2>2. CASE AtStart[p] # Nowhere
    <3> DEFINE d == Ensured(NoLink, AtStart[p])
    <3>1. /\ link[p] = d /\ Known(p) = TRUE /\ reach[p] = "reachable"
          /\ disposed = FALSE
          /\ AtStart[p] \in Targets
      BY <1>1, <1>2, <2>2 DEF Known, Somewhere
    <3>2. d \in Links /\ d = Tried(NoLink, AtStart[p]) /\ d.attempt = 1
      BY <1>4, <1>5, <3>1, EnsuredFacts
    <3>3. d.phase = "connecting" /\ d.dialing # Nowhere /\ d.session = "none"
      BY <1>4, <3>1, <3>2, TriedFacts
    <3> HIDE DEF d
    <3> QED
      BY <3>1, <3>2, <3>3, Bounds DEF Sound, Tidy, Knocking, Current, Reporting
  <2> QED
    BY <2>1, <2>2
<1>7. link \in [Peers -> Links]
  BY <1>1, <1>6
<1>8. LinkTypes
  BY <1>1, <1>2, <1>7, TopologyRoutingAssumption DEF LinkTypes, Status
<1> QED
  BY <1>3, <1>6, <1>8 DEF LinkInv, PeersAreSound

LEMMA SameLinks ==
    ASSUME LinkInv, UNCHANGED <<order, reach, target, link, disposed, forgotten>>
    PROVE  LinkInv'
<1>1. LinkTypes' /\ MembersHaveTargets'
  BY DEF LinkInv, LinkTypes, MembersHaveTargets, Member
<1>2. PeersAreSound'
  BY DEF LinkInv, PeersAreSound, Known
<1> QED
  BY <1>1, <1>2 DEF LinkInv

\* Only members are chosen.
LEMMA SelectedIsMember ==
    ASSUME LinkInv, NEW strategy, NEW pin, NEW p, Selects(strategy, pin, p), p # Nobody
    PROVE  p \in Peers /\ Member(p)
<1>1. \A j \in DOMAIN order : order[j] \in Peers
  BY LenProperties, ElementOfSeq DEF LinkInv, LinkTypes
<1> DEFINE chosen == {order[j] : j \in {i \in Candidates : Prefers(strategy, pin, i)}}
<1>2. chosen # {} /\ p \in chosen
  BY DEF Selects
<1>3. PICK j \in DOMAIN order : order[j] = p
  BY <1>2 DEF Candidates
<1> QED
  BY <1>1, <1>3 DEF Member

-----------------------------------------------------------------------------
(* What holds of a request: c and x are the call and its cancel, s the     *)
(* provider's end, f the frames on their way, l the link to its node.      *)

\* The first frame tells whether the request is accepted, and nobody acts on a later one
\* before it; a cancel follows only what was accepted.
Carries(c, x, s, f, l) ==
    /\ c.phase \notin {"idle", "unrouted"} => c.peer \in Peers
    /\ c.phase \in {"idle", "unrouted"} => ~c.counted /\ ~c.live
    /\ c.phase = "connecting" => l.dialing # Nowhere
    /\ c.phase \in {"idle", "connecting"} => s.phase = "none" /\ ~c.live
    /\ c.live => l.session = "open"
    /\ s.phase = "arriving" => c.phase = "waiting" /\ c.live /\ f = <<>>
    /\ s.phase = "none" => f = <<>>
    /\ f # <<>> => c.live
    /\ \A j \in DOMAIN f : f[j] \in {"headers", "refused"} => j = 1 /\ c.phase = "waiting"
    /\ c.phase = "waiting" /\ f # <<>> => f[1] \in {"headers", "refused"}
    /\ c.phase = "waiting" /\ c.live /\ s.phase \in {"running", "over"} => f # <<>>
    /\ x # "none" => c.phase \in {"cancelled", "late"}
    /\ c.phase \in {"waiting", "sent"} /\ c.live =>
        \/ s.phase = "arriving"
        \/ s.phase = "running" /\ s.entry
        \/ \E j \in DOMAIN f : f[j] \in {"refused", "final"}

Carried(r) == Carries(call[r], cancel[r], serving[r], stream[r], link[call[r].peer])

CallInv == CallTypes /\ \A r \in Requests : Carried(r)

\* A connection a request depends on stays.
Keeps(l, d) == /\ l.dialing # Nowhere => d.dialing # Nowhere
               /\ l.session = "open" => d.session = "open"

LEMMA KeepsCarries ==
    ASSUME NEW c, NEW x, NEW s, NEW f, NEW l, NEW d, Carries(c, x, s, f, l), Keeps(l, d)
    PROVE  Carries(c, x, s, f, d)
  BY DEF Carries, Keeps

LEMMA CallFacts ==
    ASSUME CallInv, NEW r \in Requests
    PROVE  /\ call[r] \in Calls /\ serving[r] \in Servings /\ stream[r] \in Seq(Frames)
           /\ cancel[r] \in Cancels
           /\ Carries(call[r], cancel[r], serving[r], stream[r], link[call[r].peer])
           /\ call[r].phase \notin {"idle", "unrouted"} => call[r].peer \in Peers
  BY DEF CallInv, CallTypes, Carried, Carries, Frames

\* Steps of the connections alone.
LEMMA SameCalls ==
    ASSUME LinkInv, CallInv, active' \in [Peers -> Nat],
           UNCHANGED <<call, cancel, serving, stream>>,
           \A p \in Peers : Keeps(link[p], link'[p])
    PROVE  CallInv'
<1>1. CallTypes'
  BY DEF CallInv, CallTypes
<1>2. ASSUME NEW r \in Requests
      PROVE  Carried(r)'
  <2>1. CASE call[r].peer \in Peers
    BY <2>1, CallFacts, KeepsCarries DEF Carried
  <2>2. CASE call[r].peer \notin Peers
    <3>1. call[r].phase \in {"idle", "unrouted"} /\ ~call[r].live
      BY <2>2, CallFacts DEF Carries
    <3> QED
      BY <3>1, CallFacts DEF Carried, Carries
  <2> QED
    BY <2>1, <2>2
<1> QED
  BY <1>1, <1>2 DEF CallInv

\* A step of one request, which takes no connection away from another.
LEMMA OneCall ==
    ASSUME LinkInv, CallInv, NEW r \in Requests, CallTypes',
           \A q \in Requests : q # r =>
                /\ call'[q] = call[q] /\ cancel'[q] = cancel[q]
                /\ serving'[q] = serving[q] /\ stream'[q] = stream[q],
           \A p \in Peers : Keeps(link[p], link'[p]),
           Carried(r)'
    PROVE  CallInv'
<1>1. ASSUME NEW q \in Requests, q # r
      PROVE  Carried(q)'
  <2>1. /\ call'[q] = call[q] /\ cancel'[q] = cancel[q]
        /\ serving'[q] = serving[q] /\ stream'[q] = stream[q]
    BY <1>1
  <2>2. CASE call[q].peer \in Peers
    BY <2>1, <2>2, CallFacts, KeepsCarries DEF Carried
  <2>3. CASE call[q].peer \notin Peers
    <3>1. call[q].phase \in {"idle", "unrouted"} /\ ~call[q].live
      BY <2>3, CallFacts DEF Carries
    <3> QED
      BY <2>1, <3>1, CallFacts DEF Carried, Carries
  <2> QED
    BY <2>2, <2>3
<1> QED
  BY <1>1 DEF CallInv

LEMMA SameKeeps ==
    ASSUME UNCHANGED link
    PROVE  \A p \in Peers : Keeps(link[p], link'[p])
  BY DEF Keeps

LEMMA DialedKeeps ==
    ASSUME NEW l \in Links, NEW t \in Targets
    PROVE  Keeps(l, Dialed(l, t))
  BY DialedFacts DEF Keeps

LEMMA LoopOverKeeps ==
    ASSUME NEW l \in Links
    PROVE  Keeps(l, LoopOver(l))
  BY LoopOverFacts DEF Keeps

LEMMA TriedKeeps ==
    ASSUME NEW l \in Links, NEW t \in Targets
    PROVE  Keeps(l, Tried(l, t))
  BY TriedFacts, LoopOverFacts DEF Keeps

LEMMA EnsuredKeeps ==
    ASSUME NEW l \in Links, NEW t \in Targets, Tidy(l)
    PROVE  Keeps(l, Ensured(l, t))
  BY EnsuredFacts, TriedKeeps DEF Keeps

LEMMA DroppedKeeps ==
    ASSUME NEW l \in Links, Tidy(l), l.session = "dead" \/ l.orphans > 0
    PROVE  Dropped(l) \in Links /\ Tidy(Dropped(l)) /\ Keeps(l, Dropped(l))
<1>1. CASE l.session = "dead"
  BY <1>1 DEF Dropped, Links, Tidy, Keeps
<1>2. CASE l.session # "dead" /\ l.orphans > 0
  <2>1. l.orphans - 1 \in Nat
    BY <1>2 DEF Links
  <2> QED
    BY <1>2, <2>1 DEF Dropped, Links, Tidy, Keeps
<1> QED
  BY <1>1, <1>2

\* Changes of Topology, loops that wake and events of lost sessions.
LEMMA AllKeep ==
    ASSUME LinkInv, NEW p \in Peers,
           \/ \E t \in TargetsOf[p] : Announced(p, t)
           \/ Removed(p) \/ LoopWakes(p) \/ CloseEvent(p)
    PROVE  \A q \in Peers : Keeps(link[q], link'[q])
<1> SUFFICES ASSUME NEW q \in Peers PROVE Keeps(link[q], link'[q])
  OBVIOUS
<1>1. link[q] \in Links /\ Tidy(link[q]) /\ (Known(q) => target[q] \in Targets)
      /\ (Member(q) <=> Known(q))
  BY LinkFacts DEF Sound
<1>2. Keeps(link[q], link[q])
  BY DEF Keeps
<1>3. ASSUME NEW t \in TargetsOf[p], Announced(p, t)
      PROVE  Keeps(link[q], link'[q])
  <2>1. t \in Targets /\ target' = [target EXCEPT ![p] = t]
    BY <1>3, Http2LinkAssumption DEF Announced
  <2>2. target'[q] = Nowhere \/ target'[q] \in Targets
    BY <2>1 DEF LinkInv, LinkTypes, Somewhere
  <2>3. link'[q] = IF target'[q] = Nowhere THEN link[q] ELSE Ensured(link[q], target'[q])
    BY <1>3 DEF Announced, EnsuredAll
  <2> QED
    BY <1>1, <1>2, <2>2, <2>3, EnsuredKeeps
<1>4. ASSUME Removed(p)
      PROVE  Keeps(link[q], link'[q])
  <2>1. target' = [target EXCEPT ![p] = Nowhere]
    BY <1>4 DEF Removed
  <2>2. target'[q] = Nowhere \/ target'[q] \in Targets
    BY <2>1 DEF LinkInv, LinkTypes, Somewhere
  <2>3. link'[q] = IF target'[q] = Nowhere THEN link[q] ELSE Ensured(link[q], target'[q])
    BY <1>4 DEF Removed, EnsuredAll
  <2> QED
    BY <1>1, <1>2, <2>2, <2>3, EnsuredKeeps
<1>5. ASSUME LoopWakes(p)
      PROVE  Keeps(link[q], link'[q])
  <2> DEFINE d == IF disposed \/ ~Member(p) THEN LoopOver(link[p]) ELSE Tried(link[p], target[p])
  <2>1. link' = [link EXCEPT ![p] = d]
    BY <1>5 DEF LoopWakes
  <2>2. CASE q = p
    <3>1. Keeps(link[p], d)
      BY <1>1, <2>2, LoopOverKeeps, TriedKeeps
    <3>2. link'[p] = d
      BY <2>1 DEF LinkInv, LinkTypes
    <3> QED
      BY <2>2, <3>1, <3>2
  <2>3. CASE q # p
    BY <1>2, <2>1, <2>3 DEF LinkInv, LinkTypes
  <2> QED
    BY <2>2, <2>3
<1>6. ASSUME CloseEvent(p)
      PROVE  Keeps(link[q], link'[q])
  <2> DEFINE d == IF Member(p) /\ ~disposed THEN Ensured(Dropped(link[p]), target[p])
                  ELSE Dropped(link[p])
  <2>1. link' = [link EXCEPT ![p] = d] /\ (link[p].session = "dead" \/ link[p].orphans > 0)
    BY <1>6 DEF CloseEvent, AfterLoss, Dropped
  <2>2. CASE q = p
    <3>1. /\ Dropped(link[p]) \in Links /\ Tidy(Dropped(link[p]))
          /\ Keeps(link[p], Dropped(link[p]))
      BY <1>1, <2>1, <2>2, DroppedKeeps
    <3>2. Member(p) => Keeps(Dropped(link[p]), Ensured(Dropped(link[p]), target[p]))
      BY <1>1, <2>2, <3>1, EnsuredKeeps
    <3>3. Keeps(link[p], d)
      BY <3>1, <3>2 DEF Keeps
    <3>4. link'[p] = d
      BY <2>1 DEF LinkInv, LinkTypes
    <3> QED
      BY <2>2, <3>3, <3>4
  <2>3. CASE q # p
    BY <1>2, <2>1, <2>3 DEF LinkInv, LinkTypes
  <2> QED
    BY <2>2, <2>3
<1> QED
  BY <1>3, <1>4, <1>5, <1>6

-----------------------------------------------------------------------------
(* Every step keeps what holds of the requests.                            *)

LEMMA TailFacts ==
    ASSUME NEW f \in Seq(Frames), f # <<>>
    PROVE  /\ Head(f) = f[1] /\ 1 \in DOMAIN f
           /\ Tail(f) \in Seq(Frames)
           /\ \A j \in DOMAIN Tail(f) : j + 1 \in DOMAIN f /\ Tail(f)[j] = f[j + 1] /\ j \in Nat
           /\ \A j \in DOMAIN f : j # 1 => j - 1 \in DOMAIN Tail(f) /\ Tail(f)[j - 1] = f[j]
<1>1. /\ Len(f) \in Nat /\ DOMAIN f = 1..Len(f) /\ Len(f) # 0
  BY LenProperties, EmptySeq
<1>2. /\ Tail(f) \in Seq(Frames) /\ Len(Tail(f)) = Len(f) - 1
      /\ \A j \in 1..Len(Tail(f)) : Tail(f)[j] = f[j + 1]
  BY HeadTailProperties
<1>3. DOMAIN Tail(f) = 1..Len(Tail(f))
  BY <1>2, LenProperties
<1> QED
  BY <1>1, <1>2, <1>3

LEMMA AppendFacts ==
    ASSUME NEW f \in Seq(Frames), NEW e \in Frames
    PROVE  /\ Append(f, e) \in Seq(Frames)
           /\ Append(f, e) # <<>>
           /\ f = <<>> => Append(f, e)[1] = e
           /\ f # <<>> => Append(f, e)[1] = f[1]
           /\ \E j \in DOMAIN Append(f, e) : Append(f, e)[j] = e
           /\ \A j \in DOMAIN f : j \in DOMAIN Append(f, e) /\ Append(f, e)[j] = f[j]
           /\ \A j \in DOMAIN Append(f, e) :
                \/ j \in DOMAIN f /\ Append(f, e)[j] = f[j]
                \/ Append(f, e)[j] = e /\ (f = <<>> => j = 1)
<1>1. /\ Len(f) \in Nat /\ DOMAIN f = 1..Len(f) /\ (f = <<>> <=> Len(f) = 0)
  BY LenProperties, EmptySeq
<1>2. /\ Append(f, e) \in Seq(Frames) /\ Append(f, e) # <<>>
      /\ Len(Append(f, e)) = Len(f) + 1
      /\ \A j \in 1..Len(f) : Append(f, e)[j] = f[j]
      /\ Append(f, e)[Len(f) + 1] = e
  BY AppendProperties
<1>3. DOMAIN Append(f, e) = 1..(Len(f) + 1)
  BY <1>2, LenProperties
<1> QED
  BY <1>1, <1>2, <1>3

LEMMA ReportType ==
    ASSUME CallInv, NEW r \in Requests, call[r].phase \notin {"idle", "unrouted"},
           ReportRoute(r) \/ UNCHANGED active
    PROVE  active' \in [Peers -> Nat]
<1>1. active \in [Peers -> Nat] /\ call[r].peer \in Peers
  BY CallFacts DEF CallInv, CallTypes
<1>2. \A n \in Nat : (IF n > 0 THEN n - 1 ELSE 0) \in Nat
  OBVIOUS
<1> QED
  BY <1>1, <1>2 DEF ReportRoute, Report

LEMMA TakenFrame ==
    ASSUME NEW c, NEW x, NEW s, NEW f \in Seq(Frames), NEW l, Carries(c, x, s, f, l), f # <<>>
    PROVE  /\ Head(f) \in {"headers", "refused"} <=> c.phase = "waiting"
           /\ c.live
           /\ s.phase \notin {"none", "arriving"}
           /\ \A j \in DOMAIN Tail(f) : Tail(f)[j] \notin {"headers", "refused"}
           /\ c.phase \in {"waiting", "sent"} /\ Head(f) \notin {"refused", "final"} =>
                \/ s.phase = "running" /\ s.entry
                \/ \E j \in DOMAIN Tail(f) : Tail(f)[j] \in {"refused", "final"}
<1>1. /\ Head(f) = f[1] /\ 1 \in DOMAIN f
      /\ \A j \in DOMAIN Tail(f) : j + 1 \in DOMAIN f /\ Tail(f)[j] = f[j + 1] /\ j \in Nat
      /\ \A j \in DOMAIN f : j # 1 => j - 1 \in DOMAIN Tail(f) /\ Tail(f)[j - 1] = f[j]
      /\ 0 \notin DOMAIN Tail(f)
  <2>1. 0 \notin DOMAIN Tail(f)
    BY TailFacts, LenProperties
  <2> QED
    BY <2>1, TailFacts
<1>2. \A j \in DOMAIN Tail(f) : Tail(f)[j] \notin {"headers", "refused"}
  <2>1. \A j \in DOMAIN f : f[j] \in {"headers", "refused"} => j = 1
    BY DEF Carries
  <2>2. \A j \in DOMAIN Tail(f) : j + 1 # 1
    BY <1>1
  <2> QED
    BY <1>1, <2>1, <2>2
<1>3. ASSUME NEW j \in DOMAIN f, f[j] \in {"refused", "final"},
             Head(f) \notin {"refused", "final"}
      PROVE  \E i \in DOMAIN Tail(f) : Tail(f)[i] \in {"refused", "final"}
  <2>1. j # 1
    BY <1>1, <1>3
  <2> QED
    BY <1>1, <1>3, <2>1
<1> QED
  BY <1>1, <1>2, <1>3 DEF Carries

\* What a step makes of request r.
Renewed(r, c, x, s, f) ==
    /\ c \in Calls /\ x \in Cancels /\ s \in Servings /\ f \in Seq(Frames)
    /\ call' = [call EXCEPT ![r] = c]
    /\ cancel' = [cancel EXCEPT ![r] = x]
    /\ serving' = [serving EXCEPT ![r] = s]
    /\ stream' = [stream EXCEPT ![r] = f]

LEMMA OneCallStep ==
    ASSUME LinkInv, CallInv, NEW r \in Requests, active' \in [Peers -> Nat],
           \A p \in Peers : Keeps(link[p], link'[p]),
           NEW c, NEW x, NEW s, NEW f, Renewed(r, c, x, s, f),
           Carries(c, x, s, f, link'[c.peer])
    PROVE  CallInv'
<1>1. CallTypes'
  BY DEF CallInv, CallTypes, Renewed
<1>2. \A q \in Requests : q # r =>
            /\ call'[q] = call[q] /\ cancel'[q] = cancel[q]
            /\ serving'[q] = serving[q] /\ stream'[q] = stream[q]
  BY DEF CallInv, CallTypes, Renewed
<1>3. /\ call'[r] = c /\ cancel'[r] = x /\ serving'[r] = s /\ stream'[r] = f
  BY DEF CallInv, CallTypes, Renewed
<1>4. Carried(r)'
  BY <1>3 DEF Carried
<1> QED
  BY <1>1, <1>2, <1>4, OneCall

LEMMA SameRequest ==
    ASSUME CallInv, NEW r \in Requests
    PROVE  /\ call = [call EXCEPT ![r] = call[r]]
           /\ cancel = [cancel EXCEPT ![r] = cancel[r]]
           /\ serving = [serving EXCEPT ![r] = serving[r]]
           /\ stream = [stream EXCEPT ![r] = stream[r]]
           /\ active \in [Peers -> Nat]
  BY DEF CallInv, CallTypes

LEMMA PhaseFacts ==
    ASSUME NEW c \in Calls, NEW phase \in {"sent", "refused", "answered", "offline", "mute",
                                           "cancelled", "unconnected", "late"}
    PROVE  /\ [c EXCEPT !.phase = phase] \in Calls
           /\ [c EXCEPT !.phase = phase].phase = phase
           /\ [c EXCEPT !.phase = phase].peer = c.peer
           /\ [c EXCEPT !.phase = phase].live = c.live
           /\ [c EXCEPT !.phase = phase].counted = c.counted
  BY DEF Calls

\* The caller takes a frame, and may be in another phase then.
LEMMA FrameCalls ==
    ASSUME LinkInv, CallInv, NEW r \in Requests, Frame(r)
    PROVE  CallInv'
<1> DEFINE c == call[r]
           x == cancel[r]
           s == serving[r]
           f == stream[r]
           g == Tail(f)
<1>1. /\ c \in Calls /\ s \in Servings /\ f \in Seq(Frames)
      /\ x \in Cancels
      /\ Carries(c, x, s, f, link[c.peer])
      /\ c.phase \notin {"idle", "unrouted"} => c.peer \in Peers
  BY CallFacts
<1>2. /\ f # <<>> /\ Head(f) \in Frames
      /\ UNCHANGED <<link, cancel, serving>>
      /\ stream' = [stream EXCEPT ![r] = g]
  BY DEF Frame, Headers, Refused, Item, Final, Arrives, linkVars, Frames
<1>3. g \in Seq(Frames)
  BY <1>1, <1>2, TailFacts
<1>4. /\ Head(f) \in {"headers", "refused"} <=> c.phase = "waiting"
      /\ c.live
      /\ s.phase \notin {"none", "arriving"}
      /\ \A j \in DOMAIN g : g[j] \notin {"headers", "refused"}
      /\ c.phase \in {"waiting", "sent"} /\ Head(f) \notin {"refused", "final"} =>
            \/ s.phase = "running" /\ s.entry
            \/ \E j \in DOMAIN g : g[j] \in {"refused", "final"}
  <2> HIDE DEF c, x, s, f
  <2> QED
    BY <1>1, <1>2, TakenFrame
<1>5. /\ cancel' = [cancel EXCEPT ![r] = x] /\ serving' = [serving EXCEPT ![r] = s]
      /\ \A p \in Peers : Keeps(link[p], link'[p])
  BY <1>2, SameRequest, SameKeeps
<1>6. c.phase \notin {"idle", "unrouted"}
  BY <1>1, <1>2, <1>4 DEF Carries
<1>7. active' \in [Peers -> Nat]
  BY <1>6, ReportType DEF Frame, Headers, Refused, Item, Final
<1>8. ASSUME NEW d \in Calls, call' = [call EXCEPT ![r] = d], d.peer = c.peer, d.live = c.live,
             \/ d.phase = "sent" /\ c.phase = "waiting" /\ Head(f) = "headers"
             \/ d.phase = "refused" /\ c.phase = "waiting"
             \/ d.phase = "answered" /\ c.phase = "sent"
             \/ d = c /\ c.phase # "waiting" /\ (c.phase = "sent" => Head(f) = "item")
      PROVE  CallInv'
  <2> HIDE DEF c, x, s, f, g
  <2>1. /\ \A j \in DOMAIN g : g[j] \in {"headers", "refused"} => j = 1 /\ d.phase = "waiting"
        /\ d.phase \in {"waiting", "sent"} =>
            \/ s.phase = "running" /\ s.entry
            \/ \E j \in DOMAIN g : g[j] \in {"refused", "final"}
        /\ d.phase \notin {"idle", "connecting", "waiting", "unrouted"}
    BY <1>4, <1>6, <1>8, <1>1, <1>2 DEF Carries
  <2>2. /\ d.peer \in Peers /\ d.live /\ link'[d.peer].session = "open"
    BY <1>1, <1>2, <1>4, <1>6, <1>8 DEF Carries
  <2>3. x # "none" => d.phase \in {"cancelled", "late"}
    BY <1>1, <1>8 DEF Carries
  <2>4. Carries(d, x, s, g, link'[d.peer])
    BY <1>4, <2>1, <2>2, <2>3 DEF Carries
  <2>5. Renewed(r, d, x, s, g)
    BY <1>1, <1>2, <1>3, <1>5, <1>8 DEF Renewed
  <2> QED
    BY <1>5, <1>7, <2>4, <2>5, OneCallStep
<1>9. CASE Headers(r)
  BY <1>1, <1>4, <1>8, <1>9, PhaseFacts DEF Headers, Arrives
<1>10. CASE Refused(r)
  BY <1>1, <1>4, <1>8, <1>10, PhaseFacts DEF Refused, Arrives
<1>11. call = [call EXCEPT ![r] = c]
  BY SameRequest
<1>12. CASE Item(r)
  BY <1>1, <1>4, <1>8, <1>11, <1>12 DEF Item, Arrives
<1>13. CASE Final(r)
  <2>1. CASE c.phase = "sent"
    BY <1>1, <1>8, <1>13, <2>1, PhaseFacts DEF Final
  <2>2. CASE c.phase # "sent"
    BY <1>1, <1>4, <1>8, <1>11, <1>13, <2>2 DEF Final, Arrives
  <2> QED
    BY <2>1, <2>2
<1> QED
  BY <1>9, <1>10, <1>12, <1>13 DEF Frame

LEMMA BreakCalls ==
    ASSUME LinkInv, CallInv, NEW r \in Requests, NEW how \in {"end", "error"},
           StreamBreaks(r, how)
    PROVE  CallInv'
<1> DEFINE c == call[r]
           x == cancel[r]
           s == serving[r]
           f == stream[r]
           phase == Broken(r, how)
           d == [c EXCEPT !.phase = phase]
<1>1. /\ c \in Calls /\ s \in Servings /\ f \in Seq(Frames) /\ x \in Cancels
      /\ Carries(c, x, s, f, link[c.peer])
  BY CallFacts
<1>2. c.phase \in {"waiting", "sent"} /\ ~c.live
  BY DEF StreamBreaks
<1>3. UNCHANGED <<link, cancel, serving, stream>> /\ call' = [call EXCEPT ![r] = d]
  BY DEF StreamBreaks, linkVars
<1>4. phase \in {"offline", "refused", "mute"}
  BY DEF Broken
<1>5. active' \in [Peers -> Nat]
  BY <1>2, ReportType DEF StreamBreaks
<1> HIDE DEF c, x, s, f, phase
<1>6. d \in Calls /\ d.phase = phase /\ d.peer = c.peer /\ d.live = c.live
  BY <1>1, <1>4 DEF Calls
<1>7. Renewed(r, d, x, s, f)
  BY <1>1, <1>3, <1>6, SameRequest DEF Renewed, x, s, f
<1> HIDE DEF d
<1>8. f = <<>> /\ s.phase # "arriving" /\ x = "none" /\ c.peer \in Peers
  BY <1>1, <1>2 DEF Carries
<1>9. Carries(d, x, s, f, link'[d.peer])
  BY <1>2, <1>3, <1>4, <1>6, <1>8 DEF Carries
<1> QED
  BY <1>3, <1>5, <1>7, <1>9, SameKeeps, OneCallStep

LEMMA DialedAllKeep ==
    ASSUME LinkInv, NEW p \in Peers, Member(p),
           link' = [link EXCEPT ![p] = Dialed(@, target[p])]
    PROVE  \A q \in Peers : Keeps(link[q], link'[q])
<1>1. link[p] \in Links /\ target[p] \in Targets /\ link \in [Peers -> Links]
  BY LinkFacts DEF LinkInv, LinkTypes
<1>2. Keeps(link[p], Dialed(link[p], target[p]))
  BY <1>1, DialedKeeps
<1>3. \A q \in Peers : Keeps(link[q], link[q])
  BY DEF Keeps
<1> QED
  BY <1>1, <1>2, <1>3

LEMMA CancelCalls ==
    ASSUME LinkInv, CallInv, NEW r \in Requests, Cancel(r)
    PROVE  CallInv'
<1> DEFINE c == call[r]
           p == call[r].peer
           x == IF Member(p) THEN IF Open(p) THEN "sent" ELSE "connecting" ELSE cancel[r]
           s == serving[r]
           f == stream[r]
           phase == IF disposed THEN "late" ELSE "cancelled"
           d == [c EXCEPT !.phase = phase]
<1>1. /\ c \in Calls /\ s \in Servings /\ f \in Seq(Frames) /\ cancel[r] \in Cancels
      /\ Carries(c, cancel[r], s, f, link[c.peer])
  BY CallFacts
<1>2. c.phase = "sent" /\ p \in Peers
  BY <1>1 DEF Cancel, Carries
<1>3. /\ call' = [call EXCEPT ![r] = d]
      /\ cancel' = [cancel EXCEPT ![r] = x]
      /\ UNCHANGED <<active, serving, stream>>
  BY SameRequest DEF Cancel, routingVars
<1>4. \A q \in Peers : Keeps(link[q], link'[q])
  <2>1. CASE Member(p)
    BY <1>2, <2>1, DialedAllKeep DEF Cancel
  <2>2. CASE ~Member(p)
    BY <2>2, SameKeeps DEF Cancel
  <2> QED
    BY <2>1, <2>2
<1>5. d \in Calls /\ d.phase \in {"cancelled", "late"} /\ d.peer = p /\ d.live = c.live
  <2>1. phase \in {"cancelled", "late"}
    OBVIOUS
  <2> HIDE DEF phase, c, p
  <2>2. /\ [c EXCEPT !.phase = phase] \in Calls
        /\ [c EXCEPT !.phase = phase].phase = phase
        /\ [c EXCEPT !.phase = phase].peer = c.peer
        /\ [c EXCEPT !.phase = phase].live = c.live
    BY <1>1, <2>1 DEF Calls
  <2> QED
    BY <2>1, <2>2 DEF c, p
<1>6. x \in Cancels
  BY <1>1 DEF Cancels
<1> HIDE DEF c, d, x, s, f, p, phase
<1>7. Renewed(r, d, x, s, f)
  BY <1>1, <1>3, <1>5, <1>6, SameRequest DEF Renewed, s, f
<1>8. d.live => link'[p].session = "open"
  BY <1>1, <1>2, <1>4, <1>5 DEF Carries, Keeps, c, p
<1>9. Carries(d, x, s, f, link'[d.peer])
  BY <1>1, <1>2, <1>5, <1>8 DEF Carries
<1>10. active' \in [Peers -> Nat]
  BY <1>3, SameRequest
<1> QED
  BY <1>4, <1>7, <1>9, <1>10, OneCallStep

\* Steps of the provider's end.
LEMMA ServingFacts ==
    ASSUME NEW s \in Servings, NEW phase \in {"running", "over"}, NEW entry \in BOOLEAN
    PROVE  /\ [s EXCEPT !.phase = phase] \in Servings
           /\ [s EXCEPT !.phase = phase].phase = phase
           /\ [s EXCEPT !.phase = phase, !.entry = entry] \in Servings
           /\ [s EXCEPT !.phase = phase, !.entry = entry].phase = phase
           /\ [s EXCEPT !.phase = phase, !.entry = entry].entry = entry
  BY DEF Servings

LEMMA EntryFacts ==
    ASSUME NEW s \in Servings
    PROVE  /\ [s EXCEPT !.entry = FALSE] \in Servings
           /\ [s EXCEPT !.entry = FALSE].phase = s.phase
           /\ [s EXCEPT !.entry = FALSE].entry = FALSE
  BY DEF Servings

LEMMA MadeFacts ==
    ASSUME NEW s \in Servings
    PROVE  /\ [s EXCEPT !.made = @ + 1] \in Servings
           /\ [s EXCEPT !.made = @ + 1].phase = s.phase
           /\ [s EXCEPT !.made = @ + 1].entry = s.entry
  BY DEF Servings

LEMMA ProviderStep ==
    ASSUME LinkInv, CallInv, NEW r \in Requests, UNCHANGED <<link, call, active>>,
           NEW x \in Cancels, NEW s \in Servings, NEW f \in Seq(Frames),
           cancel' = [cancel EXCEPT ![r] = x],
           serving' = [serving EXCEPT ![r] = s],
           stream' = [stream EXCEPT ![r] = f],
           Carries(call[r], x, s, f, link[call[r].peer])
    PROVE  CallInv'
<1>1. Renewed(r, call[r], x, s, f) /\ active' \in [Peers -> Nat]
  BY CallFacts, SameRequest DEF Renewed
<1> QED
  BY <1>1, SameKeeps, OneCallStep

LEMMA ArrivalCalls ==
    ASSUME LinkInv, CallInv, NEW r \in Requests, RequestArrives(r)
    PROVE  CallInv'
<1> DEFINE c == call[r]
           x == cancel[r]
           f == stream[r]
           l == link[call[r].peer]
<1>1. /\ c \in Calls /\ serving[r] \in Servings /\ f \in Seq(Frames) /\ x \in Cancels
      /\ Carries(c, x, serving[r], f, l)
  BY CallFacts
<1>2. /\ UNCHANGED <<link, call, active>> /\ cancel' = [cancel EXCEPT ![r] = x]
      /\ serving[r].phase = "arriving"
  BY SameRequest DEF RequestArrives, linkVars, routingVars
<1>3. c.phase = "waiting" /\ c.live /\ f = <<>> /\ x = "none"
  BY <1>1, <1>2 DEF Carries
<1>4. ASSUME NEW s \in Servings, NEW e \in {"headers", "refused"},
             \/ s.phase = "running" /\ s.entry /\ e = "headers"
             \/ s.phase = "over" /\ e = "refused",
             serving' = [serving EXCEPT ![r] = s],
             stream' = [stream EXCEPT ![r] = Append(f, e)]
      PROVE  CallInv'
  <2> DEFINE g == Append(f, e)
  <2>1. e \in Frames
    BY DEF Frames
  <2>2. /\ g \in Seq(Frames) /\ g # <<>> /\ g[1] = e
        /\ \A j \in DOMAIN g : g[j] = e /\ j = 1
        /\ \E j \in DOMAIN g : g[j] = e
    BY <1>1, <1>3, <2>1, AppendFacts
  <2> HIDE DEF c, x, f, l, g
  <2>3. Carries(c, x, s, g, l)
    BY <1>1, <1>3, <1>4, <2>2 DEF Carries
  <2> QED
    BY <1>1, <1>2, <1>4, <2>2, <2>3, ProviderStep DEF c, x, f, l, g
<1>5. CASE /\ serving' = [serving EXCEPT ![r].phase = "running", ![r].entry = TRUE]
           /\ stream' = [stream EXCEPT ![r] = Append(@, "headers")]
  <2> DEFINE s == [serving[r] EXCEPT !.phase = "running", !.entry = TRUE]
  <2>1. s \in Servings /\ s.phase = "running" /\ s.entry
    BY <1>1, ServingFacts
  <2>2. serving' = [serving EXCEPT ![r] = s] /\ stream' = [stream EXCEPT ![r] = Append(f, "headers")]
    BY <1>5
  <2> HIDE DEF s, f
  <2> QED
    BY <1>4, <2>1, <2>2
<1>6. CASE /\ serving' = [serving EXCEPT ![r].phase = "over"]
           /\ stream' = [stream EXCEPT ![r] = Append(@, "refused")]
  <2> DEFINE s == [serving[r] EXCEPT !.phase = "over"]
  <2>1. s \in Servings /\ s.phase = "over"
    BY <1>1, ServingFacts
  <2>2. serving' = [serving EXCEPT ![r] = s] /\ stream' = [stream EXCEPT ![r] = Append(f, "refused")]
    BY <1>6
  <2> HIDE DEF s, f
  <2> QED
    BY <1>4, <2>1, <2>2
<1> QED
  BY <1>5, <1>6 DEF RequestArrives

LEMMA ReplyCalls ==
    ASSUME LinkInv, CallInv, NEW r \in Requests, NEW frame \in {"item", "final"},
           Replies(r, frame)
    PROVE  CallInv'
<1> DEFINE c == call[r]
           x == cancel[r]
           s == serving[r]
           f == stream[r]
           l == link[call[r].peer]
           t == IF frame = "item" THEN [serving[r] EXCEPT !.made = @ + 1]
                ELSE [serving[r] EXCEPT !.phase = "over", !.entry = FALSE]
           written == s.entry /\ c.live
           g == IF written THEN Append(f, frame) ELSE f
<1>1. /\ c \in Calls /\ s \in Servings /\ f \in Seq(Frames) /\ x \in Cancels
      /\ Carries(c, x, s, f, l)
  BY CallFacts
<1>2. /\ UNCHANGED <<link, call, active>> /\ cancel' = [cancel EXCEPT ![r] = x]
      /\ s.phase = "running"
  BY SameRequest DEF Replies, linkVars, routingVars
<1>3. serving' = [serving EXCEPT ![r] = t]
  BY DEF Replies
<1>4. stream' = [stream EXCEPT ![r] = g]
  BY SameRequest DEF Replies, Written
<1>5. /\ t \in Servings
      /\ frame = "item" => t.phase = "running" /\ t.entry = s.entry
      /\ frame = "final" => t.phase = "over"
  BY <1>1, <1>2, ServingFacts, MadeFacts
<1>6. frame \in Frames
  BY DEF Frames
<1>7. CASE written
  <2>1. /\ g \in Seq(Frames) /\ g # <<>> /\ (f # <<>> => g[1] = f[1])
        /\ \E j \in DOMAIN g : g[j] = frame
        /\ \A j \in DOMAIN f : j \in DOMAIN g /\ g[j] = f[j]
        /\ \A j \in DOMAIN g : (j \in DOMAIN f /\ g[j] = f[j]) \/ g[j] = frame
    BY <1>1, <1>6, <1>7, AppendFacts
  <2>2. c.live /\ s.entry
    BY <1>7
  <2> HIDE DEF c, x, f, s, l, t, g
  <2>3. /\ \A j \in DOMAIN g : g[j] \in {"headers", "refused"} => j = 1 /\ c.phase = "waiting"
        /\ c.phase = "waiting" => g[1] \in {"headers", "refused"}
    BY <1>1, <1>2, <2>1, <2>2 DEF Carries
  <2>4. \/ t.phase = "running" /\ t.entry
        \/ \E j \in DOMAIN g : g[j] \in {"refused", "final"}
    BY <1>5, <2>1, <2>2
  <2>5. Carries(c, x, t, g, l)
    BY <1>1, <1>2, <1>5, <2>1, <2>2, <2>3, <2>4 DEF Carries
  <2> QED
    BY <1>1, <1>2, <1>3, <1>4, <1>5, <2>1, <2>5, ProviderStep DEF c, l
<1>8. CASE ~written
  <2>1. g = f /\ ~(s.entry /\ c.live)
    BY <1>8
  <2> HIDE DEF c, x, f, s, l, t, g
  <2>2. Carries(c, x, t, g, l)
    BY <1>1, <1>2, <1>5, <2>1 DEF Carries
  <2> QED
    BY <1>1, <1>2, <1>3, <1>4, <1>5, <2>1, <2>2, ProviderStep DEF c, l
<1> QED
  BY <1>7, <1>8

LEMMA ProviderCalls ==
    ASSUME LinkInv, CallInv, NEW r \in Requests, StreamCloses(r) \/ CancelArrives(r)
    PROVE  CallInv'
<1> DEFINE c == call[r]
           x == cancel[r]
           s == serving[r]
           f == stream[r]
           l == link[call[r].peer]
<1>1. /\ c \in Calls /\ s \in Servings /\ f \in Seq(Frames) /\ x \in Cancels
      /\ Carries(c, x, s, f, l)
  BY CallFacts
<1>2. UNCHANGED <<link, call, active>> /\ stream' = [stream EXCEPT ![r] = f]
  BY SameRequest DEF StreamCloses, CancelArrives, linkVars, routingVars
<1>3. CASE StreamCloses(r)
  <2> DEFINE t == [serving[r] EXCEPT !.entry = FALSE]
  <2>1. t \in Servings /\ t.phase = s.phase /\ ~c.live
    BY <1>1, <1>3, EntryFacts DEF StreamCloses
  <2>2. cancel' = [cancel EXCEPT ![r] = x] /\ serving' = [serving EXCEPT ![r] = t]
    BY <1>3, SameRequest DEF StreamCloses
  <2> HIDE DEF c, x, f, s, l, t
  <2>3. Carries(c, x, t, f, l)
    BY <1>1, <2>1 DEF Carries
  <2> QED
    BY <1>1, <1>2, <2>1, <2>2, <2>3, ProviderStep DEF c, l
<1>4. CASE CancelArrives(r)
  <2> DEFINE t == IF s.phase = "running" THEN [serving[r] EXCEPT !.phase = "over"] ELSE serving[r]
  <2>1. /\ t \in Servings /\ (t.phase = s.phase \/ (s.phase = "running" /\ t.phase = "over"))
        /\ x = "sent"
    <3>1. x = "sent"
      BY <1>4 DEF CancelArrives
    <3>2. CASE s.phase = "running"
      <4>1. t = [s EXCEPT !.phase = "over"]
        BY <3>2
      <4>2. [s EXCEPT !.phase = "over"] \in Servings /\ [s EXCEPT !.phase = "over"].phase = "over"
        BY <1>1 DEF Servings
      <4> QED
        BY <3>1, <3>2, <4>1, <4>2
    <3>3. CASE s.phase # "running"
      BY <1>1, <3>1, <3>3
    <3> QED
      BY <3>2, <3>3
  <2>2. cancel' = [cancel EXCEPT ![r] = "arrived"]
    BY <1>4 DEF CancelArrives
  <2>3. serving' = [serving EXCEPT ![r] = t]
    <3>1. CASE s.phase = "running"
      BY <1>4, <3>1 DEF CancelArrives
    <3>2. CASE s.phase # "running"
      <4>1. [serving[r] EXCEPT !.phase = serving[r].phase] = serving[r]
        BY <1>1 DEF Servings
      <4>2. serving' = [serving EXCEPT ![r] = [serving[r] EXCEPT !.phase = serving[r].phase]]
        BY <1>4, <3>2 DEF CancelArrives
      <4> QED
        BY <3>2, <4>1, <4>2
    <3> QED
      BY <3>1, <3>2
  <2>4. "arrived" \in Cancels
    BY DEF Cancels
  <2> HIDE DEF c, x, f, s, l, t
  <2>5. c.phase \in {"cancelled", "late"}
    BY <1>1, <2>1 DEF Carries
  <2>6. Carries(c, "arrived", t, f, l)
    BY <1>1, <2>1, <2>5 DEF Carries
  <2> QED
    BY <1>1, <1>2, <2>1, <2>2, <2>3, <2>4, <2>6, ProviderStep DEF c, l
<1> QED
  BY <1>3, <1>4

LEMMA RouteType ==
    ASSUME LinkInv, NEW strategy, NEW pin, NEW p \in Peers \cup {Nobody},
           Route(strategy, pin, p), active \in [Peers -> Nat]
    PROVE  active' \in [Peers -> Nat]
  BY DEF Route

\* A request that starts: it awaits a connection, is on the open one, or finds no node.
LEMMA SendCalls ==
    ASSUME LinkInv, CallInv, NEW r \in Requests, Send(r)
    PROVE  LinkInv' /\ CallInv'
<1> DEFINE x == cancel[r]
           s == serving[r]
           f == stream[r]
<1>1. /\ call[r] \in Calls /\ s \in Servings /\ f \in Seq(Frames) /\ x \in Cancels
      /\ Carries(call[r], x, s, f, link[call[r].peer])
      /\ active \in [Peers -> Nat]
      /\ call = [call EXCEPT ![r] = call[r]] /\ cancel = [cancel EXCEPT ![r] = x]
      /\ serving = [serving EXCEPT ![r] = s] /\ stream = [stream EXCEPT ![r] = f]
  BY CallFacts, SameRequest
<1>2. PICK strategy \in Strategies, pin \in Peers, p \in Peers \cup {Nobody} :
       /\ IF CanRoute(strategy, pin) THEN Route(strategy, pin, p)
          ELSE p = Nobody /\ UNCHANGED <<index, active>>
       /\ IF p = Nobody
          THEN /\ call' = [call EXCEPT ![r].phase = "unrouted"]
               /\ UNCHANGED <<link, serving>>
          ELSE /\ call' = [call EXCEPT ![r] =
                              [phase |-> IF Open(p) THEN "waiting" ELSE "connecting",
                               peer |-> p, counted |-> strategy = "least-active",
                               live |-> Open(p)]]
               /\ link' = [link EXCEPT ![p] = Dialed(@, target[p])]
               /\ serving' = IF Open(p) THEN [serving EXCEPT ![r].phase = "arriving"]
                             ELSE serving
  BY DEF Send
<1>3. /\ UNCHANGED <<order, reach, target, disposed, forgotten, cancel, stream>>
      /\ call[r].phase = "idle"
  BY DEF Send
<1>4. active' \in [Peers -> Nat]
  BY <1>1, <1>2, RouteType
<1>5. s.phase = "none" /\ f = <<>> /\ x = "none"
  BY <1>1, <1>3 DEF Carries
<1>6. CASE p = Nobody
  <2> DEFINE c == [call[r] EXCEPT !.phase = "unrouted"]
  <2>1. UNCHANGED <<link, serving>> /\ call' = [call EXCEPT ![r] = c]
    BY <1>2, <1>6
  <2>2. c \in Calls /\ c.phase = "unrouted" /\ c.live = call[r].live /\ c.counted = call[r].counted
    BY <1>1 DEF Calls
  <2> HIDE DEF c, s, f, x
  <2>3. Renewed(r, c, x, s, f)
    BY <1>1, <1>3, <2>1, <2>2 DEF Renewed
  <2>4. Carries(c, x, s, f, link'[c.peer])
    BY <1>1, <1>3, <1>5, <2>2 DEF Carries
  <2>5. LinkInv'
    BY <1>3, <2>1, SameLinks
  <2> QED
    BY <1>4, <2>1, <2>3, <2>4, <2>5, SameKeeps, OneCallStep
<1>7. CASE p # Nobody
  <2>1. p \in Peers /\ Member(p)
    BY <1>2, <1>7, SelectedIsMember DEF Route
  <2>2. link' = [link EXCEPT ![p] = Dialed(@, target[p])]
    BY <1>2, <1>7
  <2>3. LinkInv'
    BY <1>3, <2>1, <2>2, DialedLink
  <2>4. \A q \in Peers : Keeps(link[q], link'[q])
    BY <2>1, <2>2, DialedAllKeep
  <2>5. /\ link[p] \in Links /\ target[p] \in Targets
        /\ link'[p] = Dialed(link[p], target[p])
    BY <2>1, <2>2, LinkFacts DEF LinkInv, LinkTypes
  <2> DEFINE c == [phase |-> IF Open(p) THEN "waiting" ELSE "connecting",
                   peer |-> p, counted |-> strategy = "least-active", live |-> Open(p)]
             t == IF Open(p) THEN [s EXCEPT !.phase = "arriving"] ELSE s
  <2>6. c \in Calls /\ c.peer = p
    BY <2>1 DEF Calls, Open
  <2>7. t \in Servings
    BY <1>1 DEF Servings
  <2>8. /\ call' = [call EXCEPT ![r] = c]
        /\ serving' = [serving EXCEPT ![r] = t]
    BY <1>1, <1>2, <1>7
  <2>9. CASE Open(p)
    <3>1. /\ c.phase = "waiting" /\ c.live /\ t.phase = "arriving"
          /\ link'[p].session = "open"
      <4>1. t.phase = "arriving"
        BY <1>1, <2>9 DEF Servings
      <4>2. Dialed(link[p], target[p]).session = "open"
        BY <2>5, <2>9, DialedFacts DEF Open
      <4> QED
        BY <2>5, <2>9, <4>1, <4>2
    <3> HIDE DEF c, t, x, s, f
    <3>2. Carries(c, x, t, f, link'[c.peer])
      BY <1>5, <2>1, <2>6, <3>1 DEF Carries
    <3>3. Renewed(r, c, x, t, f)
      BY <1>1, <1>3, <2>6, <2>7, <2>8 DEF Renewed
    <3> QED
      BY <1>4, <2>3, <2>4, <3>2, <3>3, OneCallStep
  <2>10. CASE ~Open(p)
    <3>1. /\ c.phase = "connecting" /\ ~c.live /\ t = s
          /\ link'[p].dialing # Nowhere
      <4>1. c.live = Open(p)
        OBVIOUS
      <4>2. c.phase = "connecting" /\ t = s
        BY <2>10
      <4>3. Dialed(link[p], target[p]).dialing # Nowhere
        BY <2>5, <2>10, DialedFacts DEF Open
      <4> QED
        BY <2>5, <2>10, <4>1, <4>2, <4>3
    <3> HIDE DEF c, t, x, s, f
    <3>2. Carries(c, x, t, f, link'[c.peer])
      BY <1>5, <2>1, <2>6, <3>1 DEF Carries
    <3>3. Renewed(r, c, x, t, f)
      BY <1>1, <1>3, <2>6, <2>7, <2>8 DEF Renewed
    <3> QED
      BY <1>4, <2>3, <2>4, <3>2, <3>3, OneCallStep
  <2> QED
    BY <2>9, <2>10
<1> QED
  BY <1>6, <1>7

\* Steps of a connection, and of every request that depends on it.
LEMMA ConnectedCalls ==
    ASSUME LinkInv, CallInv, NEW p \in Peers, ConnectSucceeds(p)
    PROVE  CallInv'
<1> DEFINE waiting == CallsOf(p, "connecting")
<1>1. /\ call' = [r \in Requests |-> IF r \in waiting
                                     THEN [call[r] EXCEPT !.phase = "waiting", !.live = TRUE]
                                     ELSE call[r]]
      /\ serving' = [r \in Requests |-> IF r \in waiting
                                        THEN [serving[r] EXCEPT !.phase = "arriving"]
                                        ELSE serving[r]]
      /\ cancel' = [r \in Requests |-> IF call[r].peer = p /\ cancel[r] = "connecting"
                                       THEN "sent" ELSE cancel[r]]
      /\ UNCHANGED <<active, stream>>
  BY DEF ConnectSucceeds
<1>2. /\ link' = [link EXCEPT ![p] = Opened(link[p])]
      /\ Opened(link[p]).session = "open"
  <2>1. link[p] \in Links
    BY LinkFacts
  <2>2. LoopOver(link[p]) \in Links
    BY <2>1, LoopOverFacts
  <2>3. link' = [link EXCEPT ![p] = Opened(link[p])]
    BY DEF ConnectSucceeds, Connected, Opened
  <2>4. Opened(link[p]).session = "open"
    BY <2>1, <2>2 DEF Opened, Links
  <2> QED
    BY <2>3, <2>4
<1>3. link'[p].session = "open" /\ \A q \in Peers : q # p => link'[q] = link[q]
  BY <1>2 DEF LinkInv, LinkTypes
<1>4. ASSUME NEW r \in Requests
      PROVE  /\ call'[r] \in Calls /\ serving'[r] \in Servings /\ cancel'[r] \in Cancels
             /\ Carries(call'[r], cancel'[r], serving'[r], stream'[r], link'[call'[r].peer])
  <2> DEFINE c == call[r]
             x == cancel[r]
             s == serving[r]
             f == stream[r]
             d == call'[r]
             y == cancel'[r]
             t == serving'[r]
             l == link[call[r].peer]
             m == link'[call[r].peer]
  <2>1. /\ c \in Calls /\ s \in Servings /\ x \in Cancels /\ Carries(c, x, s, f, l)
        /\ stream'[r] = f
    BY <1>1, CallFacts
  <2>2. CASE r \in waiting
    <3>1. c.peer = p /\ c.phase = "connecting"
      BY <2>2 DEF CallsOf
    <3>2. /\ d \in Calls /\ d.phase = "waiting" /\ d.live /\ d.peer = p
      <4>1. d = [c EXCEPT !.phase = "waiting", !.live = TRUE]
        BY <1>1, <2>2
      <4> QED
        BY <2>1, <3>1, <4>1 DEF Calls
    <3>3. t \in Servings /\ t.phase = "arriving"
      <4>1. t = [s EXCEPT !.phase = "arriving"]
        BY <1>1, <2>2
      <4> QED
        BY <2>1, <4>1 DEF Servings
    <3>4. f = <<>> /\ x = "none"
      BY <2>1, <3>1 DEF Carries
    <3>5. y = "none"
      BY <1>1, <3>4
    <3>6. y \in Cancels
      BY <2>1, <3>4, <3>5
    <3>7. link'[d.peer].session = "open"
      BY <1>3, <3>2
    <3> HIDE DEF c, d, x, y, s, t, f, l, m, waiting
    <3>8. Carries(d, y, t, f, link'[d.peer])
      BY <3>2, <3>3, <3>4, <3>5, <3>7 DEF Carries
    <3> QED
      BY <2>1, <3>2, <3>3, <3>6, <3>8 DEF c, d, x, y, s, t, f
  <2>3. CASE r \notin waiting
    <3>1. d = c /\ t = s
      BY <1>1, <2>3
    <3>2. c.peer # p \/ c.phase # "connecting"
      BY <2>3 DEF CallsOf
    <3>3. y = x \/ (x = "connecting" /\ y = "sent")
      BY <1>1
    <3>4. y \in Cancels
      BY <2>1, <3>3 DEF Cancels
    <3>5. /\ c.live => m.session = "open"
          /\ c.phase = "connecting" => m.dialing # Nowhere
          /\ c.phase \notin {"idle", "unrouted"} => c.peer \in Peers
      <4> HIDE DEF waiting
      <4>1. /\ c.phase \notin {"idle", "unrouted"} => c.peer \in Peers
            /\ c.phase \in {"idle", "unrouted"} => ~c.live
            /\ c.live => l.session = "open"
            /\ c.phase = "connecting" => l.dialing # Nowhere
        BY <2>1 DEF Carries
      <4> QED
        BY <1>3, <3>2, <4>1
    <3> HIDE DEF c, x, y, s, t, f, l, m, waiting
    <3>6. Carries(c, y, s, f, m)
      BY <2>1, <3>3, <3>5 DEF Carries
    <3> QED
      BY <2>1, <3>1, <3>4, <3>6 DEF c, x, y, s, t, f, m
  <2> QED
    BY <2>2, <2>3
<1>5. CallTypes'
  <2>1. call' \in [Requests -> Calls]
    BY <1>1, <1>4
  <2>2. cancel' \in [Requests -> Cancels] /\ serving' \in [Requests -> Servings]
    BY <1>1, <1>4
  <2> QED
    BY <1>1, <2>1, <2>2 DEF CallInv, CallTypes
<1> QED
  BY <1>4, <1>5 DEF CallInv, Carried

LEMMA UnconnectedCalls ==
    ASSUME LinkInv, CallInv, NEW p \in Peers, ConnectFails(p)
    PROVE  CallInv'
<1> DEFINE refused == CallsOf(p, "connecting")
<1>1. /\ call' = [r \in Requests |-> IF r \in refused
                                     THEN [call[r] EXCEPT !.phase = "unconnected"]
                                     ELSE call[r]]
      /\ cancel' = [r \in Requests |-> IF call[r].peer = p /\ cancel[r] = "connecting"
                                       THEN "lost" ELSE cancel[r]]
      /\ UNCHANGED <<active, serving, stream>>
  BY DEF ConnectFails, Becomes
<1>2. /\ link' = [link EXCEPT ![p] = Failed(link[p])]
      /\ Failed(link[p]).session = link[p].session
  <2>1. link[p] \in Links
    BY LinkFacts
  <2>2. link' = [link EXCEPT ![p] = Failed(link[p])]
    BY DEF ConnectFails, Unconnected, Failed
  <2>3. Failed(link[p]).session = link[p].session
    BY <2>1 DEF Failed, Links
  <2> QED
    BY <2>2, <2>3
<1>3. /\ link'[p].session = link[p].session
      /\ \A q \in Peers : q # p => link'[q] = link[q]
  BY <1>2 DEF LinkInv, LinkTypes
<1>4. ASSUME NEW r \in Requests
      PROVE  /\ call'[r] \in Calls /\ cancel'[r] \in Cancels
             /\ Carries(call'[r], cancel'[r], serving'[r], stream'[r], link'[call'[r].peer])
  <2> DEFINE c == call[r]
             x == cancel[r]
             s == serving[r]
             f == stream[r]
             d == call'[r]
             y == cancel'[r]
             l == link[call[r].peer]
             m == link'[call[r].peer]
  <2>1. /\ c \in Calls /\ s \in Servings /\ x \in Cancels /\ Carries(c, x, s, f, l)
        /\ stream'[r] = f /\ serving'[r] = s
    BY <1>1, CallFacts
  <2>2. y = x \/ (x = "connecting" /\ y = "lost")
    BY <1>1
  <2>3. y \in Cancels
    BY <2>1, <2>2 DEF Cancels
  <2>4. CASE r \in refused
    <3>1. c.peer = p /\ c.phase = "connecting"
      BY <2>4 DEF CallsOf
    <3>2. d \in Calls /\ d.phase = "unconnected" /\ d.live = c.live /\ d.peer = p
      <4>1. d = [c EXCEPT !.phase = "unconnected"]
        BY <1>1, <2>4
      <4> QED
        BY <2>1, <3>1, <4>1 DEF Calls
    <3> HIDE DEF c, d, x, y, s, f, l, m, refused
    <3>3. Carries(d, y, s, f, link'[d.peer])
      BY <2>1, <2>2, <3>1, <3>2 DEF Carries
    <3> QED
      BY <2>1, <2>3, <3>2, <3>3 DEF c, d, x, y, s, f
  <2>5. CASE r \notin refused
    <3>1. d = c
      BY <1>1, <2>5
    <3>2. c.peer # p \/ c.phase # "connecting"
      BY <2>5 DEF CallsOf
    <3>3. /\ c.live => m.session = "open"
          /\ c.phase = "connecting" => m.dialing # Nowhere
      <4> HIDE DEF refused
      <4>1. /\ c.phase \notin {"idle", "unrouted"} => c.peer \in Peers
            /\ c.phase \in {"idle", "unrouted"} => ~c.live
            /\ c.live => l.session = "open"
            /\ c.phase = "connecting" => l.dialing # Nowhere
        BY <2>1 DEF Carries
      <4> QED
        BY <1>3, <3>2, <4>1
    <3> HIDE DEF c, x, y, s, f, l, m, refused
    <3>4. Carries(c, y, s, f, m)
      BY <2>1, <2>2, <3>3 DEF Carries
    <3> QED
      BY <2>1, <2>3, <3>1, <3>4 DEF c, x, y, s, f, m
  <2> QED
    BY <2>4, <2>5
<1>5. CallTypes'
  <2>1. call' \in [Requests -> Calls] /\ cancel' \in [Requests -> Cancels]
    BY <1>1, <1>4
  <2> QED
    BY <1>1, <2>1 DEF CallInv, CallTypes
<1> QED
  BY <1>4, <1>5 DEF CallInv, Carried

\* Streams that are cut; the others are on a session that stays.
LEMMA CutCalls ==
    ASSUME LinkInv, CallInv, NEW cut \in SUBSET Requests,
           NEW cancels, \A r \in Requests : r \in cancels => cancel[r] # "none",
           CutStreams(cut, cancels),
           call' \in [Requests -> Calls], UNCHANGED active,
           \A r \in Requests :
                \/ /\ r \in cut
                   /\ ~call'[r].live
                   /\ call'[r].peer = call[r].peer /\ call'[r].counted = call[r].counted
                   /\ call[r].phase \notin {"idle", "unrouted", "connecting"}
                   /\ call'[r].phase = call[r].phase
                \/ /\ r \notin cut
                   /\ ~call[r].live /\ ~call'[r].live
                   /\ call'[r].peer = call[r].peer /\ call'[r].counted = call[r].counted
                   /\ \/ call[r].phase # "connecting" /\ call'[r].phase = call[r].phase
                      \/ call[r].phase = "connecting" /\ call'[r].phase = "unconnected"
                \/ /\ r \notin cut
                   /\ call'[r] = call[r]
                   /\ call[r].live => link'[call[r].peer].session = "open"
                   /\ call[r].phase = "connecting" => link'[call[r].peer].dialing # Nowhere
    PROVE  CallInv'
<1>1. /\ serving' = [r \in Requests |-> IF r \in cut /\ serving[r].phase = "arriving"
                                        THEN [serving[r] EXCEPT !.phase = "none"]
                                        ELSE serving[r]]
      /\ cancel' = [r \in Requests |-> IF r \in cancels THEN "lost" ELSE cancel[r]]
      /\ stream' = [r \in Requests |-> IF r \in cut THEN <<>> ELSE stream[r]]
  BY DEF CutStreams
<1>2. ASSUME NEW r \in Requests
      PROVE  /\ serving'[r] \in Servings /\ cancel'[r] \in Cancels
             /\ stream'[r] \in Seq(Frames)
             /\ Carries(call'[r], cancel'[r], serving'[r], stream'[r], link'[call'[r].peer])
  <2> DEFINE c == call[r]
             x == cancel[r]
             s == serving[r]
             f == stream[r]
             d == call'[r]
             y == cancel'[r]
             t == serving'[r]
             g == stream'[r]
             l == link[call[r].peer]
             m == link'[call'[r].peer]
  <2>1. /\ c \in Calls /\ s \in Servings /\ x \in Cancels /\ f \in Seq(Frames)
        /\ Carries(c, x, s, f, l)
    BY CallFacts
  <2>2. CASE r \in cut
    <3>1. /\ ~d.live /\ d.peer = c.peer /\ d.counted = c.counted
          /\ c.phase \notin {"idle", "unrouted", "connecting"}
          /\ d.phase = c.phase
      BY <2>2
    <3>2. g = <<>> /\ (y = x \/ (x # "none" /\ y = "lost"))
      BY <1>1, <2>2
    <3>3. t \in Servings /\ t.phase # "arriving" /\ (t = s \/ t.phase = "none")
      <4>1. CASE s.phase = "arriving"
        <5>1. t = [s EXCEPT !.phase = "none"]
          BY <1>1, <2>2, <4>1
        <5> QED
          BY <2>1, <5>1 DEF Servings
      <4>2. CASE s.phase # "arriving"
        BY <1>1, <2>1, <4>2
      <4> QED
        BY <4>1, <4>2
    <3>4. y \in Cancels /\ g \in Seq(Frames)
      BY <2>1, <3>2, EmptySeq DEF Cancels
    <3> HIDE DEF c, d, x, y, s, t, f, g, l, m
    <3>5. x # "none" => c.phase \in {"cancelled", "late"}
      BY <2>1 DEF Carries
    <3>6. d.peer \in Peers
      BY <2>1, <3>1 DEF Carries
    <3>7. Carries(d, y, t, g, m)
      BY <3>1, <3>2, <3>3, <3>5, <3>6 DEF Carries
    <3> QED
      BY <3>3, <3>4, <3>7 DEF d, y, t, g, m
  <2>3. CASE r \notin cut
    <3>1. g = f /\ (y = x \/ (x # "none" /\ y = "lost")) /\ t = s
      BY <1>1, <2>3
    <3>4. y \in Cancels
      BY <2>1, <3>1 DEF Cancels
    <3>2. CASE d = c /\ (c.live => m.session = "open") /\ (c.phase = "connecting" => m.dialing # Nowhere)
      <4> HIDE DEF c, d, x, y, s, t, f, g, l, m
      <4>1. Carries(d, y, t, g, m)
        BY <2>1, <3>1, <3>2 DEF Carries
      <4> QED
        BY <2>1, <3>1, <3>4, <4>1 DEF d, y, t, g, m
    <3>3. CASE /\ ~c.live /\ ~d.live
               /\ d.peer = c.peer /\ d.counted = c.counted
               /\ \/ c.phase # "connecting" /\ d.phase = c.phase
                  \/ c.phase = "connecting" /\ d.phase = "unconnected"
      <4> HIDE DEF c, d, x, y, s, t, f, g, l, m
      <4>1. Carries(d, y, t, g, m)
        BY <2>1, <3>1, <3>3 DEF Carries
      <4> QED
        BY <2>1, <3>1, <3>4, <4>1 DEF d, y, t, g, m
    <3> QED
      BY <2>3, <3>2, <3>3
  <2> QED
    BY <2>2, <2>3
<1>3. CallTypes'
  <2>1. serving' \in [Requests -> Servings] /\ cancel' \in [Requests -> Cancels]
    BY <1>1, <1>2
  <2>2. stream' \in [Requests -> Seq(Frames)]
    BY <1>1, <1>2
  <2> QED
    BY <2>1, <2>2 DEF CallInv, CallTypes
<1> QED
  BY <1>2, <1>3 DEF CallInv, Carried

LEMMA LostCalls ==
    ASSUME LinkInv, CallInv, NEW p \in Peers, SessionLost(p)
    PROVE  CallInv'
<1> DEFINE cut == OnSession(p)
           cancels == {r \in Requests : call[r].peer = p /\ cancel[r] = "sent"}
<1>1. /\ call' = [r \in Requests |-> IF r \in cut THEN [call[r] EXCEPT !.live = FALSE]
                                     ELSE call[r]]
      /\ CutStreams(cut, cancels)
      /\ link' = [link EXCEPT ![p].session = "dead"]
      /\ UNCHANGED active
  BY DEF SessionLost, Lost, routingVars
<1>2. \A q \in Peers : q # p => link'[q] = link[q]
  BY <1>1 DEF LinkInv, LinkTypes
<1>3. link'[p].dialing = link[p].dialing
  <2>1. link[p] \in Links /\ link'[p] = [link[p] EXCEPT !.session = "dead"]
    BY <1>1, LinkFacts DEF LinkInv, LinkTypes
  <2> QED
    BY <2>1 DEF Links
<1>4. ASSUME NEW r \in Requests
      PROVE  /\ call'[r] \in Calls
             /\ \/ /\ r \in cut
                   /\ ~call'[r].live
                   /\ call'[r].peer = call[r].peer /\ call'[r].counted = call[r].counted
                   /\ call[r].phase \notin {"idle", "unrouted", "connecting"}
                   /\ call'[r].phase = call[r].phase
                \/ /\ r \notin cut
                   /\ call'[r] = call[r]
                   /\ call[r].live => link'[call[r].peer].session = "open"
                   /\ call[r].phase = "connecting" => link'[call[r].peer].dialing # Nowhere
  <2>1. /\ call[r] \in Calls
        /\ Carries(call[r], cancel[r], serving[r], stream[r], link[call[r].peer])
    BY CallFacts
  <2>2. /\ call[r].phase \notin {"idle", "unrouted"} => call[r].peer \in Peers
        /\ call[r].phase \in {"idle", "unrouted", "connecting"} => ~call[r].live
        /\ call[r].live => link[call[r].peer].session = "open"
        /\ call[r].phase = "connecting" => link[call[r].peer].dialing # Nowhere
    BY <2>1 DEF Carries
  <2>3. CASE r \in cut
    <3>1. call[r].live
      BY <2>3 DEF OnSession
    <3>2. call'[r] = [call[r] EXCEPT !.live = FALSE]
      BY <1>1, <2>3
    <3>3. /\ call'[r] \in Calls /\ call'[r].live = FALSE
          /\ call'[r].peer = call[r].peer /\ call'[r].phase = call[r].phase
          /\ call'[r].counted = call[r].counted
      BY <2>1, <3>2 DEF Calls
    <3> QED
      BY <2>2, <2>3, <3>1, <3>3
  <2>4. CASE r \notin cut
    <3>1. call'[r] = call[r]
      BY <1>1, <2>4
    <3>2. call[r].peer # p \/ ~call[r].live
      BY <2>4 DEF OnSession
    <3> HIDE DEF cut
    <3> QED
      BY <1>2, <1>3, <2>1, <2>2, <2>4, <3>1, <3>2
  <2> QED
    BY <2>3, <2>4
<1>5. call' \in [Requests -> Calls]
  BY <1>1, <1>4
<1>6. cut \in SUBSET Requests /\ \A r \in Requests : r \in cancels => cancel[r] # "none"
  BY DEF OnSession
<1> HIDE DEF cut, cancels
<1> QED
  BY <1>1, <1>4, <1>5, <1>6, CutCalls

LEMMA DisposedCalls ==
    ASSUME LinkInv, CallInv, Dispose
    PROVE  CallInv'
<1> DEFINE cut == {r \in Requests : call[r].live}
           cancels == {r \in Requests : cancel[r] \in {"connecting", "sent"}}
           given(r) == IF call[r].phase = "connecting"
                       THEN [call[r] EXCEPT !.phase = "unconnected"]
                       ELSE [call[r] EXCEPT !.live = FALSE]
<1>1. /\ call' = [r \in Requests |-> given(r)]
      /\ CutStreams(cut, cancels)
      /\ UNCHANGED active
  BY DEF Dispose, Disposed, routingVars
<1>2. ASSUME NEW r \in Requests
      PROVE  /\ call'[r] \in Calls
             /\ \/ /\ r \in cut
                   /\ ~call'[r].live
                   /\ call'[r].peer = call[r].peer /\ call'[r].counted = call[r].counted
                   /\ call[r].phase \notin {"idle", "unrouted", "connecting"}
                   /\ call'[r].phase = call[r].phase
                \/ /\ r \notin cut
                   /\ ~call[r].live /\ ~call'[r].live
                   /\ call'[r].peer = call[r].peer /\ call'[r].counted = call[r].counted
                   /\ \/ call[r].phase # "connecting" /\ call'[r].phase = call[r].phase
                      \/ call[r].phase = "connecting" /\ call'[r].phase = "unconnected"
  <2>1. /\ call[r] \in Calls
        /\ Carries(call[r], cancel[r], serving[r], stream[r], link[call[r].peer])
    BY CallFacts
  <2>2. call[r].phase \in {"idle", "unrouted", "connecting"} => ~call[r].live
    BY <2>1 DEF Carries
  <2>3. call'[r] = given(r) /\ (r \in cut <=> call[r].live)
    BY <1>1
  <2> HIDE DEF cut
  <2>4. CASE call[r].phase = "connecting"
    <3>1. call'[r] = [call[r] EXCEPT !.phase = "unconnected"]
      BY <2>3, <2>4
    <3>2. /\ call'[r] \in Calls /\ call'[r].phase = "unconnected"
          /\ call'[r].live = call[r].live /\ call'[r].peer = call[r].peer
          /\ call'[r].counted = call[r].counted
      BY <2>1, <3>1 DEF Calls
    <3> QED
      BY <2>2, <2>3, <2>4, <3>2
  <2>5. CASE call[r].phase # "connecting"
    <3>1. call'[r] = [call[r] EXCEPT !.live = FALSE]
      BY <2>3, <2>5
    <3>2. /\ call'[r] \in Calls /\ call'[r].phase = call[r].phase
          /\ call'[r].live = FALSE /\ call'[r].peer = call[r].peer
          /\ call'[r].counted = call[r].counted
      BY <2>1, <3>1 DEF Calls
    <3> QED
      BY <2>2, <2>3, <2>5, <3>2
  <2> QED
    BY <2>4, <2>5
<1>3. call' \in [Requests -> Calls]
  BY <1>1, <1>2
<1>4. cut \in SUBSET Requests /\ \A r \in Requests : r \in cancels => cancel[r] # "none"
  OBVIOUS
<1> HIDE DEF cut, cancels, given
<1> QED
  BY <1>1, <1>2, <1>3, <1>4, CutCalls

LEMMA ProbeCalls ==
    ASSUME LinkInv, CallInv, NEW p \in Peers, Probe(p)
    PROVE  LinkInv' /\ CallInv'
<1>1. /\ Member(p) /\ link' = [link EXCEPT ![p] = Dialed(@, target[p])]
      /\ UNCHANGED <<order, reach, target, disposed, forgotten>>
      /\ UNCHANGED <<call, cancel, serving, stream>>
  BY DEF Probe, Probed
<1>2. active' \in [Peers -> Nat]
  <2>1. active \in [Peers -> Nat]
    BY DEF CallInv, CallTypes
  <2> QED
    BY <2>1, RouteType DEF Probe, Probed
<1>3. \A q \in Peers : Keeps(link[q], link'[q])
  BY <1>1, DialedAllKeep
<1> QED
  BY <1>1, <1>2, <1>3, DialedLink, SameCalls

-----------------------------------------------------------------------------
(* The invariant of the specification.                                     *)

Inv == LinkInv /\ CallInv

LEMMA InitInv == Init => Inv
<1> SUFFICES ASSUME Init PROVE Inv
  OBVIOUS
<1>1. /\ active = [p \in Peers |-> 0]
      /\ call = [r \in Requests |-> Uncalled]
      /\ cancel = [r \in Requests |-> "none"]
      /\ serving = [r \in Requests |-> Unserved]
      /\ stream = [r \in Requests |-> <<>>]
  BY DEF Init, RoutingInit
<1>2. Uncalled \in Calls /\ Unserved \in Servings /\ "none" \in Cancels
  BY DEF Uncalled, Calls, Unserved, Servings, Cancels
<1>3. <<>> \in Seq(Frames)
  BY EmptySeq
<1>4. CallTypes
  BY <1>1, <1>2, <1>3 DEF CallTypes
<1>5. ASSUME NEW r \in Requests
      PROVE  Carried(r)
  <2>1. /\ call[r] = Uncalled /\ serving[r] = Unserved /\ cancel[r] = "none"
        /\ stream[r] = <<>>
    BY <1>1
  <2>2. DOMAIN stream[r] = {}
    BY <2>1
  <2> QED
    BY <2>1, <2>2 DEF Carried, Carries, Uncalled, Unserved
<1> QED
  BY <1>4, <1>5, InitLink DEF Inv, CallInv

LEMMA NextInv == Inv /\ [Next]_vars => Inv'
<1> SUFFICES ASSUME LinkInv, CallInv, [Next]_vars PROVE LinkInv' /\ CallInv'
  BY DEF Inv
<1>1. ASSUME NEW p \in Peers, TopologyChanges(p)
      PROVE  LinkInv' /\ CallInv'
  <2>1. /\ (\E t \in TargetsOf[p] : Announced(p, t)) \/ Removed(p)
        /\ UNCHANGED <<call, cancel, serving, stream>>
    BY <1>1 DEF TopologyChanges
  <2>2. active' \in [Peers -> Nat]
    BY <2>1 DEF Announced, Removed, CallInv, CallTypes
  <2>3. \A q \in Peers : Keeps(link[q], link'[q])
    BY <2>1, AllKeep
  <2>4. LinkInv'
    BY <2>1, AnnouncedLink, RemovedLink
  <2> QED
    BY <2>1, <2>2, <2>3, <2>4, SameCalls
<1>2. ASSUME NEW p \in Peers, Wake(p) \/ Closed(p)
      PROVE  LinkInv' /\ CallInv'
  <2>1. /\ LoopWakes(p) \/ CloseEvent(p)
        /\ UNCHANGED <<call, cancel, serving, stream>>
    BY <1>2 DEF Wake, Closed
  <2>2. active' \in [Peers -> Nat]
    BY <2>1 DEF LoopWakes, CloseEvent, routingVars, CallInv, CallTypes
  <2>3. \A q \in Peers : Keeps(link[q], link'[q])
    BY <2>1, AllKeep
  <2>4. LinkInv'
    BY <2>1, WokenLink, ClosedLink
  <2> QED
    BY <2>1, <2>2, <2>3, <2>4, SameCalls
<1>3. ASSUME NEW p \in Peers, ConnectSucceeds(p)
      PROVE  LinkInv' /\ CallInv'
  BY <1>3, ConnectedLink, ConnectedCalls DEF ConnectSucceeds
<1>4. ASSUME NEW p \in Peers, ConnectFails(p)
      PROVE  LinkInv' /\ CallInv'
  BY <1>4, UnconnectedLink, UnconnectedCalls DEF ConnectFails
<1>5. ASSUME NEW p \in Peers, SessionLost(p)
      PROVE  LinkInv' /\ CallInv'
  BY <1>5, LostLink, LostCalls DEF SessionLost
<1>6. ASSUME Dispose
      PROVE  LinkInv' /\ CallInv'
  BY <1>6, DisposedLink, DisposedCalls DEF Dispose
<1>7. ASSUME NEW r \in Requests,
             \/ Frame(r) \/ Breaks(r) \/ RequestArrives(r) \/ StreamCloses(r)
             \/ CancelArrives(r) \/ Replies(r, "item") \/ Replies(r, "final")
      PROVE  LinkInv' /\ CallInv'
  <2>1. UNCHANGED <<order, reach, target, link, disposed, forgotten>>
    BY <1>7 DEF Frame, Headers, Refused, Item, Final, Arrives, Breaks, StreamBreaks,
                RequestArrives, StreamCloses, CancelArrives, Replies, routingVars, linkVars
  <2>2. CallInv'
    BY <1>7, FrameCalls, BreakCalls, ArrivalCalls, ProviderCalls, ReplyCalls DEF Breaks
  <2> QED
    BY <2>1, <2>2, SameLinks
<1>8. ASSUME NEW r \in Requests, Cancel(r)
      PROVE  LinkInv' /\ CallInv'
  <2>1. call[r].peer \in Peers
    BY <1>8, CallFacts DEF Cancel
  <2>2. CASE Member(call[r].peer)
    BY <1>8, <2>1, <2>2, DialedLink, CancelCalls DEF Cancel, routingVars
  <2>3. CASE ~Member(call[r].peer)
    BY <1>8, <2>3, SameLinks, CancelCalls DEF Cancel, routingVars
  <2> QED
    BY <2>2, <2>3
<1>9. ASSUME UNCHANGED vars
      PROVE  LinkInv' /\ CallInv'
  <2>1. /\ UNCHANGED <<order, reach, target, link, disposed, forgotten>>
        /\ UNCHANGED <<active, call, cancel, serving, stream>>
    BY <1>9 DEF vars, routingVars, linkVars
  <2>2. active' \in [Peers -> Nat]
    BY <2>1 DEF CallInv, CallTypes
  <2> QED
    BY <2>1, <2>2, SameLinks, SameKeeps, SameCalls
<1> QED
  BY <1>1, <1>2, <1>3, <1>4, <1>5, <1>6, <1>7, <1>8, <1>9, SendCalls, ProbeCalls DEF Next

-----------------------------------------------------------------------------
(* Theorems.                                                               *)

LEMMA Safety == Spec => []Inv
<1> QED
  BY InitInv, NextInv, PTL DEF Spec

\* Every variable keeps its type: requests go through the phases that send(), cancel() and
\* the streams know, and a link is in one of the states of #connections and #connecting.
THEOREM Typing == Spec => []Types
<1>1. Inv => Types
  BY DEF Inv, LinkInv, CallInv, Types
<1> QED
  BY <1>1, Safety, PTL

\* A member is connected, being connected, or about to be (Http2Rpc.ts:361-367), however
\* losses, attempts, changes of Topology and requests follow each other.
THEOREM Knocks == Spec => []KeepsKnocking
<1>1. Inv => KeepsKnocking
  BY LinkFacts DEF Inv, KeepsKnocking, Sound, Knocking, Open, Known, LinkInv, LinkTypes, Links
<1> QED
  BY <1>1, Safety, PTL

\* What Topology holds of a member agrees with its connection (Http2Rpc.ts:308-324, 411-416).
THEOREM ReachIsTrue == Spec => []ReachIsCurrent
<1>1. Inv => ReachIsCurrent
  BY LinkFacts DEF Inv, ReachIsCurrent, Sound, Current, Open
<1> QED
  BY <1>1, Safety, PTL

\* A member that could not be connected UnreachableAfter times in a row is unreachable
\* (Http2Rpc.ts:392), if that takes two attempts at least: with one, the event of a session
\* lost before is still due when the first attempt fails, and reports the node as suspect.
THEOREM DownIsReported ==
    ASSUME UnreachableAfter > 1
    PROVE  Spec => []DownNodesAreReported
<1>1. ASSUME Inv, NEW p \in Peers, ~forgotten[p],
             \/ link[p].phase = "sleeping" /\ link[p].attempt >= UnreachableAfter
             \/ link[p].phase = "connecting" /\ link[p].attempt > UnreachableAfter
      PROVE  reach[p] = "unreachable"
  <2>1. /\ link[p].attempt \in Nat /\ UnreachableAfter \in Nat
        /\ Sound(link[p], Known(p), disposed, reach[p], forgotten[p])
    BY <1>1, LinkFacts, Bounds DEF Inv, Links
  <2>2. link[p].attempt >= UnreachableAfter /\ Reporting(link[p], Known(p), reach[p])
    BY <1>1, <2>1 DEF Sound
  <2> QED
    BY <1>1, <2>1, <2>2 DEF Reporting
<1>2. Inv => DownNodesAreReported
  BY <1>1 DEF DownNodesAreReported
<1> QED
  BY <1>2, Safety, PTL

\* While a call waits, its node is being connected, or its session is gone, of which nothing
\* is claimed, or the provider has yet to get it, still owes an answer it has a stream for,
\* or has sent it (Http2Rpc.ts:155-163, 460-468).
THEOREM Carriage == Spec => []CallsAreCarried
<1>1. ASSUME Inv, NEW r \in Requests
      PROVE  /\ call[r].phase = "connecting" => link[call[r].peer].dialing # Nowhere
             /\ call[r].phase \in {"waiting", "sent"} /\ call[r].live =>
                  /\ Open(call[r].peer)
                  /\ \/ serving[r].phase = "arriving"
                     \/ serving[r].phase = "running" /\ serving[r].entry
                     \/ Holds(r, {"refused", "final"})
  BY <1>1, CallFacts DEF Inv, Carries, Open, Holds
<1>2. Inv => CallsAreCarried
  BY <1>1 DEF CallsAreCarried
<1> QED
  BY <1>2, Safety, PTL

-----------------------------------------------------------------------------
(* After stop(): only a cancel asks for a connection.                      *)

\* A call that is cancelled late remains so, at the node it was sent to.
LEMMA LateStays ==
    ASSUME Inv, Next, NEW q \in Requests, call[q].phase = "late"
    PROVE  call'[q].phase = "late" /\ call'[q].peer = call[q].peer
<1>1. /\ call \in [Requests -> Calls] /\ call[q] \in Calls
      /\ call' = call => call'[q] = call[q]
  BY DEF Inv, CallInv, CallTypes
<1>2. ASSUME NEW r \in Requests, NEW d, call' = [call EXCEPT ![r] = d], r # q
      PROVE  call'[q] = call[q]
  BY <1>1, <1>2
<1>3. ASSUME NEW p \in Peers,
             \/ TopologyChanges(p) \/ Probe(p) \/ Wake(p) \/ Closed(p)
      PROVE  call' = call
  BY <1>3 DEF TopologyChanges, Probe, Wake, Closed
<1>4. ASSUME NEW p \in Peers, ConnectSucceeds(p) \/ ConnectFails(p)
      PROVE  call'[q] = call[q]
  BY <1>4 DEF ConnectSucceeds, ConnectFails, Becomes, CallsOf
<1>5. ASSUME NEW p \in Peers, SessionLost(p)
      PROVE  call'[q].phase = "late" /\ call'[q].peer = call[q].peer
  BY <1>1, <1>5 DEF SessionLost, Calls
<1>6. ASSUME Dispose
      PROVE  call'[q].phase = "late" /\ call'[q].peer = call[q].peer
  <2>1. call'[q] = [call[q] EXCEPT !.live = FALSE]
    BY <1>6 DEF Dispose
  <2> QED
    BY <1>1, <2>1 DEF Calls
<1>7. ASSUME NEW r \in Requests,
             Send(r) \/ Frame(r) \/ Breaks(r) \/ Cancel(r)
      PROVE  call'[q] = call[q]
  <2>1. CASE Send(r) \/ Breaks(r) \/ Cancel(r)
    <3>1. call[r].phase # "late"
      BY <2>1 DEF Send, Breaks, StreamBreaks, Cancel
    <3>2. \E d : call' = [call EXCEPT ![r] = d]
      BY <2>1 DEF Send, Breaks, StreamBreaks, Cancel
    <3> QED
      BY <1>2, <3>1, <3>2
  <2>2. CASE Frame(r)
    <3> DEFINE f == stream[r]
    <3>1. f # <<>>
      BY <2>2 DEF Frame, Headers, Refused, Item, Final, Arrives
    <3>2. Head(f) \in {"headers", "refused"} <=> call[r].phase = "waiting"
      BY <3>1, CallFacts, TakenFrame DEF Inv
    <3>3. call' = call \/ (call[r].phase # "late" /\ \E d : call' = [call EXCEPT ![r] = d])
      BY <2>2, <3>2 DEF Frame, Headers, Refused, Item, Final, Arrives
    <3> QED
      BY <1>1, <1>2, <3>3
  <2> QED
    BY <1>7, <2>1, <2>2
<1>8. ASSUME NEW r \in Requests,
             \/ RequestArrives(r) \/ StreamCloses(r) \/ CancelArrives(r)
             \/ Replies(r, "item") \/ Replies(r, "final")
      PROVE  call' = call
  BY <1>8 DEF RequestArrives, StreamCloses, CancelArrives, Replies
<1> QED
  BY <1>1, <1>3, <1>4, <1>5, <1>6, <1>7, <1>8 DEF Next

Held(l) == l.session # "none" \/ l.dialing # Nowhere

\* Once stopped, whatever holds a connection held it before, or is dialed for a cancel.
LEMMA HeldStays ==
    ASSUME Inv, Next, disposed, NEW p \in Peers, Held(link'[p])
    PROVE  Held(link[p]) \/ \E r \in Requests : call[r].peer = p /\ Cancel(r)
<1>1. link \in [Peers -> Links] /\ (link' = link => Held(link[p]))
  BY DEF Inv, LinkInv, LinkTypes
<1>2. ASSUME NEW q \in Peers, NEW d, link' = [link EXCEPT ![q] = d],
             q = p => (Held(d) => Held(link[p]))
      PROVE  Held(link[p])
  BY <1>1, <1>2
<1>3. ASSUME NEW q \in Peers, ConnectSucceeds(q)
      PROVE  Held(link[p])
  <2>1. \E d : link' = [link EXCEPT ![q] = d]
    BY <1>3 DEF ConnectSucceeds, Connected
  <2>2. Held(link[q])
    BY <1>3 DEF ConnectSucceeds, Connected, Held
  <2> QED
    BY <1>2, <2>1, <2>2
<1>4. ASSUME NEW q \in Peers, ConnectFails(q)
      PROVE  Held(link[p])
  <2> DEFINE phase == IF link[q].phase = "connecting" THEN "sleeping" ELSE link[q].phase
             d == [link[q] EXCEPT !.dialing = Nowhere, !.phase = phase]
  <2>1. link' = [link EXCEPT ![q] = d]
    BY <1>1, <1>4 DEF ConnectFails, Unconnected
  <2>2. link[q].dialing # Nowhere
    BY <1>4 DEF ConnectFails, Unconnected
  <2> HIDE DEF d
  <2> QED
    BY <1>2, <2>1, <2>2 DEF Held
<1>5. ASSUME NEW q \in Peers, Wake(q)
      PROVE  Held(link[p])
  <2>1. link' = [link EXCEPT ![q] = LoopOver(link[q])]
    BY <1>5 DEF Wake, LoopWakes
  <2>2. link[q] \in Links
    BY <1>1
  <2>3. Held(LoopOver(link[q])) => Held(link[q])
    BY <2>2, LoopOverFacts DEF Held
  <2> QED
    BY <1>2, <2>1, <2>3
<1>6. ASSUME NEW q \in Peers, Closed(q)
      PROVE  Held(link[p])
  <2>1. link' = [link EXCEPT ![q] = Dropped(link[q])]
    BY <1>6 DEF Closed, CloseEvent, AfterLoss, Dropped
  <2>2. link[q] \in Links
    BY <1>1
  <2>3. Held(Dropped(link[q])) => Held(link[q])
    BY <2>2 DEF Held, Dropped, Links
  <2> QED
    BY <1>2, <2>1, <2>3
<1>7. ASSUME NEW q \in Peers, SessionLost(q)
      PROVE  Held(link[p])
  <2>1. \E d : link' = [link EXCEPT ![q] = d]
    BY <1>7 DEF SessionLost, Lost
  <2>2. Held(link[q])
    BY <1>7 DEF SessionLost, Lost, Open, Held
  <2> QED
    BY <1>2, <2>1, <2>2
<1>8. ASSUME NEW r \in Requests, Cancel(r), call[r].peer # p
      PROVE  Held(link[p])
  <2>1. link' = link \/ \E d : link' = [link EXCEPT ![call[r].peer] = d]
    BY <1>8 DEF Cancel
  <2> QED
    BY <1>1, <1>8, <2>1
<1>9. ASSUME NEW r \in Requests,
             \/ Frame(r) \/ Breaks(r) \/ RequestArrives(r) \/ StreamCloses(r)
             \/ CancelArrives(r) \/ Replies(r, "item") \/ Replies(r, "final")
      PROVE  link' = link
  BY <1>9 DEF Frame, Headers, Refused, Item, Final, Arrives, Breaks, StreamBreaks,
              RequestArrives, StreamCloses, CancelArrives, Replies, linkVars
<1>10. ASSUME NEW q \in Peers, TopologyChanges(q) \/ Probe(q)
       PROVE  FALSE
  BY <1>10 DEF TopologyChanges, Announced, Removed, Probe, Probed
<1>11. ~Dispose /\ \A r \in Requests : ~Send(r)
  BY DEF Dispose, Disposed, Send
<1> QED
  BY <1>1, <1>3, <1>4, <1>5, <1>6, <1>7, <1>8, <1>9, <1>10, <1>11 DEF Next

\* stop() leaves no connection (Http2Rpc.ts:92-116), and none is opened after it except by
\* cancel() to the node of a call that is cancelled that late (Http2Rpc.ts:220-227).
THEOREM StopIsFinal == Spec => []StopsForGood
<1>1. Init => StopsForGood
  BY DEF Init, LinkInit, StopsForGood
<1>2. Inv /\ StopsForGood /\ [Next]_vars => StopsForGood'
  <2> SUFFICES ASSUME Inv, StopsForGood, [Next]_vars, disposed',
                      NEW p \in Peers, Held(link'[p])
               PROVE  \E r \in Requests : call'[r].peer = p /\ call'[r].phase = "late"
    BY DEF StopsForGood, Held
  <2>1. CASE UNCHANGED vars
    BY <2>1 DEF vars, linkVars, StopsForGood, Held
  <2>2. CASE Next /\ disposed
    <3>1. CASE Held(link[p])
      <4>1. PICK r \in Requests : call[r].peer = p /\ call[r].phase = "late"
        BY <2>2, <3>1 DEF StopsForGood, Held
      <4> QED
        BY <2>2, <4>1, LateStays
    <3>2. ASSUME NEW r \in Requests, call[r].peer = p, Cancel(r)
          PROVE  call'[r].peer = p /\ call'[r].phase = "late"
      BY <3>2 DEF Cancel, Inv, CallInv, CallTypes, Calls
    <3> QED
      BY <2>2, <3>1, <3>2, HeldStays
  <2>3. CASE Next /\ ~disposed
    <3>1. Dispose
      BY <2>3 DEF Next, TopologyChanges, Announced, Removed, Probe, Probed, ConnectSucceeds,
                  Connected, ConnectFails, Unconnected, Wake, LoopWakes, Closed, CloseEvent,
                  SessionLost, Lost, Send, Frame, Headers, Refused, Item, Final, Arrives,
                  Breaks, StreamBreaks, Cancel, RequestArrives, StreamCloses, CancelArrives,
                  Replies, linkVars
    <3>2. link'[p].session = "none" /\ link'[p].dialing = Nowhere
      BY <3>1 DEF Dispose, Disposed, NoLink
    <3> QED
      BY <3>2 DEF Held
  <2> QED
    BY <2>1, <2>2, <2>3
<1> QED
  BY <1>1, <1>2, Safety, PTL DEF Spec

-----------------------------------------------------------------------------
(* The counter of least-active.                                            *)

\* Phases in which send() has not reported.
Pending == {"connecting", "waiting", "unconnected", "mute"}
Counts(c, p) == c.counted /\ c.peer = p /\ c.phase \in Pending
Counted(p) == {r \in Requests : Counts(call[r], p)}

\* What the counter is at any time, which is inductive.
CountsInv == \A p \in Peers : active[p] = Cardinality(Counted(p))

LEMMA CountedFinite ==
    ASSUME NEW p
    PROVE  IsFiniteSet(Counted(p)) /\ Cardinality(Counted(p)) \in Nat
<1>1. IsFiniteSet(Counted(p))
  BY FS_Subset, Http2RpcAssumption DEF Counted
<1> QED
  BY <1>1, FS_CardinalityType

\* Steps that neither count a request nor take one off.
LEMMA SameCount ==
    ASSUME CountsInv, UNCHANGED active,
           \A r \in Requests, p \in Peers : Counts(call'[r], p) <=> Counts(call[r], p)
    PROVE  CountsInv'
<1>1. ASSUME NEW p \in Peers
      PROVE  Counted(p)' = Counted(p)
  BY DEF Counted
<1>2. \A p \in Peers : active'[p] = Cardinality(Counted(p)')
  BY <1>1 DEF CountsInv
<1> QED
  BY <1>2 DEF CountsInv

\* A step of one request that leaves it counted, or not counted.
LEMMA SameCountOfOne ==
    ASSUME CallInv, CountsInv, UNCHANGED active, NEW r \in Requests,
           NEW d, call' = [call EXCEPT ![r] = d],
           \A p \in Peers : Counts(d, p) <=> Counts(call[r], p)
    PROVE  CountsInv'
<1>1. \A q \in Requests : call'[q] = IF q = r THEN d ELSE call[q]
  BY DEF CallInv, CallTypes
<1> QED
  BY <1>1, SameCount

LEMMA OneMore ==
    ASSUME CallInv, CountsInv, NEW r \in Requests, NEW p \in Peers,
           NEW d, call' = [call EXCEPT ![r] = d], d.peer = p,
           Counts(d, p), ~call[r].counted,
           active' = [active EXCEPT ![p] = @ + 1]
    PROVE  CountsInv'
<1>1. \A q \in Requests : call'[q] = IF q = r THEN d ELSE call[q]
  BY DEF CallInv, CallTypes
<1>2. \A q \in Peers : active'[q] = IF q = p THEN active[q] + 1 ELSE active[q]
  BY DEF CallInv, CallTypes
<1>3. \A q \in Peers : r \notin Counted(q) /\ active[q] = Cardinality(Counted(q))
  BY DEF CountsInv, Counted, Counts
<1>4. Counted(p)' = Counted(p) \cup {r}
  BY <1>1 DEF Counted
<1>5. \A q \in Peers : q # p => Counted(q)' = Counted(q)
  BY <1>1, <1>3 DEF Counted, Counts
<1>6. Cardinality(Counted(p) \cup {r}) = Cardinality(Counted(p)) + 1
  BY <1>3, CountedFinite, FS_AddElement
<1>7. \A q \in Peers : active'[q] = Cardinality(Counted(q)')
  BY <1>2, <1>3, <1>4, <1>5, <1>6
<1> QED
  BY <1>7 DEF CountsInv

LEMMA OneLess ==
    ASSUME CallInv, CountsInv, NEW r \in Requests, NEW d, call' = [call EXCEPT ![r] = d],
           d.phase \notin Pending, call[r].phase \in Pending, ReportRoute(r)
    PROVE  CountsInv'
<1>1. \A q \in Requests : call'[q] = IF q = r THEN d ELSE call[q]
  BY DEF CallInv, CallTypes
<1>2. CASE ~call[r].counted
  <2>1. \A q \in Peers : Counts(d, q) <=> Counts(call[r], q)
    BY <1>2 DEF Counts
  <2>2. UNCHANGED active
    BY <1>2 DEF ReportRoute
  <2> QED
    BY <2>1, <2>2, SameCountOfOne
<1>3. CASE call[r].counted
  <2>1. PICK p \in Peers : p = call[r].peer /\ Counts(call[r], p)
    BY <1>3, CallFacts DEF Counts, Pending
  <2>2. \A q \in Peers : active[q] = Cardinality(Counted(q)) /\ active[q] \in Nat
    BY DEF CountsInv, CallInv, CallTypes
  <2>3. active' = [active EXCEPT ![p] = IF active[p] > 0 THEN active[p] - 1 ELSE 0]
    BY <1>3, <2>1 DEF ReportRoute, Report
  <2>4. r \in Counted(p) /\ Counted(p)' = Counted(p) \ {r}
    BY <1>1, <2>1 DEF Counted, Counts
  <2>5. \A q \in Peers : q # p => Counted(q)' = Counted(q)
    BY <1>1, <2>1 DEF Counted, Counts
  <2>6. Cardinality(Counted(p) \ {r}) = Cardinality(Counted(p)) - 1
    BY <2>4, CountedFinite, FS_RemoveElement
  <2>7. Cardinality(Counted(p) \ {r}) \in Nat
    BY CountedFinite, FS_RemoveElement, FS_CardinalityType
  <2>8. active'[p] = Cardinality(Counted(p)')
    <3>1. active[p] > 0 /\ active'[p] = active[p] - 1
      BY <2>1, <2>2, <2>3, <2>6, <2>7 DEF CallInv, CallTypes
    <3> QED
      BY <2>1, <2>2, <2>4, <2>6, <3>1
  <2>9. \A q \in Peers : q # p => active'[q] = Cardinality(Counted(q)')
    BY <2>2, <2>3, <2>5 DEF CallInv, CallTypes
  <2> QED
    BY <2>8, <2>9 DEF CountsInv
<1> QED
  BY <1>2, <1>3

LEMMA SendCounts ==
    ASSUME Inv, CountsInv, NEW r \in Requests, Send(r)
    PROVE  CountsInv'
<1>1. /\ call[r] \in Calls /\ ~call[r].counted /\ call[r].phase = "idle"
      /\ CallInv /\ LinkInv
  BY CallFacts DEF Inv, Send, Carries
<1>2. PICK strategy \in Strategies, pin \in Peers, p \in Peers \cup {Nobody} :
       /\ IF CanRoute(strategy, pin) THEN Route(strategy, pin, p)
          ELSE p = Nobody /\ UNCHANGED <<index, active>>
       /\ IF p = Nobody
          THEN call' = [call EXCEPT ![r].phase = "unrouted"]
          ELSE call' = [call EXCEPT ![r] =
                              [phase |-> IF Open(p) THEN "waiting" ELSE "connecting",
                               peer |-> p, counted |-> strategy = "least-active",
                               live |-> Open(p)]]
  BY DEF Send
<1>3. CASE p = Nobody
  <2> DEFINE d == [call[r] EXCEPT !.phase = "unrouted"]
  <2>1. call' = [call EXCEPT ![r] = d] /\ UNCHANGED active
    BY <1>2, <1>3 DEF Route
  <2>2. d.counted = call[r].counted
    BY <1>1 DEF Calls
  <2> HIDE DEF d
  <2> QED
    BY <1>1, <2>1, <2>2, SameCountOfOne DEF Counts
<1>4. CASE p # Nobody
  <2> DEFINE d == [phase |-> IF Open(p) THEN "waiting" ELSE "connecting",
                   peer |-> p, counted |-> strategy = "least-active", live |-> Open(p)]
  <2>1. /\ call' = [call EXCEPT ![r] = d] /\ Route(strategy, pin, p) /\ p \in Peers
        /\ d.peer = p /\ d.phase \in Pending /\ d.counted = (strategy = "least-active")
    BY <1>2, <1>4 DEF Pending
  <2> HIDE DEF d
  <2>2. CASE strategy = "least-active"
    <3>1. active' = [active EXCEPT ![p] = @ + 1] /\ Counts(d, p)
      BY <1>4, <2>1, <2>2 DEF Route, Counts
    <3> QED
      BY <1>1, <2>1, <3>1, OneMore
  <2>3. CASE strategy # "least-active"
    <3>1. UNCHANGED active /\ ~d.counted
      BY <2>1, <2>3 DEF Route
    <3> QED
      BY <1>1, <2>1, <3>1, SameCountOfOne DEF Counts
  <2> QED
    BY <2>2, <2>3
<1> QED
  BY <1>3, <1>4

\* The caller's end of a request moves on, and is reported when its route is known to be
\* right or wrong.
LEMMA CallerCounts ==
    ASSUME Inv, CountsInv, NEW r \in Requests, Frame(r) \/ Breaks(r) \/ Cancel(r)
    PROVE  CountsInv'
<1>1. call[r] \in Calls /\ CallInv
  BY CallFacts DEF Inv
<1>2. ASSUME NEW phase \in {"sent", "refused", "answered", "offline", "mute", "cancelled", "late"},
             call' = [call EXCEPT ![r].phase = phase],
             \/ UNCHANGED active /\ (phase \in Pending <=> call[r].phase \in Pending)
             \/ ReportRoute(r) /\ phase \notin Pending /\ call[r].phase \in Pending
      PROVE  CountsInv'
  <2> DEFINE d == [call[r] EXCEPT !.phase = phase]
  <2>1. /\ call' = [call EXCEPT ![r] = d]
        /\ d.phase = phase /\ d.peer = call[r].peer /\ d.counted = call[r].counted
    BY <1>1, <1>2 DEF Calls
  <2> HIDE DEF d
  <2> QED
    BY <1>1, <1>2, <2>1, OneLess, SameCountOfOne DEF Counts
<1>3. CASE Frame(r)
  <2>1. stream[r] # <<>>
    BY <1>3 DEF Frame, Headers, Refused, Item, Final, Arrives
  <2>2. Head(stream[r]) \in {"headers", "refused"} <=> call[r].phase = "waiting"
    BY <2>1, CallFacts, TakenFrame DEF Inv
  <2>3. CASE Headers(r) \/ Refused(r)
    BY <1>2, <2>2, <2>3 DEF Headers, Refused, Arrives, Pending
  <2>4. CASE Item(r) \/ Final(r)
    <3>1. CASE call' = call
      BY <2>4, <3>1, SameCount DEF Item, Final
    <3>2. CASE call' # call
      BY <1>2, <2>4, <3>2 DEF Item, Final, Pending
    <3> QED
      BY <3>1, <3>2
  <2> QED
    BY <1>3, <2>3, <2>4 DEF Frame
<1>4. ASSUME NEW how \in {"end", "error"}, StreamBreaks(r, how)
      PROVE  CountsInv'
  <2>1. call[r].phase \in {"waiting", "sent"} /\ call' = [call EXCEPT ![r].phase = Broken(r, how)]
    BY <1>4 DEF StreamBreaks
  <2>2. CASE call[r].phase = "waiting" /\ how = "error"
    BY <1>2, <1>4, <2>1, <2>2 DEF StreamBreaks, Broken, Pending
  <2>3. CASE call[r].phase = "waiting" /\ how = "end"
    BY <1>2, <1>4, <2>1, <2>3 DEF StreamBreaks, Broken, Pending
  <2>4. CASE call[r].phase = "sent"
    BY <1>2, <1>4, <2>1, <2>4 DEF StreamBreaks, Broken, Pending
  <2> QED
    BY <2>1, <2>2, <2>3, <2>4
<1>5. CASE Cancel(r)
  <2> DEFINE phase == IF disposed THEN "late" ELSE "cancelled"
  <2>1. /\ call' = [call EXCEPT ![r].phase = phase] /\ UNCHANGED active
        /\ call[r].phase = "sent"
    BY <1>5 DEF Cancel, routingVars
  <2>2. phase \in {"cancelled", "late"}
    OBVIOUS
  <2> HIDE DEF phase
  <2> QED
    BY <1>2, <2>1, <2>2 DEF Pending
<1> QED
  BY <1>3, <1>4, <1>5 DEF Breaks

\* Steps of connections: requests go from one unsettled phase to another.
LEMMA ConnectionCounts ==
    ASSUME Inv, CountsInv, NEW p \in Peers,
           ConnectSucceeds(p) \/ ConnectFails(p) \/ SessionLost(p) \/ Dispose
    PROVE  CountsInv'
<1>1. \A r \in Requests : call[r] \in Calls
  BY CallFacts DEF Inv
<1>2. UNCHANGED active
  BY DEF ConnectSucceeds, ConnectFails, SessionLost, Lost, Dispose, Disposed, routingVars
<1>3. ASSUME NEW r \in Requests
      PROVE  /\ call'[r].counted = call[r].counted /\ call'[r].peer = call[r].peer
             /\ call'[r].phase \in Pending <=> call[r].phase \in Pending
  <2>1. CASE ConnectSucceeds(p)
    <3>1. CASE r \in CallsOf(p, "connecting")
      <4>1. call'[r] = [call[r] EXCEPT !.phase = "waiting", !.live = TRUE]
        BY <2>1, <3>1 DEF ConnectSucceeds
      <4> QED
        BY <1>1, <3>1, <4>1 DEF CallsOf, Calls, Pending
    <3>2. CASE r \notin CallsOf(p, "connecting")
      BY <2>1, <3>2 DEF ConnectSucceeds
    <3> QED
      BY <3>1, <3>2
  <2>2. CASE ConnectFails(p)
    <3>1. CASE r \in CallsOf(p, "connecting")
      <4>1. call'[r] = [call[r] EXCEPT !.phase = "unconnected"]
        BY <2>2, <3>1 DEF ConnectFails, Becomes
      <4> QED
        BY <1>1, <3>1, <4>1 DEF CallsOf, Calls, Pending
    <3>2. CASE r \notin CallsOf(p, "connecting")
      BY <2>2, <3>2 DEF ConnectFails, Becomes
    <3> QED
      BY <3>1, <3>2
  <2>3. CASE SessionLost(p)
    <3>1. call'[r] = call[r] \/ call'[r] = [call[r] EXCEPT !.live = FALSE]
      BY <2>3 DEF SessionLost
    <3> QED
      BY <1>1, <3>1 DEF Calls
  <2>4. CASE Dispose
    <3>1. CASE call[r].phase = "connecting"
      <4>1. call'[r] = [call[r] EXCEPT !.phase = "unconnected"]
        BY <2>4, <3>1 DEF Dispose
      <4> QED
        BY <1>1, <3>1, <4>1 DEF Calls, Pending
    <3>2. CASE call[r].phase # "connecting"
      <4>1. call'[r] = [call[r] EXCEPT !.live = FALSE]
        BY <2>4, <3>2 DEF Dispose
      <4> QED
        BY <1>1, <4>1 DEF Calls
    <3> QED
      BY <3>1, <3>2
  <2> QED
    BY <2>1, <2>2, <2>3, <2>4
<1> QED
  BY <1>2, <1>3, SameCount DEF Counts

LEMMA CountsAlways == Spec => []CountsInv
<1>1. Init => CountsInv
  <2> SUFFICES ASSUME Init PROVE CountsInv
    OBVIOUS
  <2>1. \A p \in Peers : Counted(p) = {}
    BY DEF Init, Counted, Counts, Uncalled
  <2> QED
    BY <2>1, FS_EmptySet DEF CountsInv, Init, RoutingInit
<1>2. Inv /\ CountsInv /\ [Next]_vars => CountsInv'
  <2> SUFFICES ASSUME Inv, CountsInv, [Next]_vars
               PROVE  CountsInv'
    OBVIOUS
  <2>1. ASSUME UNCHANGED <<active, call>>
        PROVE  CountsInv'
    BY <2>1, SameCount
  <2>2. ASSUME NEW p \in Peers, TopologyChanges(p) \/ Probe(p) \/ Wake(p) \/ Closed(p)
        PROVE  UNCHANGED <<active, call>>
    BY <2>2 DEF TopologyChanges, Announced, Removed, Probe, Probed, Route, Wake, LoopWakes,
                Closed, CloseEvent, routingVars
  <2>3. ASSUME NEW r \in Requests,
               \/ RequestArrives(r) \/ StreamCloses(r) \/ CancelArrives(r)
               \/ Replies(r, "item") \/ Replies(r, "final")
        PROVE  UNCHANGED <<active, call>>
    BY <2>3 DEF RequestArrives, StreamCloses, CancelArrives, Replies, routingVars
  <2>4. UNCHANGED vars => UNCHANGED <<active, call>>
    BY DEF vars, routingVars
  <2>5. ASSUME Dispose
        PROVE  CountsInv'
    <3>1. CASE Peers = {}
      BY <3>1 DEF CountsInv
    <3>2. CASE Peers # {}
      BY <2>5, <3>2, ConnectionCounts
    <3> QED
      BY <3>1, <3>2
  <2> QED
    BY <2>1, <2>2, <2>3, <2>4, <2>5, SendCounts, CallerCounts, ConnectionCounts DEF Next
<1> QED
  BY <1>1, <1>2, Safety, PTL DEF Spec

LEMMA CountedParts ==
    ASSUME NEW p
    PROVE  /\ Counted(p) = Unsettled(p) \cup Unreported(p)
           /\ Cardinality(Unsettled(p)) \in Nat
           /\ Cardinality(Unsettled(p)) <= Cardinality(Counted(p))
<1>1. Counted(p) = Unsettled(p) \cup Unreported(p)
  BY DEF Counted, Counts, Pending, Unsettled, Unreported, Counting
<1>2. Unsettled(p) \subseteq Counted(p)
  BY <1>1
<1>3. /\ IsFiniteSet(Unsettled(p))
      /\ Cardinality(Unsettled(p)) <= Cardinality(Counted(p))
  BY <1>2, CountedFinite, FS_Subset
<1> QED
  BY <1>1, <1>3, FS_CardinalityType

\* The counter of least-active is never below the requests that wait for their headers, and
\* exactly these at a node for which every send() that ended was reported
\* (Http2Rpc.ts:201-216).
THEOREM LeastActiveCounts == Spec => []ActiveIsExact
<1>1. CountsInv => ActiveIsExact
  <2> SUFFICES ASSUME CountsInv, NEW p \in Peers
               PROVE  /\ active[p] >= Cardinality(Unsettled(p))
                      /\ Unreported(p) = {} => active[p] = Cardinality(Unsettled(p))
    BY DEF ActiveIsExact
  <2>1. active[p] = Cardinality(Counted(p)) /\ Cardinality(Counted(p)) \in Nat
    BY CountedFinite DEF CountsInv
  <2>2. active[p] >= Cardinality(Unsettled(p))
    BY <2>1, CountedParts
  <2>3. Unreported(p) = {} => Counted(p) = Unsettled(p)
    BY CountedParts
  <2> QED
    BY <2>1, <2>2, <2>3
<1> QED
  BY <1>1, CountsAlways, PTL

=============================================================================
