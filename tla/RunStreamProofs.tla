-------------------------- MODULE RunStreamProofs --------------------------
(***************************************************************************)
(* What a page gets to see of a run, for any two limits and any number of  *)
(* events, restarts and lost connections.                                  *)
(***************************************************************************)
EXTENDS RunStream, FiniteSetTheorems, SequenceTheorems, TLAPS

Statuses == {"queued"} \union Under \union Terminal

\* A session that has not been replaced by CancelAgain and has this page's events.
Following == Original /\ heard = restarts

\* The identifiers end with the one before `next'.
Numbered(events, next) == \A i \in DOMAIN events : events[i].id = next - 1 - Len(events) + i

\* The identifier before the oldest event that is kept.
Oldest(s) == s.nextEventId - 1 - Len(s.events)

SnapshotFirst == channel # <<>> /\ channel[1].type = "session_snapshot"

Types ==
  /\ status \in Statuses
  /\ session \in Sessions \union {NoSession}
  /\ listening \in BOOLEAN
  /\ channel \in Seq(Messages)
  /\ stopping \in BOOLEAN
  /\ restarts \in Nat
  /\ source \in {None, "connecting", "open", "closed"}
  /\ lastEventId \in Nat
  /\ refresh \in {None, "asked", "notFound", "lost"} \union States
  /\ view \in [session : States \union {None}, events : SUBSET Messages,
              connection : {"connecting", "live", "reconnecting", "disconnected", "complete"}]
  /\ drops \in Nat
  /\ heard \in Nat /\ heard <= restarts
  /\ skipped \in Nat

\* The session of the Job.
JobInv ==
  /\ SessionEndsAsJob
  /\ session # NoSession /\ session.completedAt => session.state \in Terminal
  /\ session # NoSession /\ status \in Terminal /\ ~session.completedAt
       => session.nextEventId = 1

\* The events that a session keeps.
Kept(s) ==
  /\ Numbered(s.events, s.nextEventId)
  /\ Oldest(s) >= 0
  /\ Len(s.events) <= EventLimit
  /\ s.events = <<>> => s.nextEventId = 1
  /\ \A i \in DOMAIN s.events : s.events[i].type # "session_snapshot"
  /\ s.completedAt => s.events # <<>> /\ Last(s.events).type \in TerminalEvents

KeptInv == session # NoSession => Kept(session)

\* What has been written to a stream: the last events of the session, or a snapshot.
Streamed(messages, s) ==
  /\ Numbered(messages, s.nextEventId)
  /\ \A i \in DOMAIN messages :
       IF messages[i].type = "session_snapshot"
       THEN /\ i = 1
            /\ Len(messages) = 1 => messages[i].snapshot = s.state
       ELSE messages[i].id > Oldest(s) => messages[i] \in ToSet(s.events)

\* The stream, as the server sees it.
ChannelInv ==
  /\ source # "open" => channel = <<>> /\ ~listening
  /\ source = "open" /\ ~listening => ~Original
  /\ listening => session # NoSession /\ Streamed(channel, session)

\* How far the page has got.
PositionInv ==
  /\ source = None => lastEventId = 0
  /\ source \in {"connecting", "open"} => refresh = None
  /\ Following => lastEventId < session.nextEventId
  /\ Following /\ listening =>
       IF SnapshotFirst THEN lastEventId < channel[1].id
       ELSE lastEventId = session.nextEventId - 1 - Len(channel)
  /\ Following /\ source # "closed" /\ session.completedAt /\ lastEventId = session.nextEventId - 1
       => view.session = session.state

\* What it shows.
ShownInv ==
  Original /\ restarts = 0 =>
    /\ IsFiniteSet(view.events)
    /\ \A e \in view.events : e.id \in 1..lastEventId
    /\ \A d, e \in view.events : d.id = e.id => d = e
    /\ \A e \in ToSet(session.events) :
         skipped < e.id /\ e.id <= lastEventId /\ lastEventId - e.id < PageLimit => e \in view.events

StreamInv == Types /\ JobInv /\ KeptInv /\ ChannelInv /\ PositionInv /\ ShownInv
-----------------------------------------------------------------------------
(* What is appended *)

LEMMA EventTyped ==
  ASSUME NEW id \in Nat, NEW type \in EventTypes
  PROVE  /\ Event(id, type) \in Messages
         /\ Event(id, type).id = id /\ Event(id, type).type = type
  BY DEF Event, Messages

LEMMA Concatenated ==
  ASSUME NEW S, NEW p \in Seq(S), NEW q \in Seq(S)
  PROVE  /\ p \o q \in Seq(S)
         /\ Len(p \o q) = Len(p) + Len(q)
         /\ \A i \in 1..Len(p) : (p \o q)[i] = p[i]
         /\ \A i \in 1..Len(q) : (p \o q)[Len(p) + i] = q[i]
<1>1. Len(p) \in Nat /\ Len(q) \in Nat
  BY LenProperties
<1>2. \A i \in 1..Len(q) : Len(p) + i \in 1..(Len(p) + Len(q)) /\ ~(Len(p) + i <= Len(p)) /\ Len(p) + i - Len(p) = i
  BY <1>1
<1>3. \A i \in 1..Len(p) : i \in 1..(Len(p) + Len(q)) /\ i <= Len(p)
  BY <1>1
<1>4. \A i \in 1..(Len(p) + Len(q)) : (p \o q)[i] = IF i <= Len(p) THEN p[i] ELSE q[i - Len(p)]
  BY ConcatProperties
<1>5. p \o q \in Seq(S) /\ Len(p \o q) = Len(p) + Len(q)
  BY ConcatProperties
<1> QED
  BY <1>2, <1>3, <1>4, <1>5

\* The last n elements.
LEMMA EndOf ==
  ASSUME NEW S, NEW q \in Seq(S), NEW n \in 0..Len(q)
  PROVE  /\ SubSeq(q, Len(q) - n + 1, Len(q)) \in Seq(S)
         /\ Len(SubSeq(q, Len(q) - n + 1, Len(q))) = n
         /\ \A i \in 1..n : SubSeq(q, Len(q) - n + 1, Len(q))[i] = q[Len(q) - n + i]
<1> DEFINE m == Len(q) - n + 1
<1>1. Len(q) \in Nat /\ m \in Int
  OBVIOUS
<1>2. \A i \in m..Len(q) : q[i] \in S
  OBVIOUS
<1>3. /\ SubSeq(q, m, Len(q)) \in Seq(S)
      /\ Len(SubSeq(q, m, Len(q))) = IF m <= Len(q) THEN Len(q) - m + 1 ELSE 0
      /\ \A i \in 1..(Len(q) - m + 1) : SubSeq(q, m, Len(q))[i] = q[m + i - 1]
  BY <1>1, <1>2, SubSeqProperties
<1>4. Len(q) - m + 1 = n /\ \A i \in 1..n : m + i - 1 = Len(q) - n + i
  BY <1>1
<1> QED
  BY <1>1, <1>3, <1>4

LEMMA LastOfKeepsEnd ==
  ASSUME NEW q \in Seq(Messages)
  PROVE  \E n \in 0..Len(q) :
           /\ n = IF Len(q) > EventLimit THEN EventLimit ELSE Len(q)
           /\ LastOf(q) \in Seq(Messages)
           /\ Len(LastOf(q)) = n
           /\ \A i \in 1..n : LastOf(q)[i] = q[Len(q) - n + i]
<1>1. EventLimit \in Nat \ {0} /\ Len(q) \in Nat
  BY SessionAssumption
<1>2. CASE Len(q) > EventLimit
  <2>1. EventLimit \in 0..Len(q)
    BY <1>1, <1>2
  <2>2. LastOf(q) = SubSeq(q, Len(q) - EventLimit + 1, Len(q))
    BY <1>2 DEF LastOf
  <2> QED
    BY <1>2, <2>1, <2>2, EndOf
<1>3. CASE ~(Len(q) > EventLimit)
  <2>1. LastOf(q) = q
    BY <1>3 DEF LastOf
  <2>2. \A i \in 1..Len(q) : q[i] = q[Len(q) - Len(q) + i]
    BY <1>1
  <2>3. Len(q) \in 0..Len(q)
    BY <1>1
  <2> QED
    BY <1>3, <2>1, <2>2, <2>3
<1> QED
  BY <1>2, <1>3

LEMMA NumberedTogether ==
  ASSUME NEW old \in Seq(Messages), NEW new \in Seq(Messages), NEW next \in Nat \ {0},
         Numbered(old, next), Numbered(new, next + Len(new))
  PROVE  /\ Numbered(old \o new, next + Len(new))
         /\ \A k \in 1..Len(old \o new) : (old \o new)[k].id = next - 1 - Len(old) + k
<1>1. /\ Len(old) \in Nat /\ Len(new) \in Nat
      /\ DOMAIN old = 1..Len(old) /\ DOMAIN new = 1..Len(new)
  BY LenProperties
<1>2. PICK all : all = old \o new
  OBVIOUS
<1>3. /\ all \in Seq(Messages) /\ Len(all) = Len(old) + Len(new)
      /\ \A i \in 1..Len(old) : all[i] = old[i]
      /\ \A i \in 1..Len(new) : all[Len(old) + i] = new[i]
  BY <1>2, Concatenated
<1>6. \A i \in 1..Len(old) : old[i].id = next - 1 - Len(old) + i
  BY <1>1 DEF Numbered
<1>7. \A i \in 1..Len(new) : new[i].id = next - 1 + i
  <2>1. \A i \in 1..Len(new) : next + Len(new) - 1 - Len(new) + i = next - 1 + i
    BY <1>1
  <2> QED
    BY <1>1, <2>1 DEF Numbered
<1>8. \A k \in 1..Len(all) : all[k].id = next - 1 - Len(old) + k
  <2> SUFFICES ASSUME NEW k \in 1..Len(all) PROVE all[k].id = next - 1 - Len(old) + k
    OBVIOUS
  <2>1. CASE k <= Len(old)
    BY <1>1, <1>3, <1>6, <2>1
  <2>2. CASE k > Len(old)
    <3>1. PICK j \in 1..Len(new) : k = Len(old) + j
      <4>1. k - Len(old) \in 1..Len(new) /\ k = Len(old) + (k - Len(old))
        BY <1>1, <1>3, <2>2
      <4> QED
        BY <4>1
    <3>2. all[k].id = next - 1 + j
      BY <1>3, <1>7, <3>1
    <3> QED
      BY <1>1, <3>1, <3>2
  <2> QED
    BY <1>1, <1>3, <2>1, <2>2
<1>9. \A k \in 1..Len(all) : next + Len(new) - 1 - Len(all) + k = next - 1 - Len(old) + k
  BY <1>1, <1>3
<1>10. Numbered(all, next + Len(new))
  BY <1>3, <1>8, <1>9, LenProperties DEF Numbered
<1> QED
  BY <1>2, <1>8, <1>10

\* What append() keeps is the end of all there was, numbered as before.
IsWindow(kept, old, new, next) ==
  LET oldest == next - 1 + Len(new) - Len(kept)
  IN  /\ kept \in Seq(Messages) /\ Len(kept) \in 1..EventLimit
      /\ Numbered(kept, next + Len(new))
      /\ next - 1 - Len(old) <= oldest
      /\ kept[Len(kept)] = new[Len(new)]
      /\ \A i \in 1..Len(old) : old[i].id > oldest => old[i] \in ToSet(kept)
      /\ \A i \in 1..Len(new) : new[i].id > oldest => new[i] \in ToSet(kept)
      /\ \A i \in 1..Len(kept) :
           (\E j \in 1..Len(old) : kept[i] = old[j]) \/ (\E j \in 1..Len(new) : kept[i] = new[j])

LEMMA Window ==
  ASSUME NEW old \in Seq(Messages), NEW new \in Seq(Messages), NEW next \in Nat \ {0},
         Numbered(old, next), Numbered(new, next + Len(new)),
         new # <<>>, Len(old) < next
  PROVE  IsWindow(LastOf(old \o new), old, new, next)
<1> SUFFICES ASSUME NEW kept, kept = LastOf(old \o new),
                    NEW oldest, oldest = next - 1 + Len(new) - Len(kept)
             PROVE  IsWindow(kept, old, new, next)
  OBVIOUS
<1>1. /\ Len(old) \in Nat /\ Len(new) \in Nat \ {0} /\ EventLimit \in Nat \ {0}
      /\ DOMAIN old = 1..Len(old) /\ DOMAIN new = 1..Len(new)
  BY SessionAssumption, LenProperties, EmptySeq
<1>2. PICK all : all = old \o new
  OBVIOUS
<1>3. /\ all \in Seq(Messages) /\ Len(all) = Len(old) + Len(new)
      /\ \A i \in 1..Len(old) : all[i] = old[i]
      /\ \A i \in 1..Len(new) : all[Len(old) + i] = new[i]
  BY <1>2, Concatenated
<1>4. PICK n \in 0..Len(all) :
        /\ n = IF Len(all) > EventLimit THEN EventLimit ELSE Len(all)
        /\ kept \in Seq(Messages)
        /\ Len(kept) = n
        /\ \A i \in 1..n : kept[i] = all[Len(all) - n + i]
  BY <1>2, <1>3, LastOfKeepsEnd
<1>5. n \in 1..EventLimit /\ DOMAIN kept = 1..n
  BY <1>1, <1>3, <1>4
<1>8. \A k \in 1..Len(all) : all[k].id = next - 1 - Len(old) + k
  BY <1>2, NumberedTogether
<1>9. \A i \in 1..n : Len(all) - n + i \in 1..Len(all) /\ kept[i].id = next + Len(new) - 1 - n + i
  <2> SUFFICES ASSUME NEW i \in 1..n
               PROVE  Len(all) - n + i \in 1..Len(all) /\ kept[i].id = next + Len(new) - 1 - n + i
    OBVIOUS
  <2>1. Len(all) - n + i \in 1..Len(all)
    BY <1>1, <1>3, <1>4
  <2>2. kept[i].id = next - 1 - Len(old) + (Len(all) - n + i)
    BY <1>4, <1>8, <2>1
  <2> QED
    BY <1>1, <1>3, <1>4, <2>1, <2>2
<1>10. Numbered(kept, next + Len(new))
  <2>1. \A i \in DOMAIN kept : kept[i].id = next + Len(new) - 1 - Len(kept) + i
    BY <1>4, <1>5, <1>9
  <2> QED
    BY <2>1 DEF Numbered
<1>11. ASSUME NEW k \in 1..Len(all), all[k].id > oldest
       PROVE  all[k] \in ToSet(kept)
  <2>1. k - (Len(all) - n) \in 1..n /\ k = Len(all) - n + (k - (Len(all) - n))
    <3>1. next - 1 - Len(old) + k > next - 1 + Len(new) - n
      BY <1>4, <1>8, <1>11
    <3>2. k \in Int /\ n \in Int /\ k <= Len(all) /\ Len(all) = Len(old) + Len(new)
      BY <1>1, <1>3, <1>4
    <3>3. k > Len(all) - n
      BY <1>1, <3>1, <3>2
    <3> QED
      BY <1>1, <1>3, <3>2, <3>3
  <2>2. all[k] = kept[k - (Len(all) - n)]
    BY <1>4, <2>1
  <2> QED
    BY <1>5, <2>1, <2>2 DEF ToSet
<1>12. \A i \in 1..Len(old) : old[i].id > oldest => old[i] \in ToSet(kept)
  <2>1. \A i \in 1..Len(old) : i \in 1..Len(all)
    BY <1>1, <1>3
  <2> QED
    BY <1>3, <1>11, <2>1
<1>13. \A i \in 1..Len(new) : new[i].id > oldest => new[i] \in ToSet(kept)
  <2>1. \A i \in 1..Len(new) : Len(old) + i \in 1..Len(all)
    BY <1>1, <1>3
  <2> QED
    BY <1>3, <1>11, <2>1
<1>14. kept[n] = new[Len(new)]
  <2>1. Len(all) - n + n = Len(old) + Len(new)
    BY <1>1, <1>3, <1>4
  <2>2. n \in 1..n /\ Len(new) \in 1..Len(new)
    BY <1>1, <1>5
  <2> QED
    BY <1>3, <1>4, <2>1, <2>2
<1>15. ASSUME NEW i \in 1..n
       PROVE  (\E j \in 1..Len(old) : kept[i] = old[j]) \/ (\E j \in 1..Len(new) : kept[i] = new[j])
  <2> DEFINE k == Len(all) - n + i
  <2>1. kept[i] = all[k] /\ k \in 1..Len(all)
    BY <1>4, <1>9
  <2>2. CASE k <= Len(old)
    BY <1>1, <1>3, <2>1, <2>2
  <2>3. CASE k > Len(old)
    <3>1. k - Len(old) \in 1..Len(new) /\ k = Len(old) + (k - Len(old))
      BY <1>1, <1>3, <2>1, <2>3
    <3>2. all[k] = new[k - Len(old)]
      BY <1>3, <3>1
    <3> QED
      BY <2>1, <3>1, <3>2
  <2> QED
    BY <1>1, <1>3, <2>1, <2>2, <2>3
<1>16. next - 1 - Len(old) <= oldest
  BY <1>1, <1>3, <1>4
<1>17. kept \in Seq(Messages) /\ Len(kept) \in 1..EventLimit /\ kept[Len(kept)] = new[Len(new)]
  BY <1>4, <1>5, <1>14
<1>18. \A i \in 1..Len(kept) :
         (\E j \in 1..Len(old) : kept[i] = old[j]) \/ (\E j \in 1..Len(new) : kept[i] = new[j])
  BY <1>4, <1>15
<1> QED
  BY <1>10, <1>12, <1>13, <1>16, <1>17, <1>18 DEF IsWindow

LEMMA NewEvents ==
  ASSUME NEW s \in Sessions, NEW types \in Seq(EventTypes)
  PROVE  /\ Events(s, types) \in Seq(Messages)
         /\ Len(Events(s, types)) = Len(types)
         /\ Numbered(Events(s, types), s.nextEventId + Len(types))
         /\ \A i \in 1..Len(types) : Events(s, types)[i].type = types[i]
<1>1. s.nextEventId \in Nat \ {0}
  BY DEF Sessions
<1>2. Len(types) \in Nat /\ DOMAIN types = 1..Len(types)
  BY LenProperties
<1>3. ASSUME NEW i \in 1..Len(types)
      PROVE  /\ Event(s.nextEventId + i - 1, types[i]) \in Messages
             /\ Event(s.nextEventId + i - 1, types[i]).id = s.nextEventId + i - 1
             /\ Event(s.nextEventId + i - 1, types[i]).type = types[i]
  <2>1. s.nextEventId + i - 1 \in Nat
    BY <1>1, <1>2
  <2>2. types[i] \in EventTypes
    BY <1>2, ElementOfSeq
  <2> QED
    BY <2>1, <2>2, EventTyped
<1>4. Events(s, types) = [i \in 1..Len(types) |-> Event(s.nextEventId + i - 1, types[i])]
  BY <1>2 DEF Events
<1>5. Events(s, types) \in [1..Len(types) -> Messages]
  BY <1>3, <1>4
<1>6. Events(s, types) \in Seq(Messages) /\ Len(Events(s, types)) = Len(types)
  BY <1>2, <1>5
<1>7. \A i \in 1..Len(types) : /\ Events(s, types)[i].id = s.nextEventId + i - 1
                               /\ Events(s, types)[i].type = types[i]
  BY <1>3, <1>4
<1>8. \A i \in 1..Len(types) :
         s.nextEventId + Len(types) - 1 - Len(types) + i = s.nextEventId + i - 1
  BY <1>1, <1>2
<1>9. Numbered(Events(s, types), s.nextEventId + Len(types))
  <2>1. DOMAIN Events(s, types) = 1..Len(types)
    BY <1>5
  <2> QED
    BY <1>1, <1>2, <1>6, <1>7, <1>8, <2>1 DEF Numbered
<1> QED
  BY <1>6, <1>7, <1>9

LEMMA Appended ==
  ASSUME NEW s \in Sessions, NEW types \in Seq(EventTypes)
  PROVE  /\ AppendAll(s, types).nextEventId = s.nextEventId + Len(types)
         /\ AppendAll(s, types).events = LastOf(s.events \o Events(s, types))
         /\ AppendAll(s, types).completedAt = s.completedAt
         /\ AppendAll(s, types) \in Sessions
         /\ s.state \notin Terminal => AppendAll(s, types).state \notin Terminal
<1>1. /\ s.state \in States /\ s.completedAt \in BOOLEAN /\ s.nextEventId \in Nat \ {0}
      /\ s.events \in Seq(Messages)
  BY DEF Sessions
<1>2. /\ AppendAll(s, types).nextEventId = s.nextEventId + Len(types)
      /\ AppendAll(s, types).events = LastOf(s.events \o Events(s, types))
      /\ AppendAll(s, types).completedAt = s.completedAt
      /\ AppendAll(s, types).state = StateAfterAll(s.state, types)
  BY DEF AppendAll, Sessions
<1>3. \A type : StateAfter(s.state, type) \in States
  BY <1>1 DEF StateAfter, States, Under
<1>4. s.state \notin Terminal => \A type : StateAfter(s.state, type) \notin Terminal
  BY <1>1 DEF StateAfter, Terminal
<1>5. /\ StateAfterAll(s.state, types) \in States
      /\ s.state \notin Terminal => StateAfterAll(s.state, types) \notin Terminal
  BY <1>1, <1>3, <1>4 DEF StateAfterAll
<1>6. LastOf(s.events \o Events(s, types)) \in Seq(Messages)
  BY <1>1, NewEvents, Concatenated, LastOfKeepsEnd
<1>7. s.nextEventId + Len(types) \in Nat \ {0}
  BY <1>1, LenProperties
<1>8. AppendAll(s, types) \in Sessions
  BY <1>1, <1>5, <1>6, <1>7 DEF AppendAll, Sessions
<1> QED
  BY <1>2, <1>5, <1>8

\* The session t is what append() makes of s.
Extends(t, s, types) ==
  /\ t.nextEventId = s.nextEventId + Len(types)
  /\ t.events = LastOf(s.events \o Events(s, types))
  /\ t.completedAt => types[Len(types)] \in TerminalEvents

LEMMA AppendKeeps ==
  ASSUME NEW s \in Sessions, Kept(s), NEW types \in Seq(EventTypes), types # <<>>,
         NEW t \in Sessions, Extends(t, s, types)
  PROVE  /\ Kept(t)
         /\ Oldest(s) <= Oldest(t)
         /\ \A i \in 1..Len(s.events) : s.events[i].id > Oldest(t) => s.events[i] \in ToSet(t.events)
         /\ \A i \in 1..Len(types) :
              Events(s, types)[i].id > Oldest(t) => Events(s, types)[i] \in ToSet(t.events)
         /\ \A e \in ToSet(t.events) : e.id < s.nextEventId => e \in ToSet(s.events)
<1>1. PICK old, new, next, kept, oldest :
        /\ old = s.events /\ new = Events(s, types) /\ next = s.nextEventId
        /\ kept = t.events /\ oldest = Oldest(t)
  OBVIOUS
<1>2. old \in Seq(Messages) /\ next \in Nat \ {0} /\ kept \in Seq(Messages)
  BY <1>1 DEF Sessions
<1>3. /\ new \in Seq(Messages) /\ Len(new) = Len(types) /\ Numbered(new, next + Len(new))
      /\ \A i \in 1..Len(new) : new[i].type = types[i]
  BY <1>1, NewEvents
<1>4. Len(types) \in Nat \ {0} /\ Len(old) \in Nat /\ Len(kept) \in Nat /\ new # <<>>
  BY <1>2, <1>3, LenProperties, EmptySeq
<1>5. Numbered(old, next) /\ next - 1 - Len(old) >= 0
  BY <1>1 DEF Kept, Oldest
<1>6. kept = LastOf(old \o new) /\ t.nextEventId = next + Len(new)
  BY <1>1, <1>3 DEF Extends
<1>7. oldest = next - 1 + Len(new) - Len(kept) /\ Len(old) < next
  <2>1. oldest = next + Len(new) - 1 - Len(kept)
    BY <1>1, <1>2, <1>4, <1>6 DEF Oldest
  <2> QED
    BY <1>2, <1>3, <1>4, <1>5, <2>1
<1>8. /\ kept \in Seq(Messages) /\ Len(kept) \in 1..EventLimit
      /\ Numbered(kept, next + Len(new))
      /\ next - 1 - Len(old) <= oldest
      /\ kept[Len(kept)] = new[Len(new)]
      /\ \A i \in 1..Len(old) : old[i].id > oldest => old[i] \in ToSet(kept)
      /\ \A i \in 1..Len(new) : new[i].id > oldest => new[i] \in ToSet(kept)
      /\ \A i \in 1..Len(kept) :
           (\E j \in 1..Len(old) : kept[i] = old[j]) \/ (\E j \in 1..Len(new) : kept[i] = new[j])
  <2>1. IsWindow(LastOf(old \o new), old, new, next)
    BY <1>2, <1>3, <1>4, <1>5, <1>7, Window
  <2> QED
    BY <1>6, <1>7, <2>1 DEF IsWindow
<1>9. /\ DOMAIN kept = 1..Len(kept) /\ DOMAIN old = 1..Len(old)
      /\ Len(kept) \in 1..Len(kept) /\ kept # <<>>
  BY <1>2, <1>4, <1>8, LenProperties
<1>10. \A i \in 1..Len(new) : new[i].type # "session_snapshot"
  <2>1. \A i \in 1..Len(new) : types[i] \in EventTypes
    BY <1>3, ElementOfSeq
  <2> QED
    BY <1>3, <2>1 DEF EventTypes, TerminalEvents
<1>11. \A i \in 1..Len(old) : old[i].type # "session_snapshot"
  BY <1>1, <1>9 DEF Kept
<1>12. \A i \in 1..Len(kept) : kept[i].type # "session_snapshot"
  BY <1>8, <1>10, <1>11
<1>13. t.completedAt => Last(kept).type \in TerminalEvents
  <2>1. Last(kept) = new[Len(new)] /\ Len(new) \in 1..Len(new)
    BY <1>3, <1>4, <1>8 DEF Last
  <2> QED
    BY <1>3, <2>1 DEF Extends
<1>14. oldest >= 0 /\ Len(kept) <= EventLimit
  BY <1>2, <1>4, <1>5, <1>7, <1>8, SessionAssumption
<1>15. Kept(t)
  BY <1>1, <1>6, <1>8, <1>9, <1>12, <1>13, <1>14 DEF Kept
<1>16. ASSUME NEW e \in ToSet(kept), e.id < next PROVE e \in ToSet(old)
  <2>1. PICK i \in 1..Len(kept) : e = kept[i]
    BY <1>9 DEF ToSet
  <2>2. ~ \E j \in 1..Len(new) : e = new[j]
    <3>1. \A j \in 1..Len(new) : new[j].id = next + Len(new) - 1 - Len(new) + j
      <4>1. DOMAIN new = 1..Len(new)
        BY <1>3, LenProperties
      <4> QED
        BY <1>2, <1>3, <1>4, <4>1 DEF Numbered
    <3>2. \A j \in 1..Len(new) : ~(next + Len(new) - 1 - Len(new) + j < next)
      BY <1>2, <1>3, <1>4
    <3> QED
      BY <1>16, <3>1, <3>2
  <2> QED
    BY <1>8, <1>9, <2>1, <2>2 DEF ToSet
<1>17. Oldest(s) <= oldest
  BY <1>1, <1>8 DEF Oldest
<1> QED
  BY <1>1, <1>3, <1>8, <1>15, <1>16, <1>17

LEMMA FreshKept ==
  ASSUME NEW state \in States
  PROVE  /\ Fresh(state) \in Sessions /\ Fresh(state).state = state
         /\ ~Fresh(state).completedAt /\ Fresh(state).nextEventId = 1 /\ Fresh(state).events = <<>>
         /\ Kept(Fresh(state))
<1>1. /\ Fresh(state) \in Sessions /\ Fresh(state).state = state
      /\ ~Fresh(state).completedAt /\ Fresh(state).nextEventId = 1 /\ Fresh(state).events = <<>>
  BY DEF Fresh, Sessions
<1>2. Oldest(Fresh(state)) = 0
  <2>1. Len(<<>>) = 0
    OBVIOUS
  <2> QED
    <3>1. Len(Fresh(state).events) = 0 /\ Fresh(state).nextEventId = 1
      BY <1>1, <2>1
    <3>2. Oldest(Fresh(state)) = 1 - 1 - 0
      BY <3>1 DEF Oldest
    <3> QED
      BY <3>2
<1>3. Numbered(Fresh(state).events, Fresh(state).nextEventId)
  BY <1>1, EmptySeq DEF Numbered
<1>4. DOMAIN Fresh(state).events = {} /\ Len(Fresh(state).events) <= EventLimit
  BY <1>1, EmptySeq, SessionAssumption
<1>5. Oldest(Fresh(state)) >= 0
  BY <1>2
<1> QED
  BY <1>1, <1>3, <1>4, <1>5 DEF Kept

\* A listener gets what is appended, and a browser can tell it from what it lacks.
LEMMA StreamAppended ==
  ASSUME NEW s \in Sessions, Kept(s), NEW types \in Seq(EventTypes), types # <<>>,
         NEW t \in Sessions, Extends(t, s, types),
         NEW messages \in Seq(Messages), Streamed(messages, s)
  PROVE  /\ messages \o Events(s, types) \in Seq(Messages)
         /\ Len(messages \o Events(s, types)) = Len(messages) + Len(types)
         /\ Streamed(messages \o Events(s, types), t)
         /\ messages # <<>> => (messages \o Events(s, types))[1] = messages[1]
         /\ messages = <<>> => (messages \o Events(s, types))[1].type # "session_snapshot"
<1>1. PICK new, all : new = Events(s, types) /\ all = messages \o new
  OBVIOUS
<1>2. /\ new \in Seq(Messages) /\ Len(new) = Len(types) /\ Numbered(new, s.nextEventId + Len(types))
      /\ \A i \in 1..Len(types) : new[i].type = types[i]
  BY <1>1, NewEvents
<1>3. /\ all \in Seq(Messages) /\ Len(all) = Len(messages) + Len(new)
      /\ \A i \in 1..Len(messages) : all[i] = messages[i]
      /\ \A i \in 1..Len(new) : all[Len(messages) + i] = new[i]
  <2>1. new \in Seq(Messages)
    BY <1>2
  <2>2. /\ messages \o new \in Seq(Messages) /\ Len(messages \o new) = Len(messages) + Len(new)
        /\ \A i \in 1..Len(messages) : (messages \o new)[i] = messages[i]
        /\ \A i \in 1..Len(new) : (messages \o new)[Len(messages) + i] = new[i]
    BY <2>1, Concatenated
  <2> QED
    BY <1>1, <2>2
<1>4. /\ Len(messages) \in Nat /\ Len(types) \in Nat \ {0} /\ s.nextEventId \in Nat \ {0}
      /\ DOMAIN messages = 1..Len(messages) /\ DOMAIN all = 1..Len(all)
  BY <1>3, LenProperties, EmptySeq DEF Sessions
<1>5. \A i \in 1..Len(new) : new[i].type # "session_snapshot"
  <2>1. \A i \in 1..Len(types) : types[i] \in EventTypes
    BY ElementOfSeq
  <2> QED
    BY <1>2, <2>1 DEF EventTypes, TerminalEvents
<1>6. Numbered(all, t.nextEventId)
  <2>1. t.nextEventId = s.nextEventId + Len(new) /\ Numbered(messages, s.nextEventId)
    BY <1>2 DEF Extends, Streamed
  <2> QED
    BY <1>1, <1>2, <1>4, <2>1, NumberedTogether
<1>7. /\ Oldest(s) <= Oldest(t)
      /\ \A i \in 1..Len(s.events) : s.events[i].id > Oldest(t) => s.events[i] \in ToSet(t.events)
      /\ \A i \in 1..Len(new) : new[i].id > Oldest(t) => new[i] \in ToSet(t.events)
  BY <1>1, <1>2, AppendKeeps
<1>8. Oldest(s) \in Int /\ Oldest(t) \in Int
  BY LenProperties DEF Sessions, Oldest
<1>9. ASSUME NEW i \in 1..Len(messages), messages[i].type # "session_snapshot", messages[i].id > Oldest(t)
      PROVE  messages[i] \in ToSet(t.events)
  <2>1. messages[i].id \in Nat
    <3>1. messages[i] \in Messages
      BY <1>4, ElementOfSeq
    <3> QED
      BY <3>1 DEF Messages
  <2>2. messages[i].id > Oldest(s)
    BY <1>7, <1>8, <1>9, <2>1
  <2>3. messages[i] \in ToSet(s.events)
    BY <1>4, <1>9, <2>2 DEF Streamed
  <2>4. s.events \in Seq(Messages)
    BY DEF Sessions
  <2>5. PICK j \in 1..Len(s.events) : messages[i] = s.events[j]
    BY <2>3, <2>4, LenProperties DEF ToSet
  <2> QED
    BY <1>7, <1>9, <2>5
<1>10. ASSUME NEW i \in 1..Len(all)
       PROVE  IF all[i].type = "session_snapshot"
              THEN i = 1 /\ (Len(all) = 1 => all[i].snapshot = t.state)
              ELSE all[i].id > Oldest(t) => all[i] \in ToSet(t.events)
  <2>1. CASE i <= Len(messages)
    <3>1. i \in 1..Len(messages) /\ all[i] = messages[i]
      BY <1>3, <1>4, <2>1
    <3>2. Len(all) # 1
      BY <1>2, <1>3, <1>4, <3>1
    <3>3. messages[i].type = "session_snapshot" => i = 1
      BY <1>4, <3>1 DEF Streamed
    <3> QED
      BY <1>9, <3>1, <3>2, <3>3
  <2>2. CASE i > Len(messages)
    <3>1. PICK j \in 1..Len(new) : i = Len(messages) + j
      <4>1. i - Len(messages) \in 1..Len(new) /\ i = Len(messages) + (i - Len(messages))
        BY <1>2, <1>3, <1>4, <2>2
      <4> QED
        BY <4>1
    <3>2. all[i] = new[j]
      BY <1>3, <3>1
    <3> QED
      BY <1>5, <1>7, <3>1, <3>2
  <2> QED
    BY <1>2, <1>3, <1>4, <2>1, <2>2
<1>11. Streamed(all, t)
  BY <1>4, <1>6, <1>10 DEF Streamed
<1>12. messages # <<>> => all[1] = messages[1]
  <2>1. messages # <<>> => 1 \in 1..Len(messages)
    BY <1>4, EmptySeq
  <2> QED
    BY <1>3, <2>1
<1>13. messages = <<>> => all[1].type # "session_snapshot"
  <2>1. messages = <<>> => Len(messages) = 0 /\ Len(messages) + 1 = 1
    BY <1>4, EmptySeq
  <2>2. 1 \in 1..Len(new)
    BY <1>2, <1>4
  <2> QED
    BY <1>3, <1>5, <2>1, <2>2
<1> QED
  BY <1>1, <1>2, <1>3, <1>11, <1>12, <1>13

-----------------------------------------------------------------------------
(* The steps of the server *)

\* Events reported of a Job that has not ended, the last of which may end it.
LEMMA ServerAppends ==
  ASSUME StreamInv, status \notin Terminal,
         NEW types \in Seq(EventTypes), types # <<>>,
         session' \in Sessions, Extends(session', session, types),
         channel' = Written(session, types),
         status' \in Statuses,
         \/ status' \notin Terminal /\ session'.state \notin Terminal /\ ~session'.completedAt
         \/ status' \in Terminal /\ session'.state = status' /\ session'.completedAt,
         UNCHANGED <<listening, stopping, restarts>>, UNCHANGED client
  PROVE  StreamInv'
<1> USE DEF StreamInv
<1>1. /\ session # NoSession /\ session \in Sessions /\ session' # NoSession
      /\ Kept(session) /\ Original
  BY SessionAssumption DEF Types, JobInv, SessionEndsAsJob, KeptInv, Original
<1>2. /\ Kept(session')
      /\ \A e \in ToSet(session'.events) : e.id < session.nextEventId => e \in ToSet(session.events)
  BY <1>1, AppendKeeps
<1>3. /\ session.nextEventId \in Nat /\ Len(types) \in Nat \ {0}
      /\ session'.nextEventId = session.nextEventId + Len(types)
  BY <1>1, LenProperties, EmptySeq DEF Sessions, Extends
<1>4. ASSUME listening
      PROVE  /\ channel' = channel \o Events(session, types)
             /\ channel' \in Seq(Messages) /\ Len(channel') = Len(channel) + Len(types)
             /\ Streamed(channel', session')
             /\ channel # <<>> => channel'[1] = channel[1]
             /\ channel = <<>> => channel'[1].type # "session_snapshot"
  <2>1. Streamed(channel, session) /\ channel \in Seq(Messages)
    BY <1>4 DEF ChannelInv, Types
  <2>2. channel' = channel \o Events(session, types)
    BY <1>4 DEF Written
  <2>3. /\ channel \o Events(session, types) \in Seq(Messages)
        /\ Len(channel \o Events(session, types)) = Len(channel) + Len(types)
        /\ Streamed(channel \o Events(session, types), session')
        /\ channel # <<>> => (channel \o Events(session, types))[1] = channel[1]
        /\ channel = <<>> => (channel \o Events(session, types))[1].type # "session_snapshot"
    BY <1>1, <2>1, StreamAppended
  <2> QED
    BY <2>2, <2>3
<1>5. ~listening => channel' = channel
  BY DEF Written
<1>6. Types'
  BY <1>4, <1>5 DEF Types, client
<1>7. JobInv'
  BY <1>1 DEF JobInv, SessionEndsAsJob
<1>8. KeptInv'
  BY <1>2 DEF KeptInv
<1>9. ChannelInv'
  BY <1>1, <1>4, <1>5 DEF ChannelInv, client
<1>10. PositionInv'
  <2>1. UNCHANGED <<source, lastEventId, refresh, view, heard, restarts, listening>>
    BY DEF client
  <2>2. Following' => Following /\ lastEventId < session.nextEventId
    BY <1>1, <2>1 DEF Following, PositionInv
  <2>3. lastEventId \in Nat
    BY DEF Types
  <2>4. Following' => lastEventId < session'.nextEventId /\ lastEventId # session'.nextEventId - 1
    BY <1>3, <2>2, <2>3
  <2>5. ASSUME Following', listening'
        PROVE  IF SnapshotFirst' THEN lastEventId < channel'[1].id
               ELSE lastEventId = session'.nextEventId - 1 - Len(channel')
    <3>1. listening /\ Following
      BY <2>1, <2>2, <2>5
    <3>2. CASE SnapshotFirst
      <4>1. channel' # <<>> /\ channel'[1] = channel[1]
        BY <1>3, <1>4, <3>1, <3>2, EmptySeq DEF SnapshotFirst
      <4> QED
        BY <3>1, <3>2, <4>1 DEF SnapshotFirst, PositionInv
    <3>3. CASE ~SnapshotFirst
      <4>1. ~SnapshotFirst'
        BY <1>4, <3>1, <3>3 DEF SnapshotFirst
      <4>2. lastEventId = session.nextEventId - 1 - Len(channel)
        BY <3>1, <3>3 DEF PositionInv
      <4>3. Len(channel) \in Nat /\ Len(channel') = Len(channel) + Len(types)
        BY <1>4, <3>1, LenProperties DEF Types
      <4>4. session.nextEventId - 1 - Len(channel) = session'.nextEventId - 1 - Len(channel')
        BY <1>3, <4>3
      <4> QED
        BY <4>1, <4>2, <4>4
    <3> QED
      BY <3>2, <3>3
  <2>6. /\ source' = None => lastEventId' = 0
        /\ source' \in {"connecting", "open"} => refresh' = None
    BY <2>1 DEF PositionInv
  <2> QED
    BY <2>1, <2>4, <2>5, <2>6 DEF PositionInv
<1>11. ShownInv'
  <2> SUFFICES ASSUME Original', restarts = 0
               PROVE  /\ IsFiniteSet(view.events)
                      /\ \A e \in view.events : e.id \in 1..lastEventId
                      /\ \A d, e \in view.events : d.id = e.id => d = e
                      /\ \A e \in ToSet(session'.events) :
                            skipped < e.id /\ e.id <= lastEventId /\ lastEventId - e.id < PageLimit
                              => e \in view.events
    BY DEF ShownInv, client
  <2>1. /\ IsFiniteSet(view.events)
        /\ \A e \in view.events : e.id \in 1..lastEventId
        /\ \A d, e \in view.events : d.id = e.id => d = e
        /\ \A e \in ToSet(session.events) :
              skipped < e.id /\ e.id <= lastEventId /\ lastEventId - e.id < PageLimit => e \in view.events
    BY <1>1 DEF ShownInv
  <2>2. lastEventId \in Nat /\ lastEventId < session.nextEventId
    BY <1>1 DEF Types, Following, PositionInv
  <2>3. session'.events \in Seq(Messages)
    BY DEF Sessions
  <2>4. \A e \in ToSet(session'.events) : e.id \in Nat
    <3>1. \A e \in ToSet(session'.events) : e \in Messages
      BY <2>3, ElementOfSeq, LenProperties DEF ToSet
    <3> QED
      BY <3>1 DEF Messages
  <2>5. \A e \in ToSet(session'.events) : e.id <= lastEventId => e \in ToSet(session.events)
    BY <1>2, <1>3, <2>2, <2>4
  <2> QED
    BY <2>1, <2>5
<1> QED
  BY <1>6, <1>7, <1>8, <1>9, <1>10, <1>11

LEMMA SeqOfTypes ==
  /\ \A a \in EventTypes : <<a>> \in Seq(EventTypes) /\ <<a>> # <<>>
  /\ \A a, b \in EventTypes :
        <<a, b>> \in Seq(EventTypes) /\ <<a, b>> # <<>> /\ <<a, b>>[Len(<<a, b>>)] = b
  /\ \A a \in EventTypes : <<a>>[Len(<<a>>)] = a
  /\ \A a, b, c \in EventTypes :
        <<a, b, c>> \in Seq(EventTypes) /\ <<a, b, c>> # <<>> /\ <<a, b, c>>[Len(<<a, b, c>>)] = c
  OBVIOUS

\* report() of a Job that has not ended.
LEMMA ReportKeeps ==
  ASSUME StreamInv, status \notin Terminal,
         NEW state, NEW types \in Seq(EventTypes), types # <<>>,
         Report(state, types), status' \in Statuses \ Terminal,
         UNCHANGED <<listening, stopping, restarts>>, UNCHANGED client
  PROVE  StreamInv'
<1>1. /\ session # NoSession /\ session \in Sessions
      /\ session.state \notin Terminal /\ ~session.completedAt
  BY DEF StreamInv, Types, JobInv, SessionEndsAsJob
<1>2. session' = AppendAll(session, types) /\ channel' = Written(session, types)
  BY <1>1 DEF Report, EnsureSession
<1>3. /\ session' \in Sessions /\ session'.state \notin Terminal /\ ~session'.completedAt
      /\ Extends(session', session, types)
  BY <1>1, <1>2, Appended DEF Extends
<1> QED
  BY <1>2, <1>3, ServerAppends

\* complete(), fail(), cancel() and interrupt() of a Job that has not ended.
LEMMA EndSessionKeeps ==
  ASSUME StreamInv, status \notin Terminal,
         NEW types \in Seq(EventTypes), types # <<>>, types[Len(types)] \in TerminalEvents,
         status' \in Terminal, EndSession(types, status'),
         UNCHANGED <<listening, stopping, restarts>>, UNCHANGED client
  PROVE  StreamInv'
<1>1. /\ session # NoSession /\ session \in Sessions
      /\ session.state \notin Terminal /\ ~session.completedAt
  BY DEF StreamInv, Types, JobInv, SessionEndsAsJob
<1>2. PICK appended : appended = AppendAll(session, types)
  OBVIOUS
<1>3. /\ session' = [appended EXCEPT !.state = status', !.completedAt = TRUE]
      /\ channel' = Written(session, types)
  BY <1>1, <1>2 DEF EndSession
<1>4. /\ appended \in Sessions
      /\ appended.nextEventId = session.nextEventId + Len(types)
      /\ appended.events = LastOf(session.events \o Events(session, types))
  BY <1>1, <1>2, Appended
<1>5. status' \in States /\ status' \in Statuses
  BY DEF States, Statuses
<1>6. /\ session' \in Sessions /\ session'.state = status' /\ session'.completedAt
      /\ session'.nextEventId = appended.nextEventId /\ session'.events = appended.events
  BY <1>3, <1>4, <1>5 DEF Sessions
<1>7. Extends(session', session, types)
  BY <1>4, <1>6 DEF Extends
<1> QED
  BY <1>3, <1>5, <1>6, <1>7, ServerAppends

LEMMA ReportingSteps ==
  ASSUME StreamInv, UNCHANGED client,
         \/ EmitQueuePosition \/ Launch \/ ExecutionEvent \/ RequestCancellation
  PROVE  StreamInv'
<1>1. CASE EmitQueuePosition
  <2>1. <<"queue_position">> \in Seq(EventTypes) /\ <<"queue_position">> # <<>>
    BY SeqOfTypes DEF EventTypes
  <2>2. status \notin Terminal /\ status' \in Statuses \ Terminal
    BY <1>1 DEF EmitQueuePosition, Statuses, Terminal
  <2> QED
    BY <1>1, <2>1, <2>2, ReportKeeps DEF EmitQueuePosition
<1>2. CASE Launch
  <2>1. <<"job_starting", "job_running">> \in Seq(EventTypes) /\ <<"job_starting", "job_running">> # <<>>
    BY SeqOfTypes DEF EventTypes
  <2>2. status \notin Terminal /\ status' \in Statuses \ Terminal
    BY <1>2 DEF Launch, Statuses, Under, Terminal
  <2> QED
    BY <1>2, <2>1, <2>2, ReportKeeps DEF Launch
<1>3. CASE ExecutionEvent
  <2>1. PICK type \in {"agent_running", "evaluation_starting", "evaluation_completed"} :
          /\ status' = IF type = "evaluation_starting" /\ status = "running" THEN "evaluating" ELSE status
          /\ Report(status, <<type>>)
    BY <1>3 DEF ExecutionEvent
  <2>2. <<type>> \in Seq(EventTypes) /\ <<type>> # <<>>
    BY SeqOfTypes DEF EventTypes
  <2>3. status \notin Terminal /\ status' \in Statuses \ Terminal
    BY <1>3, <2>1 DEF ExecutionEvent, Statuses, Under, Terminal
  <2> QED
    BY <1>3, <2>1, <2>2, <2>3, ReportKeeps DEF ExecutionEvent
<1>4. CASE RequestCancellation
  <2>1. /\ <<"job_cancel_requested">> \in Seq(EventTypes)
        /\ <<"job_cancel_requested">> # <<>>
    BY SeqOfTypes DEF EventTypes
  <2>2. status \notin Terminal /\ status' \in Statuses \ Terminal
    BY <1>4 DEF RequestCancellation, Statuses, Under, Terminal
  <2>3. Report(status', <<"job_cancel_requested">>)
    BY <1>4 DEF RequestCancellation
  <2> QED
    BY <1>4, <2>1, <2>2, <2>3, ReportKeeps DEF RequestCancellation
<1> QED
  BY <1>1, <1>2, <1>3, <1>4

LEMMA EndingSteps ==
  ASSUME StreamInv, UNCHANGED client, Complete \/ Fail \/ BeCancelled \/ Interrupt
  PROVE  StreamInv'
<1>1. CASE Complete
  <2> DEFINE types == <<"agent_running", "queue_position", "run_completed">>
  <2>1. types \in Seq(EventTypes) /\ types # <<>> /\ types[Len(types)] \in TerminalEvents
    BY SeqOfTypes DEF EventTypes, TerminalEvents
  <2>2. status \notin Terminal /\ status' \in Terminal /\ EndSession(types, status')
    BY <1>1 DEF Complete, Terminal
  <2> HIDE DEF types
  <2> QED
    BY <1>1, <2>1, <2>2, EndSessionKeeps DEF Complete
<1>2. CASE Fail
  <2> DEFINE types == <<"queue_position", "run_failed">>
  <2>1. types \in Seq(EventTypes) /\ types # <<>> /\ types[Len(types)] \in TerminalEvents
    BY SeqOfTypes DEF EventTypes, TerminalEvents
  <2>2. status \notin Terminal /\ status' \in Terminal /\ EndSession(types, status')
    BY <1>2 DEF Fail, Terminal
  <2> HIDE DEF types
  <2> QED
    BY <1>2, <2>1, <2>2, EndSessionKeeps DEF Fail
<1>3. CASE BeCancelled
  <2> DEFINE types == <<"job_cancelled">>
  <2>1. types \in Seq(EventTypes) /\ types # <<>> /\ types[Len(types)] \in TerminalEvents
    BY SeqOfTypes DEF EventTypes, TerminalEvents
  <2>2. status \notin Terminal /\ status' \in Terminal /\ EndSession(types, status')
    BY <1>3 DEF BeCancelled, Terminal
  <2> HIDE DEF types
  <2> QED
    BY <1>3, <2>1, <2>2, EndSessionKeeps DEF BeCancelled
<1>4. CASE Interrupt
  <2> DEFINE types == <<"job_interrupted">>
  <2>1. types \in Seq(EventTypes) /\ types # <<>> /\ types[Len(types)] \in TerminalEvents
    BY SeqOfTypes DEF EventTypes, TerminalEvents
  <2>2. status \notin Terminal /\ status' \in Terminal /\ EndSession(types, status')
    BY <1>4 DEF Interrupt, Under, Terminal
  <2> HIDE DEF types
  <2> QED
    BY <1>4, <2>1, <2>2, EndSessionKeeps DEF Interrupt
<1> QED
  BY <1>1, <1>2, <1>3, <1>4

\* The steps that append nothing.
LEMMA QuietServerSteps ==
  ASSUME StreamInv, UNCHANGED client, CancelAgain \/ CleanupExpired \/ Shutdown
  PROVE  StreamInv'
<1> USE DEF StreamInv
<1>1. CASE CancelAgain
  <2>1. status = "cancelled" /\ status \in Terminal /\ "cancelled" \in States
    BY <1>1 DEF CancelAgain, Terminal, States
  <2>2. UNCHANGED <<status, listening, channel, stopping, restarts, source, lastEventId, refresh,
                    view, drops, heard, skipped>>
    BY <1>1 DEF CancelAgain, client
  <2>3. CASE session # NoSession
    <3>1. UNCHANGED session
      BY <1>1, <2>3 DEF CancelAgain, EnsureSession
    <3> QED
      BY <2>2, <3>1 DEF Types, JobInv, SessionEndsAsJob, KeptInv, ChannelInv, PositionInv, ShownInv,
                        Original, Following, SnapshotFirst
  <2>4. CASE session = NoSession
    <3>1. session' = Fresh("cancelled")
      BY <1>1, <2>4 DEF CancelAgain, EnsureSession
    <3>2. /\ session' \in Sessions /\ session'.state = "cancelled" /\ ~session'.completedAt
          /\ session'.nextEventId = 1 /\ Kept(session')
      BY <2>1, <3>1, FreshKept
    <3>3. ~Original' /\ ~listening
      BY <2>1, <2>2, <2>4, <3>2 DEF Original, ChannelInv
    <3>4. Types'
      BY <2>2, <3>2 DEF Types
    <3>5. JobInv' /\ KeptInv'
      BY <2>1, <2>2, <3>2 DEF JobInv, SessionEndsAsJob, KeptInv
    <3>6. ChannelInv'
      BY <2>2, <3>3 DEF ChannelInv
    <3>7. PositionInv' /\ ShownInv'
      BY <2>2, <3>3 DEF PositionInv, ShownInv, Following
    <3> QED
      BY <3>4, <3>5, <3>6, <3>7
  <2> QED
    BY <2>3, <2>4
<1>2. CASE CleanupExpired
  <2>1. /\ session # NoSession /\ session.completedAt /\ session' = NoSession /\ listening' = FALSE
        /\ UNCHANGED <<status, channel, stopping, restarts, source, lastEventId, refresh,
                       view, drops, heard, skipped>>
    BY <1>2 DEF CleanupExpired, Expired, client
  <2>2. status \in Terminal
    BY <2>1 DEF JobInv, SessionEndsAsJob
  <2>3. Types' /\ JobInv' /\ KeptInv' /\ ChannelInv'
    BY <2>1, <2>2 DEF Types, JobInv, SessionEndsAsJob, KeptInv, ChannelInv, Original
  <2>4. PositionInv' /\ ShownInv'
    BY <2>1 DEF PositionInv, ShownInv, Following, Original
  <2> QED
    BY <2>3, <2>4
<1>3. CASE Shutdown
  <2>1. /\ stopping' = TRUE
        /\ UNCHANGED <<session, listening, channel, restarts, source, lastEventId, refresh,
                       view, drops, heard, skipped>>
        /\ status' = IF status \in Under THEN "cancel_requested" ELSE status
    BY <1>3 DEF Shutdown, client
  <2>2. status' \in Statuses /\ (status' \in Terminal <=> status \in Terminal)
        /\ (status \in Terminal => status' = status)
    BY <2>1 DEF Types, Statuses, Under, Terminal
  <2>3. Types' /\ JobInv' /\ KeptInv'
    BY <2>1, <2>2 DEF Types, JobInv, SessionEndsAsJob, KeptInv
  <2>4. Original' <=> Original
    BY <2>1, <2>2 DEF Original
  <2>5. ChannelInv' /\ PositionInv' /\ ShownInv'
    BY <2>1, <2>4 DEF ChannelInv, PositionInv, ShownInv, Following, SnapshotFirst
  <2> QED
    BY <2>3, <2>5
<1> QED
  BY <1>1, <1>2, <1>3

-----------------------------------------------------------------------------
(* The steps of the browser, and the Router's restart *)

LEMMA RestartKeeps ==
  ASSUME StreamInv, Restart
  PROVE  StreamInv'
<1> USE DEF StreamInv
<1>1. /\ restarts' = restarts + 1 /\ stopping' = FALSE /\ listening' = FALSE /\ channel' = <<>>
      /\ status' = IF status \in Under THEN "interrupted" ELSE status
      /\ session' = IF status = "queued"
                    THEN AppendAll(Fresh("queued"), <<"job_queued", "queue_position">>)
                    ELSE NoSession
      /\ UNCHANGED <<lastEventId, refresh, drops, heard, skipped>>
      /\ source' = IF source = "open" THEN "connecting" ELSE source
      /\ view' = IF source = "open" THEN [view EXCEPT !.connection = Broken] ELSE view
  BY DEF Restart, RestartServer
<1>2. restarts \in Nat /\ heard \in Nat /\ heard <= restarts
  BY DEF Types
<1>3. restarts' \in Nat /\ heard' \in Nat /\ heard' <= restarts' /\ heard' # restarts' /\ restarts' # 0
  BY <1>1, <1>2
<1>4. status' \in Statuses /\ (status' \notin Terminal => status = "queued" /\ status' = "queued")
  BY <1>1 DEF Types, Statuses, Under, Terminal
<1>5. ASSUME status = "queued"
      PROVE  JobInv' /\ KeptInv' /\ session' \in Sessions
  <2>1. PICK fresh, types : fresh = Fresh("queued") /\ types = <<"job_queued", "queue_position">>
    OBVIOUS
  <2>2. types \in Seq(EventTypes) /\ types # <<>>
    BY <2>1, SeqOfTypes DEF EventTypes
  <2>3. "queued" \in States /\ "queued" \notin Terminal /\ "queued" \notin Under
    BY DEF States, Terminal, Under
  <2>4. fresh \in Sessions /\ Kept(fresh) /\ ~fresh.completedAt /\ fresh.state \notin Terminal
    BY <2>1, <2>3, FreshKept
  <2>5. session' = AppendAll(fresh, types) /\ status' \notin Terminal
    BY <1>1, <1>5, <2>1, <2>3
  <2>6. /\ session' \in Sessions /\ ~session'.completedAt /\ session'.state \notin Terminal
        /\ Extends(session', fresh, types)
    BY <2>2, <2>4, <2>5, Appended DEF Extends
  <2>7. Kept(session')
    BY <2>2, <2>4, <2>6, AppendKeeps
  <2> QED
    BY <1>5, <2>5, <2>6, <2>7, SessionAssumption DEF JobInv, SessionEndsAsJob, KeptInv
<1>6. ASSUME status # "queued"
      PROVE  JobInv' /\ KeptInv' /\ session' = NoSession
  BY <1>1, <1>4, <1>6 DEF JobInv, SessionEndsAsJob, KeptInv
<1>7. JobInv' /\ KeptInv' /\ session' \in Sessions \union {NoSession}
  BY <1>5, <1>6
<1>8. view' \in [session : States \union {None}, events : SUBSET Messages,
                connection : {"connecting", "live", "reconnecting", "disconnected", "complete"}]
  BY <1>1 DEF Types, Broken
<1>9. Types'
  <2>1. source' \in {None, "connecting", "open", "closed"} /\ channel' \in Seq(Messages)
    BY <1>1 DEF Types
  <2> QED
    BY <1>1, <1>3, <1>4, <1>7, <1>8, <2>1 DEF Types
<1>10. ChannelInv'
  BY <1>1 DEF ChannelInv
<1>11. PositionInv'
  BY <1>1, <1>2, <1>3 DEF PositionInv, Following, None
<1>12. ShownInv'
  BY <1>3 DEF ShownInv
<1> QED
  BY <1>7, <1>9, <1>10, <1>11, <1>12

\* streamEvents() writes the events after the identifier it is given, if it still has them.
LEMMA Replayed ==
  ASSUME session \in Sessions, Kept(session), NEW from \in Nat
  PROVE  /\ EventsAfter(from) \in Seq(Messages)
         /\ Streamed(EventsAfter(from), session)
         /\ \A i \in DOMAIN EventsAfter(from) : EventsAfter(from)[i].type # "session_snapshot"
         /\ ~OutsideWindow(from) /\ from < session.nextEventId
              => from = session.nextEventId - 1 - Len(EventsAfter(from))
<1>1. PICK events, next, l, old :
        /\ events = session.events /\ next = session.nextEventId /\ l = Len(events)
        /\ old = next - 1 - l
  OBVIOUS
<1>2. /\ events \in Seq(Messages) /\ next \in Nat \ {0} /\ l \in Nat /\ old \in Int
      /\ DOMAIN events = 1..l
  BY <1>1, LenProperties DEF Sessions
<1>3. /\ \A i \in 1..l : events[i].id = old + i
      /\ old >= 0
      /\ events = <<>> => next = 1
      /\ \A i \in 1..l : events[i].type # "session_snapshot"
  BY <1>1, <1>2 DEF Kept, Numbered, Oldest
<1> DEFINE Passed(n) == \A i \in DOMAIN events : events[i].id > from <=> i > n
<1>4. \E n \in 0..l : Passed(n)
  <2>1. CASE from < old
    <3>1. Passed(0)
      BY <1>2, <1>3, <2>1
    <3> QED
      BY <1>2, <3>1
  <2>2. CASE from >= old /\ from - old <= l
    <3>1. from - old \in 0..l /\ Passed(from - old)
      BY <1>2, <1>3, <2>2
    <3> QED
      BY <3>1
  <2>3. CASE from >= old /\ from - old > l
    <3>1. Passed(l)
      BY <1>2, <1>3, <2>3
    <3> QED
      BY <1>2, <3>1
  <2> QED
    BY <1>2, <2>1, <2>2, <2>3
<1>5. PICK passed \in 0..l :
        Passed(passed) /\ EventsAfter(from) = SubSeq(events, passed + 1, l)
  <2>1. EventsAfter(from) = SubSeq(events, (CHOOSE n \in 0..l : Passed(n)) + 1, l)
    BY <1>1 DEF EventsAfter
  <2> HIDE DEF Passed
  <2> QED
    BY <1>4, <2>1
<1>6. PICK rest : rest = SubSeq(events, passed + 1, l)
  OBVIOUS
<1>7. /\ rest \in Seq(Messages) /\ Len(rest) = l - passed
      /\ \A i \in 1..(l - passed) : rest[i] = events[passed + i]
  <2>1. l - passed \in 0..Len(events) /\ Len(events) - (l - passed) + 1 = passed + 1
    BY <1>1, <1>2
  <2>2. /\ SubSeq(events, Len(events) - (l - passed) + 1, Len(events)) \in Seq(Messages)
        /\ Len(SubSeq(events, Len(events) - (l - passed) + 1, Len(events))) = l - passed
        /\ \A i \in 1..(l - passed) : SubSeq(events, Len(events) - (l - passed) + 1, Len(events))[i]
                                      = events[Len(events) - (l - passed) + i]
    BY <1>2, <2>1, EndOf
  <2>3. \A i \in 1..(l - passed) : Len(events) - (l - passed) + i = passed + i
    BY <1>1, <1>2
  <2> QED
    BY <1>1, <1>6, <2>1, <2>2, <2>3
<1>8. \A i \in 1..(l - passed) : passed + i \in 1..l /\ old + (passed + i) = next - 1 - (l - passed) + i
  <2>1. old = next - 1 - l
    BY <1>1
  <2> QED
    BY <1>2, <2>1
<1>9. DOMAIN rest = 1..(l - passed)
  BY <1>2, <1>7, LenProperties
<1>10. \A i \in DOMAIN rest : /\ rest[i].id = next - 1 - Len(rest) + i
                              /\ rest[i].type # "session_snapshot"
                              /\ rest[i] \in ToSet(events)
  <2> SUFFICES ASSUME NEW i \in 1..(l - passed)
               PROVE  /\ rest[i].id = next - 1 - Len(rest) + i
                      /\ rest[i].type # "session_snapshot"
                      /\ rest[i] \in ToSet(events)
    BY <1>9
  <2>1. passed + i \in 1..l /\ rest[i] = events[passed + i]
    BY <1>7, <1>8
  <2>2. rest[i].id = old + (passed + i) /\ rest[i].type # "session_snapshot"
    BY <1>3, <2>1
  <2>3. rest[i] \in ToSet(events)
    BY <1>2, <2>1 DEF ToSet
  <2> QED
    BY <1>7, <1>8, <2>2, <2>3
<1>11. Streamed(rest, session)
  BY <1>1, <1>10 DEF Streamed, Numbered
<1>12. ASSUME ~OutsideWindow(from), from < next PROVE from = next - 1 - Len(rest)
  <2>1. CASE events = <<>>
    BY <1>1, <1>2, <1>3, <1>7, <1>12, <2>1, EmptySeq
  <2>2. CASE events # <<>>
    <3>1. l >= 1
      BY <1>1, <1>2, <2>2, EmptySeq
    <3>2. from >= old
      <4>1. ~(from < events[1].id - 1)
        BY <1>1, <1>12, <2>2 DEF OutsideWindow
      <4> QED
        BY <1>2, <1>3, <3>1, <4>1
    <3>3. from - old <= l
      BY <1>1, <1>2, <1>12
    <3>4. ~(passed < from - old)
      <4> SUFFICES ASSUME passed < from - old PROVE FALSE
        OBVIOUS
      <4>1. passed + 1 \in DOMAIN events /\ passed + 1 > passed
        BY <1>2, <3>3
      <4>2. events[passed + 1].id > from
        BY <1>5, <4>1
      <4>3. events[passed + 1].id = old + (passed + 1)
        BY <1>2, <1>3, <4>1
      <4> QED
        BY <1>2, <4>2, <4>3
    <3>5. ~(passed > from - old)
      <4> SUFFICES ASSUME passed > from - old PROVE FALSE
        OBVIOUS
      <4>1. passed \in DOMAIN events /\ ~(passed > passed)
        BY <1>2, <3>2
      <4>2. ~(events[passed].id > from)
        BY <1>5, <4>1
      <4>3. events[passed].id = old + passed
        BY <1>2, <1>3, <4>1
      <4> QED
        BY <1>2, <4>2, <4>3
    <3>6. passed = from - old
      BY <1>2, <3>4, <3>5
    <3> QED
      <4>1. old = next - 1 - l /\ Len(rest) = l - passed
        BY <1>1, <1>7
      <4> QED
        BY <1>2, <3>6, <4>1
  <2> QED
    BY <2>1, <2>2
<1> QED
  BY <1>1, <1>5, <1>6, <1>7, <1>10, <1>11, <1>12

LEMMA OpenKeeps ==
  ASSUME StreamInv, Open
  PROVE  StreamInv'
<1> USE DEF StreamInv
<1>1. /\ session \in Sessions /\ session # NoSession /\ source = "connecting" /\ source' = "open"
      /\ listening' = TRUE
      /\ channel' = IF OutsideWindow(lastEventId) THEN <<Snapshot>> ELSE EventsAfter(lastEventId)
      /\ view' = [view EXCEPT !.connection = "live"]
      /\ UNCHANGED <<status, session, stopping, restarts, lastEventId, refresh, drops, heard, skipped>>
  BY DEF Types, Open, StreamEvents
<1>2. Kept(session) /\ lastEventId \in Nat
  BY <1>1 DEF KeptInv, Types
<1>3. view' \in [session : States \union {None}, events : SUBSET Messages,
                connection : {"connecting", "live", "reconnecting", "disconnected", "complete"}]
      /\ view'.session = view.session /\ view'.events = view.events
  BY <1>1 DEF Types
<1>4. ASSUME OutsideWindow(lastEventId)
      PROVE  /\ channel' \in Seq(Messages) /\ Streamed(channel', session)
             /\ channel' # <<>> /\ channel'[1].type = "session_snapshot"
             /\ lastEventId < channel'[1].id
  <2>1. channel' = <<Snapshot>>
    BY <1>1, <1>4
  <2>2. /\ session.nextEventId \in Nat \ {0} /\ session.state \in States /\ session.events \in Seq(Messages)
    BY <1>1 DEF Sessions
  <2>3. /\ Snapshot \in Messages /\ Snapshot.id = session.nextEventId - 1
        /\ Snapshot.type = "session_snapshot" /\ Snapshot.snapshot = session.state
    BY <2>2 DEF Snapshot, Messages
  <2>4. /\ channel' \in Seq(Messages) /\ Len(channel') = 1 /\ DOMAIN channel' = {1}
        /\ channel'[1] = Snapshot /\ channel' # <<>>
    BY <2>1, <2>3
  <2>5. session.nextEventId - 1 = session.nextEventId - 1 - 1 + 1
    BY <2>2
  <2>6. Streamed(channel', session)
    BY <2>3, <2>4, <2>5 DEF Streamed, Numbered
  <2>7. lastEventId < session.nextEventId - 1
    <3>1. session.events # <<>> /\ lastEventId < session.events[1].id - 1
      BY <1>4 DEF OutsideWindow
    <3>2. Len(session.events) \in Nat \ {0} /\ 1 \in DOMAIN session.events
      BY <2>2, <3>1, LenProperties, EmptySeq
    <3>3. session.events[1].id = session.nextEventId - 1 - Len(session.events) + 1
      BY <1>2, <3>2 DEF Kept, Numbered
    <3> QED
      BY <1>2, <2>2, <3>1, <3>2, <3>3
  <2> QED
    BY <2>3, <2>4, <2>6, <2>7
<1>5. ASSUME ~OutsideWindow(lastEventId)
      PROVE  /\ channel' \in Seq(Messages) /\ Streamed(channel', session)
             /\ ~SnapshotFirst'
             /\ lastEventId < session.nextEventId
                  => lastEventId = session.nextEventId - 1 - Len(channel')
  <2>1. channel' = EventsAfter(lastEventId)
    BY <1>1, <1>5
  <2>2. /\ channel' \in Seq(Messages) /\ Streamed(channel', session)
        /\ \A i \in DOMAIN channel' : channel'[i].type # "session_snapshot"
        /\ lastEventId < session.nextEventId
             => lastEventId = session.nextEventId - 1 - Len(channel')
    BY <1>1, <1>2, <1>5, <2>1, Replayed
  <2>3. channel' # <<>> => 1 \in DOMAIN channel'
    BY <2>2, LenProperties, EmptySeq
  <2> QED
    BY <2>2, <2>3 DEF SnapshotFirst
<1>6. Types'
  BY <1>1, <1>3, <1>4, <1>5 DEF Types
<1>7. JobInv' /\ KeptInv'
  BY <1>1 DEF JobInv, SessionEndsAsJob, KeptInv
<1>8. Streamed(channel', session')
  BY <1>1, <1>4, <1>5
<1>9. ChannelInv'
  BY <1>1, <1>8 DEF ChannelInv
<1>10. Following' <=> Following
  BY <1>1 DEF Following, Original
<1>11. PositionInv'
  <2>1. refresh' = None /\ source' # None
    BY <1>1 DEF PositionInv, None
  <2>2. ASSUME Following'
        PROVE  IF SnapshotFirst' THEN lastEventId < channel'[1].id
               ELSE lastEventId = session.nextEventId - 1 - Len(channel')
    <3>1. lastEventId < session.nextEventId
      BY <1>10, <2>2 DEF PositionInv
    <3> QED
      BY <1>4, <1>5, <3>1 DEF SnapshotFirst
  <2> QED
    BY <1>1, <1>3, <1>10, <2>1, <2>2 DEF PositionInv
<1>12. ShownInv'
  BY <1>1, <1>3 DEF ShownInv, Original
<1> QED
  BY <1>6, <1>7, <1>9, <1>11, <1>12

\* The browser's list holds on to the latest events, as the server's does.
LEMMA LatestKeeps ==
  ASSUME NEW shown \in SUBSET Messages, IsFiniteSet(shown), NEW n \in Nat,
         \A e \in shown : e.id \in 1..n,
         \A d, e \in shown : d.id = e.id => d = e,
         NEW m \in Messages, m.id = n + 1
  PROVE  /\ Latest(shown \union {m}) \in SUBSET Messages
         /\ IsFiniteSet(Latest(shown \union {m}))
         /\ \A e \in Latest(shown \union {m}) : e.id \in 1..(n + 1)
         /\ \A d, e \in Latest(shown \union {m}) : d.id = e.id => d = e
         /\ \A e \in shown \union {m} : n + 1 - e.id < PageLimit => e \in Latest(shown \union {m})
<1>1. PICK all : all = shown \union {m}
  OBVIOUS
<1>2. all \in SUBSET Messages /\ IsFiniteSet(all) /\ Latest(all) \in SUBSET all
  BY <1>1, FS_AddElement DEF Latest
<1>3. \A e \in all : e.id \in 1..(n + 1)
  BY <1>1
<1>4. \A d, e \in all : d.id = e.id => d = e
  BY <1>1
<1>5. ASSUME NEW e \in all, n + 1 - e.id < PageLimit PROVE e \in Latest(all)
  <2>1. PICK later, ids : later = {d \in all : d.id > e.id} /\ ids = (e.id + 1)..(n + 1)
    OBVIOUS
  <2>2. e.id \in Nat /\ e.id <= n + 1
    BY <1>3
  <2>3. IsFiniteSet(ids) /\ Cardinality(ids) = n + 1 - e.id
    <3>1. e.id + 1 \in Int /\ n + 1 \in Int
      BY <2>2
    <3>2. IsFiniteSet(ids) /\ Cardinality(ids) = IF e.id + 1 > n + 1 THEN 0 ELSE n + 1 - (e.id + 1) + 1
      BY <2>1, <3>1, FS_Interval
    <3>3. (IF e.id + 1 > n + 1 THEN 0 ELSE n + 1 - (e.id + 1) + 1) = n + 1 - e.id
      BY <2>2
    <3> QED
      BY <3>2, <3>3
  <2>4. PICK f : f = [d \in later |-> d.id]
    OBVIOUS
  <2>5. f \in Injection(later, ids)
    <3>1. f \in [later -> ids]
      <4>1. \A d \in later : d.id \in ids
        BY <1>3, <2>1, <2>2
      <4> QED
        BY <2>4, <4>1
    <3>2. \A a, b \in later : f[a] = f[b] => a = b
      BY <1>4, <2>1, <2>4
    <3> QED
      BY <3>1, <3>2 DEF Injection, IsInjective
  <2>6. Cardinality(later) <= Cardinality(ids) /\ IsFiniteSet(later)
    BY <2>3, <2>5, FS_Injection
  <2>7. Cardinality(later) \in Nat
    BY <2>6, FS_CardinalityType
  <2>8. Cardinality(later) < PageLimit
    BY <1>5, <2>2, <2>3, <2>6, <2>7, StreamAssumption
  <2> QED
    BY <2>1, <2>8 DEF Latest
<1>6. IsFiniteSet(Latest(all))
  BY <1>2, FS_Subset
<1>7. PICK kept : kept = Latest(all)
  OBVIOUS
<1>8. kept \in SUBSET Messages /\ IsFiniteSet(kept) /\ kept \in SUBSET all
  BY <1>2, <1>6, <1>7
<1> QED
  BY <1>1, <1>3, <1>4, <1>5, <1>7, <1>8

LEMMA Headed ==
  ASSUME NEW messages \in Seq(Messages), messages # <<>>, NEW s \in Sessions, Streamed(messages, s)
  PROVE  /\ Head(messages) = messages[1] /\ Head(messages) \in Messages
         /\ messages[1].id = s.nextEventId - Len(messages)
         /\ Tail(messages) \in Seq(Messages)
         /\ Len(Tail(messages)) = Len(messages) - 1 /\ Len(messages) \in Nat \ {0}
         /\ Streamed(Tail(messages), s)
         /\ Tail(messages) # <<>> => Tail(messages)[1].type # "session_snapshot"
<1>1. PICK tail, l, next : tail = Tail(messages) /\ l = Len(messages) /\ next = s.nextEventId
  OBVIOUS
<1>2. /\ l \in Nat \ {0} /\ DOMAIN messages = 1..l /\ next \in Nat \ {0}
      /\ Head(messages) = messages[1] /\ messages[1] \in Messages
  BY <1>1, LenProperties, EmptySeq, HeadTailProperties, ElementOfSeq DEF Sessions
<1>3. tail \in Seq(Messages) /\ Len(tail) = l - 1 /\ \A i \in 1..(l - 1) : tail[i] = messages[i + 1]
  BY <1>1, <1>2, HeadTailProperties
<1>4. DOMAIN tail = 1..(l - 1)
  BY <1>3, LenProperties
<1>5. \A i \in 1..l : messages[i].id = next - 1 - l + i
  BY <1>1, <1>2 DEF Streamed, Numbered
<1>6. messages[1].id = next - l
  BY <1>2, <1>5
<1>7. \A i \in 1..(l - 1) : tail[i].id = next - 1 - Len(tail) + i
  <2>1. \A i \in 1..(l - 1) : i + 1 \in 1..l /\ next - 1 - l + (i + 1) = next - 1 - (l - 1) + i
    BY <1>2
  <2> QED
    BY <1>3, <1>5, <2>1
<1>8. \A i \in 1..(l - 1) : /\ tail[i].type # "session_snapshot"
                            /\ tail[i].id > Oldest(s) => tail[i] \in ToSet(s.events)
  <2>1. \A i \in 1..(l - 1) : i + 1 \in DOMAIN messages /\ i + 1 # 1
    BY <1>2
  <2> QED
    BY <1>3, <2>1 DEF Streamed
<1>9. Streamed(tail, s)
  BY <1>1, <1>4, <1>7, <1>8 DEF Streamed, Numbered
<1>10. tail # <<>> => 1 \in 1..(l - 1)
  BY <1>2, <1>3, EmptySeq
<1> QED
  BY <1>1, <1>2, <1>3, <1>6, <1>8, <1>9, <1>10

LEMMA RefreshKeeps ==
  ASSUME StreamInv, AnswerRefresh \/ ReceiveRefresh
  PROVE  StreamInv'
<1> USE DEF StreamInv
<1>1. UNCHANGED <<status, session, listening, channel, stopping, restarts, lastEventId, heard, skipped>>
  BY DEF AnswerRefresh, ReceiveRefresh, server
<1>2. Original' <=> Original
  BY <1>1 DEF Original
<1>3. JobInv' /\ KeptInv'
  BY <1>1 DEF JobInv, SessionEndsAsJob, KeptInv
<1>4. CASE AnswerRefresh
  <2>1. /\ refresh = "asked" /\ UNCHANGED <<source, view>> /\ drops' \in Nat
        /\ refresh' \in {"notFound", "lost"} \union States
    BY <1>4 DEF AnswerRefresh, Types, Sessions
  <2>2. Types'
    BY <1>1, <2>1 DEF Types
  <2>3. ChannelInv' /\ PositionInv' /\ ShownInv'
    BY <1>1, <1>2, <2>1 DEF ChannelInv, PositionInv, ShownInv, Following, SnapshotFirst, None
  <2> QED
    BY <1>3, <2>2, <2>3
<1>5. CASE ReceiveRefresh
  <2>1. /\ refresh \notin {None, "asked"} /\ refresh' = None /\ drops' = drops
        /\ source' \in {source, "connecting", "closed"}
        /\ source # None => source' = source
        /\ source' # None /\ (source' = "open" => source = "open")
        /\ view'.events = view.events
        /\ view' \in [session : States \union {None}, events : SUBSET Messages,
                  connection : {"connecting", "live", "reconnecting", "disconnected", "complete"}]
    BY <1>5 DEF ReceiveRefresh, Types, None
  <2>2. source \notin {"connecting", "open"}
    BY <2>1 DEF PositionInv
  <2>3. Types'
    BY <1>1, <2>1 DEF Types, None
  <2>4. ChannelInv'
    BY <1>1, <1>2, <2>1, <2>2 DEF ChannelInv
  <2>5. PositionInv'
    <3>1. ASSUME Following, source' # "closed", session.completedAt, lastEventId = session.nextEventId - 1
          PROVE  FALSE
      <4>1. source = None /\ lastEventId = 0
        BY <2>1, <2>2, <3>1 DEF PositionInv, Types
      <4>2. session \in Sessions /\ Kept(session)
        BY <3>1 DEF Following, Original, Types, KeptInv
      <4>3. session.events # <<>> /\ session.nextEventId - 1 - Len(session.events) >= 0
        BY <3>1, <4>2 DEF Kept, Oldest
      <4>4. session.nextEventId \in Nat /\ Len(session.events) \in Nat \ {0}
        BY <4>2, <4>3, LenProperties, EmptySeq DEF Sessions
      <4> QED
        BY <3>1, <4>1, <4>3, <4>4
    <3> QED
      BY <1>1, <1>2, <2>1, <2>2, <3>1 DEF PositionInv, Following, SnapshotFirst
  <2>6. ShownInv'
    BY <1>1, <1>2, <2>1 DEF ShownInv
  <2> QED
    BY <1>3, <2>3, <2>4, <2>5, <2>6
<1> QED
  BY <1>4, <1>5

LEMMA ConnectionKeeps ==
  ASSUME StreamInv, OpenRefused \/ Drop
  PROVE  StreamInv'
<1> USE DEF StreamInv
<1>1. /\ UNCHANGED <<status, session, stopping, restarts, lastEventId, refresh, heard, skipped>>
      /\ source \in {"connecting", "open"} /\ source' \in {"connecting", "closed"}
      /\ listening' = FALSE /\ channel' = <<>> /\ drops' \in Nat
      /\ view' = [view EXCEPT !.connection = Broken]
  BY DEF OpenRefused, Drop, Disconnected, server, Types, ChannelInv
<1>2. /\ view'.events = view.events /\ view'.session = view.session
      /\ view' \in [session : States \union {None}, events : SUBSET Messages,
                connection : {"connecting", "live", "reconnecting", "disconnected", "complete"}]
  BY <1>1 DEF Types, Broken
<1>3. Original' <=> Original
  BY <1>1 DEF Original
<1>4. Types'
  <2>1. channel' \in Seq(Messages)
    BY <1>1
  <2> QED
    BY <1>1, <1>2, <2>1 DEF Types
<1>5. JobInv' /\ KeptInv' /\ ChannelInv'
  BY <1>1 DEF JobInv, SessionEndsAsJob, KeptInv, ChannelInv
<1>6. PositionInv' /\ ShownInv'
  BY <1>1, <1>2, <1>3 DEF PositionInv, ShownInv, Following, None
<1> QED
  BY <1>4, <1>5, <1>6

LEMMA SnapshotKeeps ==
  ASSUME StreamInv, HandleSnapshot
  PROVE  StreamInv'
<1> USE DEF StreamInv
<1>1. /\ UNCHANGED <<status, session, stopping, restarts, drops, listening, source, refresh>>
      /\ source = "open" /\ channel # <<>> /\ channel' = Tail(channel)
      /\ Head(channel).type = "session_snapshot" /\ lastEventId' = Head(channel).id
      /\ skipped' = Head(channel).id /\ heard' = restarts
      /\ view' = [view EXCEPT !.session = Head(channel).snapshot]
  BY DEF HandleSnapshot, Heard, Message
<1>2. channel \in Seq(Messages) /\ Head(channel) \in Messages /\ Tail(channel) \in Seq(Messages)
      /\ Head(channel) = channel[1]
  BY <1>1, HeadTailProperties DEF Types
<1>3. /\ view'.events = view.events /\ view'.session = channel[1].snapshot
      /\ view' \in [session : States \union {None}, events : SUBSET Messages,
                connection : {"connecting", "live", "reconnecting", "disconnected", "complete"}]
  BY <1>1, <1>2 DEF Types, Messages, None
<1>4. Types'
  <2>1. lastEventId' \in Nat /\ skipped' \in Nat
    BY <1>1, <1>2 DEF Messages
  <2>2. heard' \in Nat /\ heard' <= restarts'
    BY <1>1 DEF Types
  <2> QED
    BY <1>1, <1>2, <1>3, <2>1, <2>2 DEF Types
<1>5. JobInv' /\ KeptInv'
  BY <1>1 DEF JobInv, SessionEndsAsJob, KeptInv
<1>6. (Original' <=> Original) /\ (Original => listening)
  BY <1>1 DEF Original, ChannelInv
<1>7. ASSUME listening
      PROVE  /\ session # NoSession /\ session \in Sessions
             /\ session.nextEventId \in Nat
             /\ channel[1].id = session.nextEventId - Len(channel)
             /\ Len(channel') = Len(channel) - 1 /\ Len(channel) \in Nat \ {0}
             /\ Streamed(channel', session) /\ ~SnapshotFirst'
  <2>1. session \in Sessions /\ Streamed(channel, session) /\ session # NoSession
    BY <1>7 DEF ChannelInv, Types
  <2>2. session.nextEventId \in Nat
    BY <2>1 DEF Sessions
  <2> QED
    BY <1>1, <1>2, <2>1, <2>2, Headed DEF SnapshotFirst
<1>8. ChannelInv'
  BY <1>1, <1>6, <1>7 DEF ChannelInv
<1>9. PositionInv'
  <2>1. /\ source' = None => lastEventId' = 0
        /\ source' \in {"connecting", "open"} => refresh' = None
    BY <1>1 DEF PositionInv, None
  <2>2. ASSUME Following'
        PROVE  /\ lastEventId' < session'.nextEventId
               /\ lastEventId' = session'.nextEventId - 1 - Len(channel')
               /\ ~SnapshotFirst'
               /\ lastEventId' = session'.nextEventId - 1 => view'.session = session'.state
    <3>1. listening /\ session' = session
      BY <1>1, <1>6, <2>2 DEF Following
    <3>2. /\ lastEventId' = session.nextEventId - Len(channel) /\ session.nextEventId \in Nat
          /\ Len(channel') = Len(channel) - 1 /\ Len(channel) \in Nat \ {0}
      BY <1>1, <1>2, <1>7, <3>1
    <3>3. lastEventId' < session.nextEventId /\ lastEventId' = session.nextEventId - 1 - Len(channel')
      BY <3>2
    <3>4. ASSUME lastEventId' = session.nextEventId - 1 PROVE view'.session = session.state
      <4>1. Len(channel) = 1 /\ 1 \in DOMAIN channel
        BY <1>2, <3>2, <3>4, LenProperties
      <4>2. Streamed(channel, session)
        BY <3>1 DEF ChannelInv
      <4>3. channel[1].snapshot = session.state
        BY <1>1, <1>2, <4>1, <4>2 DEF Streamed
      <4> QED
        BY <1>3, <4>3
    <3> QED
      BY <1>7, <3>1, <3>3, <3>4
  <2> QED
    BY <2>1, <2>2 DEF PositionInv
<1>10. ShownInv'
  <2> SUFFICES ASSUME Original', restarts' = 0
               PROVE  /\ IsFiniteSet(view.events)
                      /\ \A e \in view.events : e.id \in 1..lastEventId'
                      /\ \A d, e \in view.events : d.id = e.id => d = e
                      /\ \A e \in ToSet(session.events) : ~(skipped' < e.id /\ e.id <= lastEventId')
    BY <1>1, <1>3 DEF ShownInv
  <2>1. /\ IsFiniteSet(view.events)
        /\ \A e \in view.events : e.id \in 1..lastEventId
        /\ \A d, e \in view.events : d.id = e.id => d = e
    BY <1>1, <1>6 DEF ShownInv
  <2>2. Following /\ listening
    BY <1>1, <1>6 DEF Types, Following
  <2>3. lastEventId < lastEventId'
    BY <1>1, <1>2, <2>2 DEF PositionInv, SnapshotFirst
  <2>4. lastEventId \in Nat /\ lastEventId' \in Nat
    BY <1>4 DEF Types
  <2>5. \A e \in view.events : e.id \in 1..lastEventId'
    BY <2>1, <2>3, <2>4
  <2>6. \A e \in ToSet(session.events) : e.id \in Nat
    <3>1. session \in Sessions
      BY <1>7, <2>2
    <3>2. session.events \in Seq(Messages)
      BY <3>1 DEF Sessions
    <3>3. \A e \in ToSet(session.events) : e \in Messages
      BY <3>2, ElementOfSeq, LenProperties DEF ToSet
    <3> QED
      BY <3>3 DEF Messages
  <2>7. \A e \in ToSet(session.events) : ~(skipped' < e.id /\ e.id <= lastEventId')
    BY <1>1, <2>4, <2>6
  <2> QED
    BY <2>1, <2>5, <2>7
<1> QED
  BY <1>4, <1>5, <1>8, <1>9, <1>10

LEMMA EventKeeps ==
  ASSUME StreamInv, HandleEvent
  PROVE  StreamInv'
<1> USE DEF StreamInv
<1>1. /\ UNCHANGED <<status, session, stopping, restarts, drops, skipped>>
      /\ source = "open" /\ channel # <<>>
      /\ Head(channel).type # "session_snapshot" /\ lastEventId' = Head(channel).id
      /\ heard' = restarts /\ view' = Shown
      /\ IF Head(channel).type \in TerminalEvents
         THEN refresh' = "asked" /\ source' = "closed" /\ listening' = FALSE /\ channel' = <<>>
         ELSE channel' = Tail(channel) /\ UNCHANGED <<refresh, source, listening>>
  BY DEF HandleEvent, Heard, Message
<1>2. /\ channel \in Seq(Messages) /\ Head(channel) \in Messages /\ Tail(channel) \in Seq(Messages)
      /\ Head(channel) = channel[1]
  BY <1>1, HeadTailProperties DEF Types
<1>3. PICK m : m = channel[1]
  OBVIOUS
<1>4. /\ m \in Messages /\ m.id \in Nat /\ m.type # "session_snapshot"
      /\ lastEventId' = m.id /\ Message = m
  BY <1>1, <1>2, <1>3 DEF Messages, Message
<1>5. view' = IF \E e \in view.events : e.id = m.id
              THEN view
              ELSE [session    |-> StateShown(view.session, m.type),
                    events     |-> Latest(view.events \union {m}),
                    connection |-> IF m.type \in TerminalEvents THEN "complete" ELSE view.connection]
  BY <1>1, <1>4 DEF Shown
<1>6. view' \in [session : States \union {None}, events : SUBSET Messages,
                connection : {"connecting", "live", "reconnecting", "disconnected", "complete"}]
  <2>1. view \in [session : States \union {None}, events : SUBSET Messages,
                  connection : {"connecting", "live", "reconnecting", "disconnected", "complete"}]
    BY DEF Types
  <2>2. Latest(view.events \union {m}) \in SUBSET Messages
    BY <1>4, <2>1 DEF Latest
  <2>3. StateShown(view.session, m.type) \in States \union {None}
    BY <2>1 DEF StateShown, States, Under, Terminal
  <2>4. (IF m.type \in TerminalEvents THEN "complete" ELSE view.connection)
          \in {"connecting", "live", "reconnecting", "disconnected", "complete"}
    BY <2>1
  <2> QED
    BY <1>5, <2>1, <2>2, <2>3, <2>4
<1>7. Types'
  <2>1. lastEventId' \in Nat /\ heard' \in Nat /\ heard' <= restarts'
    BY <1>1, <1>4 DEF Types
  <2>2. channel' \in Seq(Messages) /\ listening' \in BOOLEAN
    <3>1. listening \in BOOLEAN /\ <<>> \in Seq(Messages)
      BY DEF Types
    <3>2. channel' \in {<<>>, Tail(channel)} /\ listening' \in {FALSE, listening}
      BY <1>1
    <3> QED
      BY <1>2, <3>1, <3>2
  <2> QED
    BY <1>1, <1>6, <2>1, <2>2 DEF Types
<1>8. JobInv' /\ KeptInv'
  BY <1>1 DEF JobInv, SessionEndsAsJob, KeptInv
<1>9. (Original' <=> Original) /\ (Original => listening)
  BY <1>1 DEF Original, ChannelInv
<1>10. ASSUME listening
       PROVE  /\ session # NoSession /\ session \in Sessions /\ session.nextEventId \in Nat
              /\ Streamed(channel, session)
              /\ m.id = session.nextEventId - Len(channel) /\ Len(channel) \in Nat \ {0}
              /\ Len(Tail(channel)) = Len(channel) - 1
              /\ Streamed(Tail(channel), session)
              /\ Tail(channel) # <<>> => Tail(channel)[1].type # "session_snapshot"
  <2>1. session \in Sessions /\ Streamed(channel, session) /\ session # NoSession
    BY <1>10 DEF ChannelInv, Types
  <2>2. session.nextEventId \in Nat
    BY <2>1 DEF Sessions
  <2> QED
    BY <1>1, <1>2, <1>3, <2>1, <2>2, Headed
<1>11. ChannelInv'
  BY <1>1, <1>9, <1>10 DEF ChannelInv
\* The event that is read is one of those the session keeps, if it is not too old.
<1>12. ASSUME listening, m.id > Oldest(session) PROVE m \in ToSet(session.events)
  <2>1. 1 \in DOMAIN channel
    BY <1>2, <1>10, <1>12, LenProperties
  <2> QED
    BY <1>3, <1>4, <1>10, <1>12, <2>1 DEF Streamed
<1>13. ASSUME session # NoSession
       PROVE  /\ session.events \in Seq(Messages) /\ Oldest(session) \in Nat
              /\ session.nextEventId \in Nat
              /\ Oldest(session) = session.nextEventId - 1 - Len(session.events)
              /\ Len(session.events) \in Nat /\ Len(session.events) <= EventLimit
              /\ \A e \in ToSet(session.events) : \E i \in 1..Len(session.events) :
                    e = session.events[i] /\ e.id = Oldest(session) + i
              /\ \A d, e \in ToSet(session.events) : d.id = e.id => d = e
  <2>1. session \in Sessions /\ Kept(session)
    BY <1>13 DEF Types, KeptInv
  <2>2. /\ session.events \in Seq(Messages) /\ session.nextEventId \in Nat
        /\ Len(session.events) \in Nat /\ Len(session.events) <= EventLimit
        /\ Oldest(session) = session.nextEventId - 1 - Len(session.events)
        /\ Oldest(session) >= 0
        /\ DOMAIN session.events = 1..Len(session.events)
    BY <2>1, LenProperties DEF Sessions, Kept, Oldest
  <2>3. Oldest(session) \in Nat
    BY <2>2
  <2>4. \A i \in 1..Len(session.events) : session.events[i].id = Oldest(session) + i
    BY <2>1, <2>2 DEF Kept, Numbered
  <2>5. \A e \in ToSet(session.events) : \E i \in 1..Len(session.events) :
           e = session.events[i] /\ e.id = Oldest(session) + i
    BY <2>2, <2>4 DEF ToSet
  <2>6. ASSUME NEW d \in ToSet(session.events), NEW e \in ToSet(session.events), d.id = e.id
        PROVE  d = e
    <3>1. PICK i \in 1..Len(session.events) : d = session.events[i] /\ d.id = Oldest(session) + i
      BY <2>5
    <3>2. PICK j \in 1..Len(session.events) : e = session.events[j] /\ e.id = Oldest(session) + j
      BY <2>5
    <3>3. i = j
      BY <2>3, <2>6, <3>1, <3>2
    <3> QED
      BY <3>1, <3>2, <3>3
  <2> QED
    BY <2>2, <2>3, <2>5, <2>6
<1>14. PositionInv'
  <2>1. /\ source' = None => lastEventId' = 0
        /\ source' \in {"connecting", "open"} => refresh' = None
    BY <1>1 DEF PositionInv, None
  <2>2. ASSUME Following'
        PROVE  /\ lastEventId' < session'.nextEventId
               /\ listening' => ~SnapshotFirst' /\ lastEventId' = session'.nextEventId - 1 - Len(channel')
               /\ source' # "closed" /\ session'.completedAt => lastEventId' # session'.nextEventId - 1
    <3>1. listening /\ session' = session /\ session # NoSession
      BY <1>1, <1>9, <2>2 DEF Following, Original
    <3>2. /\ lastEventId' = session.nextEventId - Len(channel) /\ session.nextEventId \in Nat
          /\ Len(Tail(channel)) = Len(channel) - 1 /\ Len(channel) \in Nat \ {0}
      BY <1>4, <1>10, <3>1
    <3>3. lastEventId' < session.nextEventId
      BY <3>2
    <3>4. ASSUME listening'
          PROVE  ~SnapshotFirst' /\ lastEventId' = session.nextEventId - 1 - Len(channel')
      <4>1. channel' = Tail(channel)
        BY <1>1, <3>4
      <4>2. lastEventId' = session.nextEventId - 1 - Len(channel')
        BY <3>2, <4>1
      <4> QED
        BY <1>10, <3>1, <4>1, <4>2 DEF SnapshotFirst
    <3>5. ASSUME source' # "closed", session.completedAt, lastEventId' = session.nextEventId - 1
          PROVE  FALSE
      <4>1. m.type \notin TerminalEvents
        BY <1>1, <1>2, <1>3, <3>5
      <4>2. session.events # <<>> /\ Last(session.events).type \in TerminalEvents
        BY <3>1, <3>5 DEF KeptInv, Kept
      <4>3. Len(session.events) \in 1..Len(session.events)
        BY <1>13, <3>1, <4>2, EmptySeq
      <4>4. Last(session.events) \in ToSet(session.events)
        BY <1>13, <3>1, <4>3, LenProperties DEF Last, ToSet
      <4>5. Last(session.events).id = session.nextEventId - 1
        <5>1. Last(session.events).id = session.nextEventId - 1 - Len(session.events) + Len(session.events)
          <6>1. Kept(session) /\ DOMAIN session.events = 1..Len(session.events)
            BY <1>13, <3>1, LenProperties DEF KeptInv
          <6> QED
            BY <4>3, <6>1 DEF Kept, Numbered, Last
        <5> QED
          BY <1>13, <3>1, <5>1
      <4>6. m.id > Oldest(session)
        BY <1>4, <1>13, <3>1, <3>5, <4>3
      <4>7. m = Last(session.events)
        BY <1>4, <1>12, <1>13, <3>1, <3>5, <4>4, <4>5, <4>6
      <4> QED
        BY <4>1, <4>2, <4>7
    <3> QED
      BY <3>1, <3>3, <3>4, <3>5
  <2> QED
    BY <2>1, <2>2 DEF PositionInv
<1>15. ShownInv'
  <2> SUFFICES ASSUME Original', restarts' = 0
               PROVE  /\ IsFiniteSet(view'.events)
                      /\ \A e \in view'.events : e.id \in 1..lastEventId'
                      /\ \A d, e \in view'.events : d.id = e.id => d = e
                      /\ \A e \in ToSet(session.events) :
                            skipped < e.id /\ e.id <= lastEventId' /\ lastEventId' - e.id < PageLimit
                              => e \in view'.events
    BY <1>1 DEF ShownInv
  <2>1. Original /\ Following /\ listening /\ session # NoSession
    BY <1>1, <1>9 DEF Types, Following, Original
  <2>2. PICK shown, n : shown = view.events /\ n = lastEventId
    OBVIOUS
  <2>3. /\ shown \in SUBSET Messages /\ IsFiniteSet(shown) /\ n \in Nat
        /\ \A e \in shown : e.id \in 1..n
        /\ \A d, e \in shown : d.id = e.id => d = e
        /\ \A e \in ToSet(session.events) :
             skipped < e.id /\ e.id <= n /\ n - e.id < PageLimit => e \in shown
    BY <1>1, <2>1, <2>2 DEF ShownInv, Types
  <2>4. m.id = n + 1 /\ n + 1 < session.nextEventId
    <3>1. ~SnapshotFirst
      BY <1>3, <1>4 DEF SnapshotFirst
    <3>2. lastEventId = session.nextEventId - 1 - Len(channel)
      BY <2>1, <3>1 DEF PositionInv
    <3> QED
      BY <1>10, <2>1, <2>2, <3>2
  <2>5. view'.events = Latest(shown \union {m})
    <3>1. ~ \E e \in shown : e.id = m.id
      BY <2>3, <2>4
    <3> QED
      BY <1>5, <2>2, <3>1
  <2>6. PICK now : now = Latest(shown \union {m})
    OBVIOUS
  <2>7. /\ IsFiniteSet(now)
        /\ \A e \in now : e.id \in 1..(n + 1)
        /\ \A d, e \in now : d.id = e.id => d = e
        /\ \A e \in shown \union {m} : n + 1 - e.id < PageLimit => e \in now
    <3>1. /\ IsFiniteSet(Latest(shown \union {m}))
          /\ \A e \in Latest(shown \union {m}) : e.id \in 1..(n + 1)
          /\ \A d, e \in Latest(shown \union {m}) : d.id = e.id => d = e
          /\ \A e \in shown \union {m} : n + 1 - e.id < PageLimit => e \in Latest(shown \union {m})
      BY <1>4, <2>3, <2>4, LatestKeeps
    <3> QED
      BY <2>6, <3>1
  <2>8. ASSUME NEW e \in ToSet(session.events), skipped < e.id, e.id <= n + 1, n + 1 - e.id < PageLimit
        PROVE  e \in now
    <3>1. PICK i \in 1..Len(session.events) : e = session.events[i] /\ e.id = Oldest(session) + i
      BY <1>13, <2>1
    <3>2. e.id \in Nat /\ e.id > Oldest(session)
      BY <1>13, <2>1, <3>1
    <3>3. e \in shown \union {m}
      <4>1. CASE e.id <= n
        <5>1. n - e.id < PageLimit
          BY <2>3, <2>8, <3>2, StreamAssumption
        <5> QED
          BY <2>3, <2>8, <4>1, <5>1
      <4>2. CASE e.id = n + 1
        BY <1>12, <1>13, <2>1, <2>4, <3>2, <4>2
      <4> QED
        BY <2>3, <2>8, <3>2, <4>1, <4>2
    <3> QED
      BY <2>7, <2>8, <3>3
  <2>9. lastEventId' = n + 1 /\ view'.events = now
    BY <1>4, <2>4, <2>5, <2>6
  <2>10. \A e \in view'.events : e.id \in 1..lastEventId'
    BY <2>7, <2>9
  <2>11. ASSUME NEW e \in ToSet(session.events), skipped < e.id, e.id <= lastEventId',
                lastEventId' - e.id < PageLimit
         PROVE  e \in view'.events
    <3>1. e.id <= n + 1 /\ n + 1 - e.id < PageLimit
      <4>1. e.id <= lastEventId' /\ lastEventId' - e.id < PageLimit
        BY <2>11
      <4>2. lastEventId' = n + 1
        BY <2>9
      <4>3. e.id \in Nat /\ n \in Nat /\ lastEventId' \in Nat /\ PageLimit \in Nat
        <5>1. PICK i \in 1..Len(session.events) : e.id = Oldest(session) + i
          BY <1>13, <2>1
        <5> QED
          BY <1>13, <2>1, <2>3, <4>2, <5>1, StreamAssumption
      <4> QED
        BY <4>1, <4>2, <4>3
    <3>2. e \in now
      BY <2>8, <2>11, <3>1
    <3> QED
      BY <2>9, <3>2
  <2> QED
    BY <2>7, <2>9, <2>10, <2>11
<1> QED
  BY <1>7, <1>8, <1>11, <1>14, <1>15

-----------------------------------------------------------------------------
(* The theorems *)

LEMMA InitStream == Init => StreamInv
<1> SUFFICES ASSUME Init PROVE StreamInv
  OBVIOUS
<1>1. PICK fresh, types :
        /\ fresh = Fresh("queued")
        /\ types = <<"queue_position", "queue_position", "job_queued", "queue_position">>
  OBVIOUS
<1>2. types \in Seq(EventTypes) /\ types # <<>> /\ Len(types) = 4
  BY <1>1 DEF EventTypes
<1>3. "queued" \in States /\ "queued" \notin Terminal /\ "queued" \in Statuses
  BY DEF States, Terminal, Statuses
<1>4. /\ fresh \in Sessions /\ Kept(fresh) /\ ~fresh.completedAt /\ fresh.state \notin Terminal
      /\ fresh.nextEventId = 1
  BY <1>1, <1>3, FreshKept
<1>5. session = AppendAll(fresh, types)
  BY <1>1 DEF Init, InitServer
<1>6. /\ session \in Sessions /\ ~session.completedAt /\ session.state \notin Terminal
      /\ Extends(session, fresh, types) /\ session.nextEventId = 1 + Len(types)
  <2>1. /\ AppendAll(fresh, types).nextEventId = fresh.nextEventId + Len(types)
        /\ AppendAll(fresh, types).events = LastOf(fresh.events \o Events(fresh, types))
        /\ AppendAll(fresh, types).completedAt = fresh.completedAt
        /\ AppendAll(fresh, types) \in Sessions
        /\ AppendAll(fresh, types).state \notin Terminal
    BY <1>2, <1>4, Appended
  <2> QED
    BY <1>4, <1>5, <2>1 DEF Extends
<1>7. Kept(session)
  BY <1>2, <1>4, <1>6, AppendKeeps
<1>8. /\ status = "queued" /\ listening = FALSE /\ channel = <<>> /\ stopping = FALSE /\ restarts = 0
      /\ source = None /\ lastEventId = 0 /\ refresh = "asked"
      /\ view = [session |-> None, events |-> {}, connection |-> "connecting"]
      /\ drops = 0 /\ heard = 0 /\ skipped = 0
  BY DEF Init, InitServer
<1>9. Types
  <2>1. channel \in Seq(Messages) /\ heard <= restarts
    BY <1>8
  <2>2. view \in [session : States \union {None}, events : SUBSET Messages,
                  connection : {"connecting", "live", "reconnecting", "disconnected", "complete"}]
    BY <1>8
  <2> QED
    BY <1>3, <1>6, <1>8, <2>1, <2>2 DEF Types
<1>10. JobInv /\ KeptInv /\ ChannelInv
  BY <1>3, <1>6, <1>7, <1>8, SessionAssumption
     DEF JobInv, SessionEndsAsJob, KeptInv, ChannelInv, None
<1>11. PositionInv
  <2>1. lastEventId < session.nextEventId
    BY <1>2, <1>6, <1>8
  <2> QED
    BY <1>6, <1>8, <2>1 DEF PositionInv, None
<1>12. ShownInv
  <2>1. /\ session.events \in Seq(Messages) /\ \A i \in DOMAIN session.events : session.events[i].id > 0
    <3>1. session.events \in Seq(Messages) /\ session.nextEventId \in Nat
      BY <1>6 DEF Sessions
    <3>2. /\ \A i \in DOMAIN session.events :
               session.events[i].id = session.nextEventId - 1 - Len(session.events) + i
          /\ session.nextEventId - 1 - Len(session.events) >= 0
      BY <1>7 DEF Kept, Numbered, Oldest
    <3>3. DOMAIN session.events = 1..Len(session.events) /\ Len(session.events) \in Nat
      BY <3>1, LenProperties
    <3> QED
      BY <3>1, <3>2, <3>3
  <2>2. \A e \in ToSet(session.events) : e.id > 0 /\ e \in Messages
    BY <2>1, ElementOfSeq, LenProperties DEF ToSet
  <2>3. \A e \in ToSet(session.events) : ~(e.id <= 0)
    BY <2>2 DEF Messages
  <2>4. view.events = {} /\ IsFiniteSet({})
    BY <1>8, FS_EmptySet
  <2> QED
    BY <1>8, <2>3, <2>4 DEF ShownInv
<1> QED
  BY <1>9, <1>10, <1>11, <1>12 DEF StreamInv

LEMMA NextStream == StreamInv /\ [Next]_vars => StreamInv'
<1> SUFFICES ASSUME StreamInv, [Next]_vars PROVE StreamInv'
  OBVIOUS
<1>1. CASE ServerNext /\ UNCHANGED client
  BY <1>1, ReportingSteps, EndingSteps, QuietServerSteps DEF ServerNext
<1>2. CASE AnswerRefresh \/ ReceiveRefresh
  BY <1>2, RefreshKeeps
<1>3. CASE Open
  BY <1>3, OpenKeeps
<1>4. CASE OpenRefused \/ Drop
  BY <1>4, ConnectionKeeps
<1>5. CASE Restart
  BY <1>5, RestartKeeps
<1>6. CASE HandleSnapshot
  BY <1>6, SnapshotKeeps
<1>7. CASE HandleEvent
  BY <1>7, EventKeeps
<1>8. CASE UNCHANGED vars
  BY <1>8 DEF vars, server, client, StreamInv, Types, JobInv, SessionEndsAsJob, KeptInv, ChannelInv,
              PositionInv, ShownInv, Original, Following, SnapshotFirst
<1> QED
  BY <1>1, <1>2, <1>3, <1>4, <1>5, <1>6, <1>7, <1>8 DEF Next

LEMMA StreamInvariant == Spec => []StreamInv
  BY InitStream, NextStream, PTL DEF Spec

\* What a connected page has read and what is on its way to it are the events of
\* the session without a gap or a repetition, up to the latest of them, whatever
\* streamEvents() had to replay or to stand a snapshot for.
THEOREM StreamContiguous == Spec => []StreamIsContiguous
<1>1. StreamInv => StreamIsContiguous
  <2> SUFFICES ASSUME StreamInv, source = "open", listening, heard = restarts, Original
               PROVE  /\ \A i \in 1..Len(channel) :
                            \/ channel[i].id = (IF i = 1 THEN lastEventId ELSE channel[i - 1].id) + 1
                            \/ i = 1 /\ channel[1].type = "session_snapshot"
                      /\ (IF channel = <<>> THEN lastEventId ELSE Last(channel).id)
                           = session.nextEventId - 1
    BY DEF StreamIsContiguous
  <2>1. PICK next, l : next = session.nextEventId /\ l = Len(channel)
    OBVIOUS
  <2>2. /\ session \in Sessions /\ channel \in Seq(Messages) /\ Streamed(channel, session)
        /\ lastEventId \in Nat
    BY DEF StreamInv, Types, ChannelInv
  <2>3. /\ next \in Nat /\ l \in Nat /\ DOMAIN channel = 1..l
        /\ \A i \in 1..l : channel[i].id = next - 1 - l + i
    BY <2>1, <2>2, LenProperties DEF Sessions, Streamed, Numbered
  <2>4. ~SnapshotFirst => lastEventId = next - 1 - l
    BY <2>1 DEF StreamInv, PositionInv, Following
  <2>5. ASSUME NEW i \in 1..l
        PROVE  \/ channel[i].id = (IF i = 1 THEN lastEventId ELSE channel[i - 1].id) + 1
               \/ i = 1 /\ channel[1].type = "session_snapshot"
    <3>1. CASE i = 1
      <4>1. channel # <<>>
        BY <2>1, <2>3, EmptySeq
      <4> QED
        BY <2>3, <2>4, <3>1, <4>1 DEF SnapshotFirst
    <3>2. CASE i # 1
      <4>1. i - 1 \in 1..l
        BY <2>3, <3>2
      <4>2. channel[i].id = next - 1 - l + i /\ channel[i - 1].id = next - 1 - l + (i - 1)
        BY <2>3, <4>1
      <4> QED
        BY <2>3, <3>2, <4>2
    <3> QED
      BY <3>1, <3>2
  <2>6. (IF channel = <<>> THEN lastEventId ELSE Last(channel).id) = next - 1
    <3>1. CASE channel = <<>>
      <4>1. l = 0 /\ ~SnapshotFirst
        BY <2>1, <3>1, EmptySeq DEF SnapshotFirst
      <4> QED
        BY <2>3, <2>4, <3>1, <4>1
    <3>2. CASE channel # <<>>
      <4>1. l \in 1..l
        BY <2>1, <2>2, <2>3, <3>2, EmptySeq
      <4>2. Last(channel).id = next - 1 - l + l
        BY <2>1, <2>3, <4>1 DEF Last
      <4> QED
        BY <2>3, <3>2, <4>2
    <3> QED
      BY <3>1, <3>2
  <2> QED
    BY <2>1, <2>5, <2>6
<1> QED
  BY <1>1, StreamInvariant, PTL

\* Before a restart of the Router, the page shows every event that it has got past,
\* that the session still keeps and that is among the last PageLimit, unless a
\* snapshot stood for it: neither limit depends on the other.
THEOREM SeenShown == Spec => []SeenEventsAreShown
<1>1. StreamInv => SeenEventsAreShown
  <2> SUFFICES ASSUME StreamInv, restarts = 0, session # NoSession
               PROVE  \A e \in ToSet(session.events) :
                         skipped < e.id /\ e.id <= lastEventId /\ lastEventId - e.id < PageLimit
                           => e \in view.events
    BY DEF SeenEventsAreShown
  <2>1. CASE Original
    BY <2>1 DEF StreamInv, ShownInv
  <2>2. CASE ~Original
    <3>1. /\ session \in Sessions /\ Kept(session)
          /\ session.nextEventId = 1
      BY <2>2 DEF StreamInv, Types, JobInv, KeptInv, Original
    <3>2. Len(session.events) = 0
      <4>1. session.events \in Seq(Messages) /\ 1 - 1 - Len(session.events) >= 0
        BY <3>1 DEF Sessions, Kept, Oldest
      <4> QED
        BY <4>1, LenProperties
    <3>3. ToSet(session.events) = {}
      <4>1. session.events \in Seq(Messages)
        BY <3>1 DEF Sessions
      <4>2. DOMAIN session.events = {}
        BY <3>2, <4>1, LenProperties
      <4> QED
        BY <4>2 DEF ToSet
    <3> QED
      BY <3>3
  <2> QED
    BY <2>1, <2>2
<1> QED
  BY <1>1, StreamInvariant, PTL

\* A page that is connected and has nothing more to read shows how a finished run
\* ended: the terminal event was among what it read, or a snapshot told it.
THEOREM QuietCurrent == Spec => []QuietViewIsCurrent
<1>1. StreamInv => QuietViewIsCurrent
  <2> SUFFICES ASSUME StreamInv, Quiet, heard = restarts, session.completedAt
               PROVE  view.session = session.state
    BY DEF QuietViewIsCurrent
  <2>1. Following /\ Original /\ source = "open" /\ channel = <<>> /\ listening
    BY DEF StreamInv, Quiet, Following, Original, ChannelInv
  <2>2. lastEventId = session.nextEventId - 1 - Len(channel)
    BY <2>1 DEF StreamInv, PositionInv, SnapshotFirst
  <2>3. Len(channel) = 0 /\ session.nextEventId \in Nat
    BY <2>1 DEF StreamInv, Types, Original, Sessions
  <2>4. lastEventId = session.nextEventId - 1
    BY <2>2, <2>3
  <2> QED
    BY <2>1, <2>4 DEF StreamInv, PositionInv
<1> QED
  BY <1>1, StreamInvariant, PTL

\* A Job that has not ended has a session, and the session of one that has ended
\* shows that end, across cancellation, expiry, shutdown and restart.
THEOREM SessionEnds == Spec => []SessionEndsAsJob
<1>1. StreamInv => SessionEndsAsJob
  BY DEF StreamInv, JobInv
<1> QED
  BY <1>1, StreamInvariant, PTL

=============================================================================
