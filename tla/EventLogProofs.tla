--------------------------- MODULE EventLogProofs ---------------------------
(****************************************************************************)
(* What holds of the event log for any window, any number of appends and of *)
(* crashes.                                                                 *)
(*                                                                          *)
(* LInv relates the four readings of one history: the lines of the file,    *)
(* the record the service counts, what was acknowledged, and what a replay  *)
(* has collected.  As long as every line has one document (Single), the     *)
(* lines ended are exactly the acknowledged events; when a document went    *)
(* behind one cut short, its line reads as no event, and ids still          *)
(* increase along the lines that do.                                        *)
(*                                                                          *)
(* The lemmas come in that order: the events of a list of lines and of two  *)
(* lists joined, how a file changes with each write (FileBehind,            *)
(* FileCompleted, FileEnded), what a replay gets when it reads on (ReadsOn, *)
(* ReadsTheRest), what an unbroken file reads as (SingleReads), the window  *)
(* and its page (PushKeepsLast, PageOfWindow), and then one lemma for each  *)
(* action.                                                                  *)
(****************************************************************************)
EXTENDS EventLog, SortedSequences

-----------------------------------------------------------------------------
(* The inductive invariant.                                                 *)

(* Each line has one document, whole or not.                                *)
Single(f) == \A i \in DOMAIN f : Len(f[i].fragments) = 1

(* The lines that hold an event, and the event.                             *)
Good(f) == {i \in DOMAIN f : Reading(f[i]) = "event"}

EventAt(f, i) == f[i].fragments[1].event

(* The lines that were ended.                                               *)
Complete(f) == IF Unterminated(f) THEN Len(f) - 1 ELSE Len(f)

(* What every file that is ever read is like.                               *)
FileOK(f) ==
  /\ f \in Seq(Line)
  /\ \A i \in DOMAIN f : Len(f[i].fragments) # 0
  /\ \A i \in DOMAIN f : i # Len(f) => f[i].ended
  /\ \A i, j \in Good(f) : i < j => EventAt(f, i).id < EventAt(f, j).id

(* If nothing went behind a document cut short, the lines ended are the     *)
(* acknowledged events.                                                     *)
WholeLine(e) == [fragments |-> <<[event |-> e, text |-> "whole"]>>, ended |-> TRUE]

Acknowledges(f, acked) ==
  Single(f) => /\ Complete(f) =< Len(acked)
               /\ \A i \in 1..Complete(f) : f[i] = WholeLine(acked[i])

(* How a file grows.                                                        *)
GrownTo(old, new) ==
  /\ Len(old) =< Len(new)
  /\ \A i \in DOMAIN old : Len(old[i].fragments) =< Len(new[i].fragments)
  /\ Single(new) => \A i \in DOMAIN old :
       /\ old[i].ended => new[i] = old[i]
       /\ old[i].fragments[1].text = "whole" => new[i].fragments = old[i].fragments

(* Ids are numbered by the appends begun.                                   *)
IdsUpTo(f, b) ==
  \A i \in DOMAIN f : \A k \in DOMAIN f[i].fragments :
    f[i].fragments[k].event.id =< b

(* What was written last.                                                   *)
LastFragment(f) == f[Len(f)].fragments[Len(f[Len(f)].fragments)]

(* The last document is not there as a whole.                               *)
Short(f) == Unterminated(f) /\ LastFragment(f).text # "whole"

(* lines, read so far, tell what a reader of the file would know.           *)
Follows(lines, f) ==
  ReadLines(lines).ok =>
    /\ EventsOf(lines) = EventsOf(f)
    /\ Short(f) => /\ lines # <<>>
                   /\ Reading(lines[Len(lines)]) \notin {"event", "blank"}

(* The kinds of things in the state; what is not up has nothing in memory.  *)
Types ==
  /\ process \in {"up", "down", "refused"}
  /\ appends \in 0..MaxAppends
  /\ inner \in [next_id : 0..appends, total_events : Nat, events : Seq(Event)]
  /\ writer \in [stage : {"idle", "opened", "begun", "written"},
                 event : Event \cup {NoEvent}]
  /\ reader \in [stage : {"idle", "reading", "done"}, seen : Seq(Line),
                 lines : Seq(Line), acknowledged : Nat]
  /\ recorded \in Seq(Event) /\ acknowledged \in Seq(Event)
  /\ process # "up" => /\ inner = Empty /\ writer = Idle
                       /\ reader = NoReader /\ recorded = <<>>

(* The file, and what the append under way has written to it.               *)
Writing ==
  /\ FileOK(file)
  /\ IdsUpTo(file, appends)
  /\ writer.stage # "idle" =>
       /\ writer.event \in Event /\ writer.event.id = inner.next_id
  /\ writer.stage \in {"begun", "written"} =>
       /\ Unterminated(file)
       /\ LastFragment(file).event = writer.event
       /\ LastFragment(file).text = "whole" <=> writer.stage = "written"

(* No id is used twice: whatever can be read back has an id the counter has *)
(* passed, and one below that of the append under way, unless it is that    *)
(* append's own document.                                                   *)
Numbered ==
  process = "up" =>
    /\ \A i \in Good(file) :
         /\ EventAt(file, i).id =< inner.next_id
         /\ writer.stage # "idle" =>
              \/ EventAt(file, i).id < writer.event.id
              \/ writer.stage = "written" /\ i = Len(file)
    /\ \A i \in DOMAIN recorded :
         /\ recorded[i].id =< inner.next_id
         /\ writer.stage # "idle" => recorded[i].id < writer.event.id

(* The window is the end of the record.                                     *)
Windowed ==
  /\ inner.total_events = Len(recorded)
  /\ inner.events = LastOf(recorded, WindowCapacity)

(* If no document went behind one cut short, what was acknowledged is there. *)
Kept ==
  /\ Acknowledges(file, acknowledged)
  /\ Single(file) => Complete(file) = Len(acknowledged)

(* What a replay has read is what it would have read at once, of the file as *)
(* it saw it last, or is refused.                                           *)
Reads ==
  reader.stage # "idle" =>
    /\ FileOK(reader.seen)
    /\ GrownTo(reader.seen, file)
    /\ Acknowledges(reader.seen, acknowledged)
    /\ Single(reader.seen) => reader.acknowledged =< Complete(reader.seen)
    /\ Single(file) => Follows(reader.lines, reader.seen)

LInv == Types /\ Writing /\ Numbered /\ Windowed /\ IdsIncrease /\ Kept /\ Reads

-----------------------------------------------------------------------------
(* The events of a list of lines.                                           *)

Below == {p \in Nat \X Nat : p[1] < p[2]}

(* s lists S, a set of numbers, from the least on.                          *)
Ascends(s) == \A j, k \in DOMAIN s : j < k => s[j] < s[k]

Lists(s, S) == s \in SetToSeqs(S) /\ Ascends(s)

(* The numbers of a set can be listed in one ascending order.               *)
LEMMA ListOnce ==
  ASSUME NEW S, IsFiniteSet(S), S \subseteq Nat
  PROVE  /\ \E s : Lists(s, S)
         /\ \A s, t : Lists(s, S) /\ Lists(t, S) => s = t
<1>1. StrictlyOrders(Below, S)
  BY DEF StrictlyOrders, Below
<1>2. \A s \in SetToSeqs(S) : Sorted(Below, s) <=> Ascends(s)
  <2> TAKE s \in SetToSeqs(S)
  <2>1. \A k \in DOMAIN s : s[k] \in Nat
    <3>1. s \in Seq(S)
      BY Listed
    <3>2. \A k \in DOMAIN s : s[k] \in S
      BY <3>1
    <3> QED
      BY <3>2
  <2>2. \A j, k \in DOMAIN s : <<s[j], s[k]>> \in Below <=> s[j] < s[k]
    BY <2>1 DEF Below
  <2> QED
    BY <2>2 DEF Sorted, Ascends
<1>3. \E s \in SetToSeqs(S) : Sorted(Below, s)
  BY <1>1, SortedExists
<1>4. \A s, t \in SetToSeqs(S) : Sorted(Below, s) /\ Sorted(Below, t) => s = t
  BY <1>1, SortedUnique
<1> QED
  BY <1>2, <1>3, <1>4 DEF Lists

(* The places of the good lines are finitely many numbers.                  *)
LEMMA GoodPlaces ==
  ASSUME NEW lines \in Seq(Line)
  PROVE  /\ Good(lines) \subseteq 1..Len(lines)
         /\ Good(lines) \subseteq Nat
         /\ IsFiniteSet(Good(lines))
<1>1. Len(lines) \in Nat /\ DOMAIN lines = 1..Len(lines)
  OBVIOUS
<1>2. Good(lines) \subseteq 1..Len(lines)
  BY <1>1 DEF Good
<1>3. IsFiniteSet(1..Len(lines))
  BY <1>1, FS_Interval
<1> QED
  BY <1>1, <1>2, <1>3, FS_Subset

(* Any ascending list of the good places gives the events.                  *)
LEMMA EventsFrom ==
  ASSUME NEW lines \in Seq(Line), NEW s, Lists(s, Good(lines))
  PROVE  EventsOf(lines) = [k \in DOMAIN s |-> EventAt(lines, s[k])]
<1> DEFINE chosen == CHOOSE t \in SetToSeqs(Good(lines)) :
                       \A j, k \in DOMAIN t : j < k => t[j] < t[k]
<1>1. EventsOf(lines) = [k \in DOMAIN chosen |-> EventAt(lines, chosen[k])]
  BY Zenon DEF EventsOf, Good, EventAt
<1>2. Lists(chosen, Good(lines))
  BY DEF Lists, Ascends
<1> HIDE DEF chosen
<1>3. chosen = s
  BY <1>2, GoodPlaces, ListOnce
<1> QED
  BY <1>1, <1>3

(* A good line has one document, which is an event.                         *)
LEMMA GoodLine ==
  ASSUME NEW lines \in Seq(Line), NEW i \in Good(lines)
  PROVE  /\ i \in 1..Len(lines)
         /\ Len(lines[i].fragments) = 1
         /\ lines[i].fragments[1].text = "whole"
         /\ EventAt(lines, i) \in Event
<1>1. i \in 1..Len(lines) /\ i \in DOMAIN lines /\ Reading(lines[i]) = "event"
  BY DEF Good
<1>2. lines[i] \in Line
  BY <1>1
<1> DEFINE line == lines[i]
<1>3. line.fragments \in Seq(Fragment)
  BY <1>2 DEF Line
<1> HIDE DEF line
<1>4. Reading(line) = "event"
  BY <1>1 DEF line
<1>5. Len(line.fragments) = 1 /\ line.fragments[1].text = "whole"
  BY <1>4 DEF Reading
<1>6. line.fragments[1] \in Fragment
  BY <1>3, <1>5
<1>7. line.fragments[1].event \in Event
  BY <1>6 DEF Fragment
<1> QED
  BY <1>1, <1>5, <1>7 DEF line, EventAt

(* So the events are listed.                                                *)
LEMMA EventsListed ==
  ASSUME NEW lines \in Seq(Line)
  PROVE  \E s : /\ Lists(s, Good(lines))
                /\ s \in Seq(Good(lines))
                /\ EventsOf(lines) \in Seq(Event)
                /\ Len(EventsOf(lines)) = Len(s)
                /\ \A k \in 1..Len(s) : /\ s[k] \in Good(lines)
                                        /\ EventsOf(lines)[k] = EventAt(lines, s[k])
<1>1. PICK s : Lists(s, Good(lines))
  BY GoodPlaces, ListOnce
<1>2. EventsOf(lines) = [k \in DOMAIN s |-> EventAt(lines, s[k])]
  BY <1>1, EventsFrom
<1>3. s \in Seq(Good(lines))
  BY <1>1, GoodPlaces, Listed DEF Lists
<1>4. \A k \in 1..Len(s) : s[k] \in Good(lines)
  BY <1>3
<1>5. \A k \in 1..Len(s) : EventAt(lines, s[k]) \in Event
  BY <1>4, GoodLine
<1>6. EventsOf(lines) = [k \in 1..Len(s) |-> EventAt(lines, s[k])]
  BY <1>2, <1>3
<1>7. EventsOf(lines) \in Seq(Event) /\ Len(EventsOf(lines)) = Len(s)
  <2>1. Len(s) \in Nat
    BY <1>3
  <2> QED
    BY <1>5, <1>6, <2>1
<1> QED
  BY <1>1, <1>3, <1>4, <1>6, <1>7

(* No good line, no event.                                                  *)
LEMMA NoEvents ==
  ASSUME NEW lines \in Seq(Line), Good(lines) = {}
  PROVE  EventsOf(lines) = <<>>
<1>1. PICK s : /\ s \in Seq(Good(lines))
               /\ EventsOf(lines) \in Seq(Event)
               /\ Len(EventsOf(lines)) = Len(s)
               /\ \A k \in 1..Len(s) : s[k] \in Good(lines)
  BY EventsListed
<1>2. Len(s) \in Nat /\ ~(1 \in 1..Len(s))
  BY <1>1
<1>3. Len(s) = 0
  BY <1>2
<1> QED
  BY <1>1, <1>3

(* Good lines only: each gives its event.                                   *)
LEMMA EachAnEvent ==
  ASSUME NEW lines \in Seq(Line), Good(lines) = 1..Len(lines)
  PROVE  EventsOf(lines) = [k \in 1..Len(lines) |-> EventAt(lines, k)]
<1> DEFINE n == Len(lines)
           places == [k \in 1..n |-> k]
<1>1. n \in Nat /\ Good(lines) = 1..n
  OBVIOUS
<1> HIDE DEF n
<1>2. /\ places \in Seq(1..n) /\ Len(places) = n /\ DOMAIN places = 1..n
      /\ \A k \in 1..n : places[k] = k
  BY <1>1
<1> HIDE DEF places
<1>3. places \in SetToSeqs(1..n)
  BY <1>2, ListsAll
<1>4. Lists(places, Good(lines))
  BY <1>1, <1>2, <1>3 DEF Lists, Ascends
<1>5. EventsOf(lines) = [k \in DOMAIN places |-> EventAt(lines, places[k])]
  BY <1>4, EventsFrom
<1> QED
  BY <1>2, <1>5 DEF n

(* The good lines of two lists put together.                                *)
LEMMA GoodConcat ==
  ASSUME NEW a \in Seq(Line), NEW b \in Seq(Line)
  PROVE  Good(a \o b) = Good(a) \cup {i + Len(a) : i \in Good(b)}
<1> DEFINE n == Len(a)
           m == Len(b)
           c == a \o b
<1>1. /\ n \in Nat /\ m \in Nat /\ DOMAIN a = 1..n /\ DOMAIN b = 1..m
      /\ DOMAIN c = 1..(n + m)
      /\ \A i \in 1..n : c[i] = a[i]
      /\ \A i \in 1..m : c[i + n] = b[i]
  BY ConcatProperties
<1> HIDE DEF n, m, c
<1>2. \A i \in 1..n : i \in Good(c) <=> i \in Good(a)
  BY <1>1 DEF Good
<1>3. \A i \in 1..m : i + n \in Good(c) <=> i \in Good(b)
  BY <1>1 DEF Good
<1>4. Good(c) \subseteq 1..(n + m) /\ Good(a) \subseteq 1..n /\ Good(b) \subseteq 1..m
  BY <1>1 DEF Good
<1>5. ASSUME NEW i \in Good(c), ~(i \in 1..n)
      PROVE  i \in {j + n : j \in Good(b)}
  <2>1. i - n \in 1..m /\ (i - n) + n = i
    BY <1>1, <1>4, <1>5
  <2>2. i - n \in Good(b)
    BY <1>3, <1>5, <2>1
  <2> QED
    BY <2>1, <2>2
<1>6. ASSUME NEW j \in Good(b)
      PROVE  j + n \in Good(c)
  BY <1>3, <1>4
<1>7. Good(c) = Good(a) \cup {j + n : j \in Good(b)}
  BY <1>1, <1>2, <1>4, <1>5, <1>6
<1> QED
  BY <1>7 DEF n, c

(* Reading two lists one after the other gives the events of both.          *)
LEMMA EventsConcat ==
  ASSUME NEW a \in Seq(Line), NEW b \in Seq(Line)
  PROVE  EventsOf(a \o b) = EventsOf(a) \o EventsOf(b)
<1> DEFINE n == Len(a)
           c == a \o b
<1>1. PICK s : /\ Lists(s, Good(a)) /\ s \in Seq(Good(a))
               /\ EventsOf(a) \in Seq(Event) /\ Len(EventsOf(a)) = Len(s)
               /\ \A k \in 1..Len(s) : /\ s[k] \in Good(a)
                                       /\ EventsOf(a)[k] = EventAt(a, s[k])
  BY EventsListed
<1>2. PICK t : /\ Lists(t, Good(b)) /\ t \in Seq(Good(b))
               /\ EventsOf(b) \in Seq(Event) /\ Len(EventsOf(b)) = Len(t)
               /\ \A k \in 1..Len(t) : /\ t[k] \in Good(b)
                                       /\ EventsOf(b)[k] = EventAt(b, t[k])
  BY EventsListed
<1> DEFINE p == Len(s)
           q == Len(t)
           u == [k \in 1..(p + q) |-> IF k <= p THEN s[k] ELSE t[k - p] + n]
<1>3. n \in Nat /\ p \in Nat /\ q \in Nat /\ DOMAIN s = 1..p /\ DOMAIN t = 1..q
  BY <1>1, <1>2
<1>4. c \in Seq(Line) /\ Good(c) = Good(a) \cup {i + n : i \in Good(b)}
  BY GoodConcat
<1>5. Good(a) \subseteq 1..n /\ Good(b) \subseteq Nat \ {0}
  BY GoodPlaces
<1>6. /\ \A j, k \in 1..p : j < k => s[j] < s[k]
      /\ \A j, k \in 1..q : j < k => t[j] < t[k]
  BY <1>1, <1>2, <1>3 DEF Lists, Ascends
<1>7. /\ \A i \in Good(a) : \E k \in 1..p : s[k] = i
      /\ \A i \in Good(b) : \E k \in 1..q : t[k] = i
  <2>1. \A S, r : IsFiniteSet(S) /\ r \in SetToSeqs(S) =>
                   \A i \in S : \E k \in DOMAIN r : r[k] = i
    BY Listed
  <2>2. IsFiniteSet(Good(a)) /\ s \in SetToSeqs(Good(a))
    BY <1>1, GoodPlaces DEF Lists
  <2>3. IsFiniteSet(Good(b)) /\ t \in SetToSeqs(Good(b))
    BY <1>2, GoodPlaces DEF Lists
  <2> HIDE DEF p, q, n, c
  <2> QED
    BY <1>3, <2>1, <2>2, <2>3
<1>a. /\ \A k \in 1..p : s[k] \in Good(a)
      /\ \A k \in 1..q : t[k] \in Good(b)
  BY <1>1, <1>2
<1>b. /\ \A k \in 1..p : c[s[k]] = a[s[k]]
      /\ \A k \in 1..q : c[t[k] + n] = b[t[k]]
  <2>1. \A i \in 1..n : c[i] = a[i]
    BY ConcatProperties
  <2>2. \A i \in 1..Len(b) : c[i + n] = b[i]
    BY ConcatProperties
  <2> HIDE DEF c, n
  <2>3. Good(b) \subseteq 1..Len(b)
    BY GoodPlaces
  <2> QED
    BY <1>5, <1>a, <2>1, <2>2, <2>3
<1> HIDE DEF n, p, q, c
<1>8. \A k \in 1..p : k \in 1..(p + q) /\ u[k] = s[k]
  BY <1>3
<1>9. \A k \in 1..q : k + p \in 1..(p + q) /\ u[k + p] = t[k] + n
  BY <1>3
<1>10. \A k \in 1..(p + q) : k \in 1..p \/ (k - p \in 1..q /\ u[k] = t[k - p] + n)
  BY <1>3
<1>11. u \in Seq(Good(c)) /\ Len(u) = p + q /\ DOMAIN u = 1..(p + q)
  <2>1. \A k \in 1..(p + q) : u[k] \in Good(c)
    BY <1>4, <1>8, <1>10, <1>a
  <2> QED
    BY <1>3, <2>1
<1> HIDE DEF u
<1>12. \A j, k \in 1..(p + q) : j < k => u[j] < u[k]
  <2> SUFFICES ASSUME NEW j \in 1..(p + q), NEW k \in 1..(p + q), j < k
               PROVE  u[j] < u[k]
    OBVIOUS
  <2>1. CASE k \in 1..p
    <3>1. j \in 1..p
      BY <1>3, <2>1
    <3> QED
      BY <1>6, <1>8, <2>1, <3>1
  <2>2. CASE j \in 1..p /\ ~(k \in 1..p)
    <3>1. k - p \in 1..q /\ u[k] = t[k - p] + n
      BY <1>10, <2>2
    <3>2. u[j] \in 1..n /\ t[k - p] \in Nat \ {0}
      BY <1>5, <1>8, <1>a, <2>2, <3>1
    <3> QED
      BY <1>3, <3>1, <3>2
  <2>3. CASE ~(j \in 1..p)
    <3>1. k - p \in 1..q /\ u[k] = t[k - p] + n
      BY <1>3, <1>10, <2>3
    <3>2. j - p \in 1..q /\ u[j] = t[j - p] + n
      BY <1>10, <2>3
    <3>3. t[j - p] < t[k - p]
      BY <1>3, <1>6, <3>1, <3>2
    <3>4. t[j - p] \in Nat /\ t[k - p] \in Nat
      BY <1>5, <1>a, <3>1, <3>2
    <3> QED
      BY <1>3, <3>1, <3>2, <3>3, <3>4
  <2> QED
    BY <2>1, <2>2, <2>3
<1>13. \A x \in Good(c) : \E k \in 1..(p + q) : u[k] = x
  <2> TAKE x \in Good(c)
  <2>1. CASE x \in Good(a)
    BY <1>7, <1>8, <2>1
  <2>2. CASE x \in {i + n : i \in Good(b)}
    <3>1. PICK i \in Good(b) : x = i + n
      BY <2>2
    <3>2. PICK k \in 1..q : t[k] = i
      BY <1>7
    <3> QED
      BY <1>9, <3>1, <3>2
  <2> QED
    BY <1>4, <2>1, <2>2
<1>14. \A j, k \in 1..(p + q) : j # k => u[j] # u[k]
  <2>1. \A k \in 1..(p + q) : u[k] \in Nat
    BY <1>4, <1>11, GoodPlaces
  <2>2. SUFFICES ASSUME NEW j \in 1..(p + q), NEW k \in 1..(p + q), j # k
                 PROVE  u[j] # u[k]
    OBVIOUS
  <2>3. j < k \/ k < j
    BY <1>3, <2>2
  <2> QED
    BY <1>12, <2>1, <2>3
<1>15. Lists(u, Good(c))
  BY <1>11, <1>12, <1>13, <1>14, ListsAll DEF Lists, Ascends
<1>16. EventsOf(c) = [k \in 1..(p + q) |-> EventAt(c, u[k])]
  BY <1>4, <1>11, <1>15, EventsFrom
<1>17. \A k \in 1..p : EventAt(c, u[k]) = EventsOf(a)[k]
  BY <1>1, <1>8, <1>b DEF p, EventAt
<1>18. \A k \in 1..q : EventAt(c, t[k] + n) = EventsOf(b)[k]
  BY <1>2, <1>b DEF q, EventAt
<1> DEFINE x == EventsOf(a)
           y == EventsOf(b)
<1>19. x \in Seq(Event) /\ y \in Seq(Event) /\ Len(x) = p /\ Len(y) = q
  BY <1>1, <1>2 DEF p, q
<1> HIDE DEF x, y
<1>20. /\ x \o y \in Seq(Event) /\ Len(x \o y) = p + q
       /\ \A k \in 1..(p + q) : (x \o y)[k] = IF k <= p THEN x[k] ELSE y[k - p]
  BY <1>19, ConcatProperties
<1>21. \A k \in 1..(p + q) : EventAt(c, u[k]) = (x \o y)[k]
  <2> TAKE k \in 1..(p + q)
  <2>1. CASE k \in 1..p
    BY <1>3, <1>17, <1>20, <2>1 DEF x
  <2>2. CASE ~(k \in 1..p)
    <3>1. k - p \in 1..q /\ u[k] = t[k - p] + n /\ ~(k <= p)
      BY <1>3, <1>10, <2>2
    <3> QED
      BY <1>18, <1>20, <3>1 DEF y
  <2> QED
    BY <2>1, <2>2
<1> DEFINE z == x \o y
<1>22. z \in Seq(Event) /\ Len(z) = p + q
  BY <1>20
<1>23. \A k \in 1..(p + q) : EventAt(c, u[k]) = z[k]
  BY <1>21
<1> HIDE DEF z
<1>24. z = [k \in 1..(p + q) |-> z[k]]
  BY <1>22
<1> QED
  BY <1>16, <1>23, <1>24 DEF x, y, c, z

-----------------------------------------------------------------------------
(* Files and how they change.                                               *)

(* What a line of one document reads as.                                    *)
LEMMA OneDocument ==
  ASSUME NEW line, Len(line.fragments) = 1, line.fragments # <<>>,
         DOMAIN line.fragments = {1}
  PROVE  /\ line.fragments[1].text = "whole" <=> Reading(line) = "event"
         /\ line.fragments[1].text = "cut" <=> Reading(line) = "unreadable"
         /\ line.fragments[1].text \notin {"whole", "cut"} <=> Reading(line) = "corrupt"
<1>1. (\E i \in DOMAIN line.fragments : line.fragments[i].text = "cut")
        <=> line.fragments[1].text = "cut"
  OBVIOUS
<1> QED
  BY <1>1 DEF Reading

(* A file is a sequence of lines, each with a document, ended but for the   *)
(* last; its good lines have increasing ids.                                *)
LEMMA FileShape ==
  ASSUME NEW f, FileOK(f)
  PROVE  /\ f \in Seq(Line) /\ Len(f) \in Nat /\ DOMAIN f = 1..Len(f)
         /\ f # <<>> => Len(f) \in 1..Len(f)
         /\ Len(f) # 0 => f # <<>>
  BY DEF FileOK

(* The parts of a line of a file.                                           *)
LEMMA LineParts ==
  ASSUME NEW f, FileOK(f), NEW i \in 1..Len(f)
  PROVE  /\ f[i] \in Line
         /\ f[i].fragments \in Seq(Fragment) /\ f[i].ended \in BOOLEAN
         /\ f[i] = [fragments |-> f[i].fragments, ended |-> f[i].ended]
         /\ Len(f[i].fragments) \in Nat \ {0}
         /\ DOMAIN f[i].fragments = 1..Len(f[i].fragments)
         /\ f[i].fragments[1] \in Fragment
         /\ f[i].fragments[Len(f[i].fragments)] \in Fragment
         /\ i # Len(f) => f[i].ended
<1> DEFINE line == f[i]
<1>1. line \in Line /\ Len(line.fragments) # 0 /\ (i # Len(f) => line.ended)
  BY DEF FileOK
<1> HIDE DEF line
<1>2. /\ line.fragments \in Seq(Fragment) /\ line.ended \in BOOLEAN
      /\ line = [fragments |-> line.fragments, ended |-> line.ended]
  BY <1>1 DEF Line
<1> DEFINE d == line.fragments
<1>3. d \in Seq(Fragment) /\ Len(d) # 0
  BY <1>1, <1>2
<1> HIDE DEF d
<1>4. /\ Len(d) \in Nat \ {0} /\ DOMAIN d = 1..Len(d)
      /\ d[1] \in Fragment /\ d[Len(d)] \in Fragment
  BY <1>3
<1> QED
  BY <1>1, <1>2, <1>4 DEF line, d

(* A file that has one document on each line had.                           *)
LEMMA SingleBefore ==
  ASSUME NEW f, NEW g, FileOK(f), FileOK(g), GrownTo(f, g), Single(g)
  PROVE  Single(f)
<1>1. ASSUME NEW i \in DOMAIN f
      PROVE  Len(f[i].fragments) = 1
  <2>1. i \in 1..Len(g) /\ i \in 1..Len(f)
    BY FileShape DEF GrownTo
  <2>2. Len(f[i].fragments) \in Nat \ {0} /\ Len(g[i].fragments) = 1
    BY <2>1, FileShape, LineParts DEF Single
  <2>3. Len(f[i].fragments) <= Len(g[i].fragments)
    BY DEF GrownTo
  <2> DEFINE before == Len(f[i].fragments)
             after == Len(g[i].fragments)
  <2>4. before \in Nat /\ before # 0 /\ after = 1 /\ before <= after
    BY <2>2, <2>3
  <2> HIDE DEF before, after
  <2>5. before = 1
    BY <2>4
  <2> QED
    BY <2>5 DEF before
<1> QED
  BY <1>1 DEF Single

(* Growing twice is growing.                                                *)
LEMMA GrowsOn ==
  ASSUME NEW f, NEW g, NEW h, FileOK(f), FileOK(g), FileOK(h),
         GrownTo(f, g), GrownTo(g, h)
  PROVE  GrownTo(f, h)
<1>1. Len(f) \in Nat /\ Len(g) \in Nat /\ Len(h) \in Nat
  BY FileShape
<1>2. DOMAIN f = 1..Len(f) /\ DOMAIN g = 1..Len(g)
  BY FileShape
<1>3. Len(f) <= Len(g) /\ Len(g) <= Len(h)
  BY DEF GrownTo
<1>4. Len(f) <= Len(h) /\ \A i \in DOMAIN f : i \in DOMAIN g /\ i \in 1..Len(h)
  BY <1>1, <1>2, <1>3
<1>5. ASSUME NEW i \in DOMAIN f
      PROVE  Len(f[i].fragments) <= Len(h[i].fragments)
  <2>1. /\ Len(f[i].fragments) \in Nat /\ Len(g[i].fragments) \in Nat
        /\ Len(h[i].fragments) \in Nat
    BY <1>2, <1>4, LineParts
  <2>2. /\ Len(f[i].fragments) <= Len(g[i].fragments)
        /\ Len(g[i].fragments) <= Len(h[i].fragments)
    BY <1>4 DEF GrownTo
  <2> QED
    BY <2>1, <2>2
<1>6. ASSUME Single(h), NEW i \in DOMAIN f
      PROVE  /\ f[i].ended => h[i] = f[i]
             /\ f[i].fragments[1].text = "whole" => h[i].fragments = f[i].fragments
  <2>1. Single(g)
    BY <1>6, SingleBefore
  <2>2. /\ f[i].ended => g[i] = f[i]
        /\ f[i].fragments[1].text = "whole" => g[i].fragments = f[i].fragments
    BY <2>1 DEF GrownTo
  <2>3. /\ g[i].ended => h[i] = g[i]
        /\ g[i].fragments[1].text = "whole" => h[i].fragments = g[i].fragments
    BY <1>4, <1>6 DEF GrownTo
  <2> QED
    BY <2>2, <2>3
<1> QED
  BY <1>4, <1>5, <1>6 DEF GrownTo

(* f with another last line.                                                *)
WithLast(f, line) == [f EXCEPT ![Len(f)] = line]

(* Changing the last line.                                                  *)
LEMMA LastLineChanged ==
  ASSUME NEW f, FileOK(f), f # <<>>, NEW line \in Line, NEW g,
         g = WithLast(f, line)
  PROVE  /\ g \in Seq(Line) /\ Len(g) = Len(f) /\ DOMAIN g = 1..Len(f)
         /\ Len(f) \in 1..Len(f)
         /\ \A i \in 1..Len(f) : i # Len(f) => g[i] = f[i]
         /\ g[Len(f)] = line
         /\ \A i \in 1..Len(f) : i # Len(f) => (i \in Good(g) <=> i \in Good(f))
<1>1. f \in Seq(Line) /\ Len(f) \in Nat /\ DOMAIN f = 1..Len(f)
  BY FileShape
<1>2. Len(f) \in 1..Len(f)
  BY <1>1
<1>3. g \in Seq(Line) /\ Len(g) = Len(f) /\ DOMAIN g = 1..Len(f)
  BY <1>1, <1>2, ExceptSeq DEF WithLast
<1>4. \A i \in 1..Len(f) : i # Len(f) => g[i] = f[i]
  BY <1>1 DEF WithLast
<1>5. g[Len(f)] = line
  BY <1>1, <1>2 DEF WithLast
<1>6. \A i \in 1..Len(f) : i # Len(f) => (i \in Good(g) <=> i \in Good(f))
  BY <1>1, <1>3, <1>4 DEF Good
<1> QED
  BY <1>2, <1>3, <1>4, <1>5, <1>6

(* Another document, or another end, makes another line.                    *)
LEMMA LineChanged ==
  ASSUME NEW line \in Line
  PROVE  /\ \A d : [line EXCEPT !.fragments = d] = [fragments |-> d, ended |-> line.ended]
         /\ \A e : [line EXCEPT !.ended = e] = [fragments |-> line.fragments, ended |-> e]
  BY DEF Line

(* g is f with one more document on its last line.                          *)
GoesOn(f, g, fragment) ==
  LET n == Len(f)
      old == f[n].fragments
      new == g[n].fragments
  IN /\ g \in Seq(Line) /\ Len(g) = n
     /\ \A i \in 1..n : i # n => g[i] = f[i]
     /\ new \in Seq(Fragment) /\ Len(new) = Len(old) + 1
     /\ \A k \in 1..Len(old) : new[k] = old[k]
     /\ new[Len(old) + 1] = fragment
     /\ ~g[n].ended

(* g is f with one more line, of one document.                              *)
Begins(f, g, fragment) ==
  LET n == Len(f)
  IN /\ g \in Seq(Line) /\ Len(g) = n + 1
     /\ \A i \in 1..n : g[i] = f[i]
     /\ g[n + 1].fragments = <<fragment>> /\ ~g[n + 1].ended

(* A second document goes on a line: the line is no event any more.         *)
LEMMA DocumentAdded ==
  ASSUME NEW f, FileOK(f), Unterminated(f), NEW g, NEW fragment \in Fragment,
         GoesOn(f, g, fragment),
         NEW b \in Nat, IdsUpTo(f, b), fragment.event.id <= b
  PROVE  /\ FileOK(g) /\ GrownTo(f, g) /\ IdsUpTo(g, b)
         /\ Unterminated(g) /\ LastFragment(g) = fragment
         /\ \A i \in Good(g) : i \in Good(f) /\ g[i] = f[i]
         /\ ~Single(g)
<1> DEFINE n == Len(f)
           old == f[n].fragments
           new == g[n].fragments
<1>0. /\ g \in Seq(Line) /\ Len(g) = n
      /\ \A i \in 1..n : i # n => g[i] = f[i]
      /\ new \in Seq(Fragment) /\ Len(new) = Len(old) + 1
      /\ \A k \in 1..Len(old) : new[k] = old[k]
      /\ new[Len(old) + 1] = fragment
      /\ ~g[n].ended
  BY Zenon DEF GoesOn
<1>1. /\ n \in Nat /\ DOMAIN f = 1..n /\ f # <<>> /\ DOMAIN g = 1..n
      /\ \A i \in 1..n : i # n => f[i].ended
      /\ \A i, j \in Good(f) : i < j => EventAt(f, i).id < EventAt(f, j).id
      /\ \A i \in 1..n : Len(f[i].fragments) # 0
  <2>1. n \in Nat /\ DOMAIN f = 1..n /\ f # <<>> /\ DOMAIN g = 1..n
    BY <1>0, FileShape DEF Unterminated
  <2> QED
    BY <2>1 DEF FileOK
<1>2. n \in 1..n
  BY <1>1, FileShape
<1>3. old \in Seq(Fragment) /\ Len(old) \in Nat \ {0} /\ DOMAIN old = 1..Len(old)
  BY ONLY FileOK(f), <1>2, LineParts
<1>4. g[n].fragments = new /\ Len(f) = n /\ f[n].fragments = old
  OBVIOUS
<1> HIDE DEF old, new, n
<1>5. /\ Len(new) \notin {0, 1} /\ new # <<>> /\ Len(old) <= Len(new)
      /\ new[Len(new)] = fragment
      /\ \A k \in DOMAIN new : k \in 1..Len(old) \/ k = Len(new)
  BY <1>0, <1>3, <1>4
<1>7. Reading(g[n]) # "event"
  BY <1>0, <1>4, <1>5 DEF Reading
<1>8. \A i \in Good(g) : i \in 1..n /\ i # n
  BY <1>0, <1>4, <1>1, <1>7 DEF Good
<1>9. \A i \in Good(g) : i \in Good(f) /\ g[i] = f[i]
  BY <1>0, <1>4, <1>1, <1>8 DEF Good
<1>10. \A i \in Good(g) : EventAt(g, i) = EventAt(f, i)
  BY <1>9 DEF EventAt
<1>11. FileOK(g)
  <2>1. \A i \in DOMAIN g : Len(g[i].fragments) # 0
    BY <1>0, <1>4, <1>1, <1>5
  <2>2. \A i \in DOMAIN g : i # Len(g) => g[i].ended
    BY <1>0, <1>4, <1>1
  <2>3. \A i, j \in Good(g) : i < j => EventAt(g, i).id < EventAt(g, j).id
    BY <1>0, <1>4, <1>1, <1>9, <1>10
  <2> QED
    BY <1>0, <1>4, <2>1, <2>2, <2>3 DEF FileOK
<1>12. ~Single(g)
  <2>1. n \in DOMAIN g /\ Len(g[n].fragments) # 1
    BY <1>0, <1>4, <1>1, <1>2, <1>5
  <2> QED
    BY <2>1 DEF Single
<1>13. GrownTo(f, g)
  <2>1. \A i \in DOMAIN f : Len(f[i].fragments) <= Len(g[i].fragments)
    <3> TAKE i \in DOMAIN f
    <3>1. CASE i = n
      BY <1>0, <1>4, <1>5, <3>1
    <3>2. CASE i # n
      <4>1. Len(f[i].fragments) \in Nat
        BY FileShape, LineParts
      <4>2. g[i] = f[i]
        BY <1>0, <1>4, <1>1, <3>2
      <4> QED
        BY <4>1, <4>2
    <3> QED
      BY <3>1, <3>2
  <2>2. Len(f) <= Len(g)
    BY <1>0, <1>4, <1>1
  <2> QED
    BY <1>12, <2>1, <2>2 DEF GrownTo
<1>14. IdsUpTo(g, b)
  <2>1. \A k \in DOMAIN new : new[k].event.id <= b
    <3>1. \A k \in DOMAIN old : old[k].event.id <= b
      BY <1>1, <1>2, <1>4 DEF IdsUpTo
    <3> QED
      BY <1>0, <1>3, <1>4, <1>5, <3>1
  <2>2. \A i \in 1..n : i # n =>
          \A k \in DOMAIN g[i].fragments : g[i].fragments[k].event.id <= b
    BY <1>0, <1>4, <1>1 DEF IdsUpTo
  <2>3. \A i \in DOMAIN g : i = n \/ (i \in 1..n /\ i # n)
    BY <1>0, <1>4, <1>1
  <2> QED
    BY <1>0, <1>4, <2>1, <2>2, <2>3 DEF IdsUpTo
<1>15. Unterminated(g) /\ LastFragment(g) = fragment
  <2>1. g # <<>>
    BY <1>0, <1>4, <1>1, <1>2
  <2> QED
    BY <1>0, <1>4, <1>5, <2>1 DEF Unterminated, LastFragment
<1> QED
  BY <1>9, <1>11, <1>12, <1>13, <1>14, <1>15

(* A document that is not whole begins a line.                              *)
LEMMA LineAdded ==
  ASSUME NEW f, FileOK(f), ~Unterminated(f), NEW fragment \in Fragment,
         NEW g, Begins(f, g, fragment), fragment.text # "whole",
         NEW b \in Nat, IdsUpTo(f, b), fragment.event.id <= b
  PROVE  /\ FileOK(g) /\ GrownTo(f, g) /\ IdsUpTo(g, b)
         /\ Unterminated(g) /\ LastFragment(g) = fragment
         /\ \A i \in Good(g) : i \in Good(f) /\ g[i] = f[i]
         /\ Complete(g) = Len(f)
         /\ \A i \in 1..Len(f) : g[i] = f[i]
<1> DEFINE n == Len(f)
<1>0. /\ g \in Seq(Line) /\ Len(g) = n + 1
      /\ \A i \in 1..n : g[i] = f[i]
      /\ g[n + 1].fragments = <<fragment>> /\ ~g[n + 1].ended
  BY Zenon DEF Begins
<1>1. /\ n \in Nat /\ DOMAIN f = 1..n /\ DOMAIN g = 1..(n + 1)
      /\ \A i \in 1..n : i # n => f[i].ended
      /\ \A i, j \in Good(f) : i < j => EventAt(f, i).id < EventAt(f, j).id
      /\ \A i \in 1..n : Len(f[i].fragments) # 0
  <2>1. n \in Nat /\ DOMAIN f = 1..n /\ DOMAIN g = 1..(n + 1)
    BY <1>0, FileShape
  <2> QED
    BY <2>1 DEF FileOK
<1> HIDE DEF n
<1>2. /\ n + 1 \in 1..(n + 1) /\ n + 1 # n /\ n <= n + 1 /\ (n + 1) - 1 = n
      /\ \A i \in 1..(n + 1) : i \in 1..n \/ i = n + 1
      /\ \A i \in 1..n : i \in 1..(n + 1)
  BY <1>1
<1> DEFINE last == g[n + 1]
           d == last.fragments
<1>3. d = <<fragment>> /\ ~last.ended
  BY <1>0
<1>4. /\ Len(d) = 1 /\ d # <<>> /\ DOMAIN d = {1} /\ d[1] = fragment /\ d[Len(d)] = fragment
  BY <1>3
<1> HIDE DEF last
<1>5. Reading(last) # "event"
  BY <1>4, OneDocument
<1>6. \A i \in Good(g) : i \in 1..n
  BY <1>1, <1>2, <1>5 DEF Good, last
<1>7. \A i \in Good(g) : i \in Good(f) /\ g[i] = f[i]
  BY <1>0, <1>1, <1>6 DEF Good
<1>8. \A i \in Good(g) : EventAt(g, i) = EventAt(f, i)
  BY <1>7 DEF EventAt
<1>9. \A i \in 1..n : f[i].ended
  <2>1. CASE n = 0
    BY <1>1, <2>1
  <2>2. CASE n # 0
    <3>1. f # <<>>
      BY <2>2, FileShape DEF n
    <3> QED
      BY <1>1, <3>1 DEF Unterminated, n
  <2> QED
    BY <2>1, <2>2
<1>10. FileOK(g)
  <2>1. \A i \in DOMAIN g : Len(g[i].fragments) # 0
    <3>1. Len(g[n + 1].fragments) # 0
      BY <1>4 DEF last
    <3>2. \A i \in 1..n : Len(g[i].fragments) # 0
      BY <1>0, <1>1
    <3> QED
      BY <1>1, <1>2, <3>1, <3>2
  <2>2. \A i \in DOMAIN g : i # Len(g) => g[i].ended
    BY <1>0, <1>1, <1>2, <1>9
  <2>3. \A i, j \in Good(g) : i < j => EventAt(g, i).id < EventAt(g, j).id
    BY <1>1, <1>7, <1>8
  <2> QED
    BY <1>0, <2>1, <2>2, <2>3 DEF FileOK
<1>11. GrownTo(f, g)
  <2>1. \A i \in 1..n : Len(f[i].fragments) <= Len(g[i].fragments)
    <3> TAKE i \in 1..n
    <3>1. Len(f[i].fragments) \in Nat
      BY LineParts DEF n
    <3>2. g[i] = f[i]
      BY <1>0
    <3> QED
      BY <3>1, <3>2
  <2>2. Len(f) <= Len(g)
    BY <1>0, <1>2 DEF n
  <2> QED
    BY <1>0, <1>1, <2>1, <2>2, Zenon DEF GrownTo
<1>12. IdsUpTo(g, b)
  <2>1. \A i \in 1..n : \A k \in DOMAIN g[i].fragments : g[i].fragments[k].event.id <= b
    BY <1>0, <1>1 DEF IdsUpTo
  <2>2. \A k \in DOMAIN d : d[k].event.id <= b
    BY <1>4
  <2> QED
    BY <1>1, <1>2, <2>1, <2>2 DEF IdsUpTo, last
<1>13. Unterminated(g)
  <2>1. g # <<>>
    BY <1>0, <1>1, <1>2
  <2> QED
    BY <1>0, <1>3, <2>1 DEF Unterminated, last
<1>14. LastFragment(g) = fragment
  BY <1>0, <1>4 DEF LastFragment, last
<1>15. Complete(g) = n
  BY <1>0, <1>2, <1>13 DEF Complete
<1> QED
  BY <1>0, <1>7, <1>10, <1>11, <1>12, <1>13, <1>14, <1>15 DEF n

(* What one piece of a document makes of a file: Behind of EventLog.        *)
BehindIn(f, fragment) ==
  IF Unterminated(f)
  THEN [f EXCEPT ![Len(f)].fragments = Append(@, fragment)]
  ELSE Append(f, [fragments |-> <<fragment>>, ended |-> FALSE])

(* A document written behind what is there, not whole yet.                  *)
LEMMA FileBehind ==
  ASSUME NEW f, FileOK(f), NEW fragment \in Fragment, fragment.text # "whole",
         NEW b \in Nat, IdsUpTo(f, b), fragment.event.id <= b, NEW g,
         g = BehindIn(f, fragment)
  PROVE  /\ FileOK(g) /\ GrownTo(f, g) /\ IdsUpTo(g, b)
         /\ Unterminated(g) /\ LastFragment(g) = fragment
         /\ \A i \in Good(g) : i \in Good(f) /\ g[i] = f[i]
         /\ Single(g) => /\ ~Unterminated(f) /\ Complete(g) = Len(f)
                         /\ \A i \in 1..Len(f) : g[i] = f[i]
<1>1. f \in Seq(Line) /\ Len(f) \in Nat /\ DOMAIN f = 1..Len(f)
  BY FileShape
<1>2. CASE Unterminated(f)
  <2> DEFINE new == Append(f[Len(f)].fragments, fragment)
             line == [fragments |-> new, ended |-> FALSE]
  <2>1. f # <<>> /\ Len(f) \in 1..Len(f) /\ ~f[Len(f)].ended
    BY <1>1, <1>2 DEF Unterminated
  <2>2. f[Len(f)] \in Line /\ f[Len(f)].ended = FALSE /\ f[Len(f)].fragments \in Seq(Fragment)
    BY <2>1, LineParts
  <2>3. new \in Seq(Fragment)
    BY <2>2, AppendProperties
  <2>4. [f[Len(f)] EXCEPT !.fragments = new] = line
    <3> HIDE DEF new
    <3> QED
      BY <2>2, LineChanged, Zenon
  <2>5. g = [f EXCEPT ![Len(f)] = [f[Len(f)] EXCEPT !.fragments = new]]
    BY <1>2 DEF BehindIn
  <2>6. g = [f EXCEPT ![Len(f)] = line]
    BY <2>4, <2>5
  <2> HIDE DEF new
  <2>7. line \in Line
    BY <2>3 DEF Line
  <2> HIDE DEF line
  <2>8. /\ g \in Seq(Line) /\ Len(g) = Len(f)
        /\ \A i \in 1..Len(f) : i # Len(f) => g[i] = f[i]
        /\ g[Len(f)] = line
    <3>1. g = WithLast(f, line) /\ f # <<>>
      BY <2>1, <2>6 DEF WithLast
    <3> QED
      BY ONLY FileOK(f), <2>7, <3>1, LastLineChanged
  <2>9. /\ Len(new) = Len(f[Len(f)].fragments) + 1
        /\ \A k \in 1..Len(f[Len(f)].fragments) : new[k] = f[Len(f)].fragments[k]
        /\ new[Len(f[Len(f)].fragments) + 1] = fragment
    BY <2>2, AppendProperties DEF new
  <2>10. g[Len(f)].fragments = new /\ ~g[Len(f)].ended
    BY <2>8 DEF line
  <2>11. GoesOn(f, g, fragment)
    BY <2>3, <2>8, <2>9, <2>10, Zenon DEF GoesOn
  <2> QED
    BY <1>2, <2>11, DocumentAdded, Zenon
<1>3. CASE ~Unterminated(f)
  <2> DEFINE line == [fragments |-> <<fragment>>, ended |-> FALSE]
  <2>1. line \in Line
    BY DEF Line
  <2>2. g = Append(f, line)
    BY <1>3 DEF BehindIn
  <2> HIDE DEF line
  <2>3. /\ g \in Seq(Line) /\ Len(g) = Len(f) + 1
        /\ \A i \in 1..Len(f) : g[i] = f[i]
        /\ g[Len(f) + 1] = line
    BY <1>1, <2>1, <2>2, AppendProperties
  <2>4. g[Len(f) + 1].fragments = <<fragment>> /\ ~g[Len(f) + 1].ended
    BY <2>3 DEF line
  <2>5. Begins(f, g, fragment)
    BY <2>3, <2>4, Zenon DEF Begins
  <2>6. /\ FileOK(g) /\ GrownTo(f, g) /\ IdsUpTo(g, b)
        /\ Unterminated(g) /\ LastFragment(g) = fragment
        /\ \A i \in Good(g) : i \in Good(f) /\ g[i] = f[i]
        /\ Complete(g) = Len(f)
        /\ \A i \in 1..Len(f) : g[i] = f[i]
    BY <1>3, <2>5, LineAdded
  <2> QED
    BY <1>3, <2>6, Zenon
<1> QED
  BY <1>2, <1>3

(* g is f with another last line.                                           *)
Relined(f, g) ==
  /\ g \in Seq(Line) /\ Len(g) = Len(f)
  /\ \A i \in 1..Len(f) : i # Len(f) => g[i] = f[i]

(* What the rest of the document, and the newline, make of a file.          *)
Completed(f) ==
  [f EXCEPT ![Len(f)].fragments[Len(f[Len(f)].fragments)].text = "whole"]

Terminated(f) == [f EXCEPT ![Len(f)].ended = TRUE]

(* The last document made whole.                                            *)
LEMMA LineCompleted ==
  ASSUME NEW f, FileOK(f), Unterminated(f), NEW g, g = Completed(f)
  PROVE  /\ Relined(f, g) /\ g[Len(f)].ended = f[Len(f)].ended
         /\ LET old == f[Len(f)].fragments
                new == g[Len(f)].fragments
            IN /\ new \in Seq(Fragment) /\ Len(new) = Len(old)
               /\ \A k \in 1..Len(old) : new[k].event = old[k].event
               /\ new[Len(old)].text = "whole"
<1> DEFINE n == Len(f)
           old == f[n].fragments
           k == Len(old)
           piece == [old[k] EXCEPT !.text = "whole"]
           new == [old EXCEPT ![k] = piece]
           line == [f[n] EXCEPT !.fragments = new]
<1>1. n \in 1..n /\ f # <<>>
  BY FileShape DEF Unterminated
<1>2. f[n] \in Line /\ old \in Seq(Fragment) /\ k \in Nat \ {0} /\ old[k] \in Fragment
  BY ONLY FileOK(f), <1>1, LineParts
<1>3. g = WithLast(f, line)
  BY DEF Completed, WithLast
<1> HIDE DEF n
<1>4. piece \in Fragment /\ piece.event = old[k].event /\ piece.text = "whole"
  <2> DEFINE fragment == old[k]
  <2>1. fragment \in Fragment
    BY <1>2
  <2> HIDE DEF fragment
  <2>2. [fragment EXCEPT !.text = "whole"] = [event |-> fragment.event, text |-> "whole"]
    BY <2>1 DEF Fragment
  <2>3. piece = [event |-> fragment.event, text |-> "whole"]
    BY <2>2 DEF fragment
  <2> HIDE DEF piece
  <2>4. fragment.event \in Event
    BY <2>1 DEF Fragment
  <2> QED
    BY <2>3, <2>4 DEF Fragment, fragment
<1> HIDE DEF piece
<1>5. /\ new \in Seq(Fragment) /\ Len(new) = k
      /\ new[k] = piece /\ \A j \in 1..k : j # k => new[j] = old[j]
  <2> HIDE DEF old
  <2>1. k \in 1..k
    BY <1>2
  <2> QED
    BY <1>2, <1>4, <2>1, ExceptSeq
<1> HIDE DEF new
<1>6. line = [fragments |-> new, ended |-> f[n].ended]
  <2> HIDE DEF old
  <2> QED
    BY <1>2, LineChanged
<1>7. f[n].ended \in BOOLEAN
  BY <1>1, LineParts DEF n
<1> HIDE DEF line
<1>8. line \in Line /\ line.fragments = new /\ line.ended = f[n].ended
  BY <1>5, <1>6, <1>7 DEF Line
<1>9. /\ g \in Seq(Line) /\ Len(g) = Len(f)
      /\ \A i \in 1..Len(f) : i # Len(f) => g[i] = f[i]
      /\ g[Len(f)] = line
  BY ONLY FileOK(f), <1>1, <1>3, <1>8, LastLineChanged
<1>10. Relined(f, g) /\ g[n].ended = f[n].ended
  BY <1>8, <1>9 DEF Relined, n
<1>11. g[n].fragments = new
  BY <1>8, <1>9 DEF n
<1> HIDE DEF old
<1>12. \A j \in 1..k : new[j].event = old[j].event
  BY <1>4, <1>5
<1> QED
  BY <1>4, <1>5, <1>10, <1>11, <1>12 DEF n, old

(* The newline.                                                             *)
LEMMA LineEnded ==
  ASSUME NEW f, FileOK(f), Unterminated(f), NEW g, g = Terminated(f)
  PROVE  /\ Relined(f, g) /\ g[Len(f)].ended
         /\ g[Len(f)].fragments = f[Len(f)].fragments
<1> DEFINE n == Len(f)
           line == [f[n] EXCEPT !.ended = TRUE]
<1>1. n \in 1..n /\ f # <<>>
  BY FileShape DEF Unterminated
<1>2. f[n] \in Line /\ f[n].fragments \in Seq(Fragment)
  BY ONLY FileOK(f), <1>1, LineParts
<1>3. g = WithLast(f, line)
  BY DEF Terminated, WithLast
<1> HIDE DEF n
<1>4. line = [fragments |-> f[n].fragments, ended |-> TRUE]
  BY <1>2, LineChanged
<1> HIDE DEF line
<1>5. line \in Line /\ line.fragments = f[n].fragments /\ line.ended
  BY <1>2, <1>4 DEF Line
<1>6. /\ g \in Seq(Line) /\ Len(g) = Len(f)
      /\ \A i \in 1..Len(f) : i # Len(f) => g[i] = f[i]
      /\ g[Len(f)] = line
  BY ONLY FileOK(f), <1>1, <1>3, <1>5, LastLineChanged
<1> QED
  BY <1>5, <1>6 DEF Relined, n

(* Whatever the last line becomes, what is before it stays.                 *)
LEMMA RelinedFile ==
  ASSUME NEW f, FileOK(f), Unterminated(f), NEW g, Relined(f, g),
         Len(g[Len(f)].fragments) = Len(f[Len(f)].fragments),
         Len(f[Len(f)].fragments) = 1 /\ f[Len(f)].fragments[1].text = "whole" =>
           g[Len(f)].fragments = f[Len(f)].fragments,
         \A k \in 1..Len(f[Len(f)].fragments) :
           g[Len(f)].fragments[k].event = f[Len(f)].fragments[k].event
  PROVE  /\ DOMAIN g = 1..Len(f) /\ Len(f) \in 1..Len(f) /\ g # <<>>
         /\ \A i \in 1..Len(f) : i # Len(f) => (i \in Good(g) <=> i \in Good(f))
         /\ Good(g) \subseteq 1..Len(f)
         /\ \A i \in DOMAIN g : Len(g[i].fragments) # 0
         /\ \A i \in DOMAIN g : i # Len(g) => g[i].ended
         /\ GrownTo(f, g)
         /\ \A b : IdsUpTo(f, b) => IdsUpTo(g, b)
<1> DEFINE n == Len(f)
           old == f[n].fragments
           new == g[n].fragments
<1>1. /\ n \in Nat /\ DOMAIN f = 1..n /\ n \in 1..n /\ f # <<>>
  BY FileShape DEF Unterminated
<1>2. /\ g \in Seq(Line) /\ Len(g) = n
      /\ \A i \in 1..n : i # n => g[i] = f[i]
  BY DEF Relined
<1>3. DOMAIN g = 1..n /\ g # <<>>
  <2> HIDE DEF n
  <2> QED
    BY ONLY <1>1, <1>2
<1>4. ~f[n].ended
  BY DEF Unterminated
<1>5. old \in Seq(Fragment) /\ Len(old) \in Nat \ {0} /\ DOMAIN old = 1..Len(old)
  BY ONLY FileOK(f), <1>1, LineParts
<1>6. /\ Len(new) = Len(old) /\ \A k \in 1..Len(old) : new[k].event = old[k].event
      /\ g[n].fragments = new /\ f[n].fragments = old /\ Len(f) = n
      /\ Len(old) = 1 /\ old[1].text = "whole" => new = old
  OBVIOUS
<1> HIDE DEF n, old, new
<1>7. \A i \in 1..n : i # n => (i \in Good(g) <=> i \in Good(f))
  BY <1>1, <1>2, <1>3 DEF Good
<1>8. Good(g) \subseteq 1..n
  BY <1>3 DEF Good
<1>9. \A i \in 1..n : i # n => Len(f[i].fragments) \in Nat \ {0} /\ f[i].ended
  BY <1>6, LineParts
<1>10. \A i \in DOMAIN g : Len(g[i].fragments) # 0
  <2>1. Len(g[n].fragments) # 0
    BY <1>5, <1>6
  <2>2. \A i \in 1..n : i # n => Len(g[i].fragments) # 0
    BY <1>2, <1>9
  <2> QED
    BY <1>3, <2>1, <2>2
<1>11. \A i \in DOMAIN g : i # Len(g) => g[i].ended
  BY <1>2, <1>3, <1>9
<1>12. GrownTo(f, g)
  <2>1. \A i \in 1..n : Len(f[i].fragments) <= Len(g[i].fragments)
    <3>1. Len(f[n].fragments) <= Len(g[n].fragments)
      BY <1>5, <1>6
    <3>2. \A i \in 1..n : i # n => Len(f[i].fragments) <= Len(g[i].fragments)
      BY <1>2, <1>9
    <3> QED
      BY <3>1, <3>2
  <2>2. Len(f) <= Len(g)
    BY <1>1, <1>2, <1>6
  <2>3. \A i \in 1..n : f[i].ended => g[i] = f[i]
    BY <1>2, <1>4
  <2>4. Single(g) => \A i \in 1..n :
          f[i].fragments[1].text = "whole" => g[i].fragments = f[i].fragments
    <3>1. Single(g) => Len(old) = 1
      BY <1>1, <1>3, <1>6 DEF Single
    <3> QED
      BY <1>2, <1>6, <3>1
  <2> QED
    BY <1>1, <2>1, <2>2, <2>3, <2>4, Zenon DEF GrownTo
<1>13. ASSUME NEW b, IdsUpTo(f, b)
       PROVE  IdsUpTo(g, b)
  <2>1. \A i \in 1..n : i # n =>
          \A k \in DOMAIN g[i].fragments : g[i].fragments[k].event.id <= b
    BY <1>1, <1>2, <1>13 DEF IdsUpTo
  <2>2. \A k \in DOMAIN old : old[k].event.id <= b
    BY <1>1, <1>6, <1>13 DEF IdsUpTo
  <2>3. DOMAIN new = 1..Len(old)
    <3>1. g[n] \in Line
      BY <1>1, <1>2
    <3>2. g[n].fragments \in Seq(Fragment)
      BY <3>1 DEF Line
    <3>3. new \in Seq(Fragment)
      BY <1>6, <3>2
    <3> QED
      BY <1>6, <3>3
  <2>4. \A k \in DOMAIN new : new[k].event.id <= b
    BY <1>5, <1>6, <2>2, <2>3
  <2> QED
    BY <1>3, <1>6, <2>1, <2>4, Zenon DEF IdsUpTo
<1> QED
  BY <1>1, <1>3, <1>6, <1>7, <1>8, <1>10, <1>11, <1>12, <1>13

(* Completing a document makes an event of its line, if it is alone there.  *)
LEMMA FileCompleted ==
  ASSUME NEW f, FileOK(f), Unterminated(f), LastFragment(f).text # "whole",
         \A i \in Good(f) : EventAt(f, i).id < LastFragment(f).event.id,
         NEW g, g = Completed(f)
  PROVE  /\ FileOK(g) /\ GrownTo(f, g) /\ Unterminated(g) /\ Len(g) = Len(f)
         /\ \A b : IdsUpTo(f, b) => IdsUpTo(g, b)
         /\ LastFragment(g).event = LastFragment(f).event
         /\ LastFragment(g).text = "whole"
         /\ \A i \in 1..Len(f) : i # Len(f) => g[i] = f[i]
         /\ \A i \in Good(g) :
              \/ i \in Good(f) /\ i # Len(g) /\ g[i] = f[i]
              \/ i = Len(g) /\ EventAt(g, i) = LastFragment(f).event
<1> DEFINE n == Len(f)
           old == f[n].fragments
           new == g[n].fragments
<1>1. /\ Relined(f, g) /\ g[n].ended = f[n].ended
      /\ new \in Seq(Fragment) /\ Len(new) = Len(old)
      /\ \A k \in 1..Len(old) : new[k].event = old[k].event
      /\ new[Len(old)].text = "whole"
  BY LineCompleted, Zenon
<1>2. n \in Nat /\ n \in 1..n
  BY FileShape DEF Unterminated
<1>3. Len(old) \in Nat \ {0} /\ Len(old) \in 1..Len(old)
  <2>1. Len(old) \in Nat \ {0}
    BY ONLY FileOK(f), <1>2, LineParts
  <2> HIDE DEF old
  <2> QED
    BY <2>1
<1>4. old[Len(old)].text # "whole" /\ old[Len(old)].event = LastFragment(f).event
  BY DEF LastFragment
<1>5. \A i \in 1..n : i # n => g[i] = f[i]
  BY <1>1 DEF Relined
<1>6. g \in Seq(Line) /\ Len(g) = n
  BY <1>1 DEF Relined
<1>7. Len(old) = 1 /\ old[1].text = "whole" => new = old
  BY <1>4
<1>8. /\ DOMAIN g = 1..n /\ g # <<>>
      /\ \A i \in 1..n : i # n => (i \in Good(g) <=> i \in Good(f))
      /\ Good(g) \subseteq 1..n
      /\ \A i \in DOMAIN g : Len(g[i].fragments) # 0
      /\ \A i \in DOMAIN g : i # Len(g) => g[i].ended
      /\ GrownTo(f, g)
      /\ \A b : IdsUpTo(f, b) => IdsUpTo(g, b)
  BY <1>1, <1>7, RelinedFile, Zenon
<1>9. LastFragment(g).event = LastFragment(f).event /\ LastFragment(g).text = "whole"
  BY <1>1, <1>3, <1>4, <1>6 DEF LastFragment
<1>10. ~f[n].ended
  BY DEF Unterminated
<1>11. Unterminated(g)
  BY <1>1, <1>6, <1>8, <1>10 DEF Unterminated
<1>12. n \in Good(g) => EventAt(g, n) = LastFragment(f).event
  <2>1. SUFFICES ASSUME n \in Good(g)
                 PROVE  EventAt(g, n) = LastFragment(f).event
    OBVIOUS
  <2>2. Len(new) = 1
    BY <1>6, <2>1, GoodLine
  <2> HIDE DEF old
  <2>3. new[1].event = old[1].event /\ Len(old) = 1
    BY <1>1, <1>3, <2>2
  <2> QED
    BY <1>4, <2>3 DEF EventAt
<1> HIDE DEF n, old, new
<1>13. \A i \in Good(g) :
         \/ i \in Good(f) /\ i # n /\ g[i] = f[i]
         \/ i = n /\ EventAt(g, i) = LastFragment(f).event
  BY <1>5, <1>8, <1>12
<1>14. \A i, j \in Good(g) : i < j => EventAt(g, i).id < EventAt(g, j).id
  <2> SUFFICES ASSUME NEW i \in Good(g), NEW j \in Good(g), i < j
               PROVE  EventAt(g, i).id < EventAt(g, j).id
    OBVIOUS
  <2>1. i \in 1..n /\ j \in 1..n
    BY <1>8
  <2>2. i # n
    BY <1>2, <2>1
  <2>3. i \in Good(f) /\ EventAt(g, i) = EventAt(f, i)
    BY <1>13, <2>2 DEF EventAt
  <2>4. CASE j = n
    BY <1>13, <2>3, <2>4
  <2>5. CASE j # n
    <3>1. j \in Good(f) /\ EventAt(g, j) = EventAt(f, j)
      BY <1>13, <2>5 DEF EventAt
    <3> QED
      BY <2>3, <3>1 DEF FileOK
  <2> QED
    BY <2>4, <2>5
<1>15. FileOK(g)
  BY <1>6, <1>8, <1>14 DEF FileOK
<1> QED
  BY <1>5, <1>6, <1>8, <1>9, <1>11, <1>13, <1>15 DEF n

(* Ending a line changes what it reads as in no way.                        *)
LEMMA FileEnded ==
  ASSUME NEW f, FileOK(f), Unterminated(f), NEW g, g = Terminated(f)
  PROVE  /\ FileOK(g) /\ GrownTo(f, g) /\ ~Unterminated(g) /\ Len(g) = Len(f)
         /\ \A b : IdsUpTo(f, b) => IdsUpTo(g, b)
         /\ \A i \in 1..Len(f) : i # Len(f) => g[i] = f[i]
         /\ g[Len(f)].ended /\ g[Len(f)].fragments = f[Len(f)].fragments
         /\ Good(g) = Good(f)
         /\ \A i \in Good(g) : EventAt(g, i) = EventAt(f, i)
<1> DEFINE n == Len(f)
<1>1. Relined(f, g) /\ g[n].ended /\ g[n].fragments = f[n].fragments
  BY LineEnded, Zenon
<1>2. n \in Nat /\ n \in 1..n /\ DOMAIN f = 1..n
  BY FileShape DEF Unterminated
<1>3. /\ g \in Seq(Line) /\ Len(g) = n
      /\ \A i \in 1..n : i # n => g[i] = f[i]
  BY <1>1 DEF Relined
<1>4. /\ DOMAIN g = 1..n /\ g # <<>>
      /\ \A i \in 1..n : i # n => (i \in Good(g) <=> i \in Good(f))
      /\ Good(g) \subseteq 1..n
      /\ \A i \in DOMAIN g : Len(g[i].fragments) # 0
      /\ \A i \in DOMAIN g : i # Len(g) => g[i].ended
      /\ GrownTo(f, g)
      /\ \A b : IdsUpTo(f, b) => IdsUpTo(g, b)
  <2>1. /\ Len(g[n].fragments) = Len(f[n].fragments)
        /\ \A k \in 1..Len(f[n].fragments) :
             g[n].fragments[k].event = f[n].fragments[k].event
    BY <1>1
  <2> QED
    BY <1>1, <2>1, RelinedFile, Zenon
<1>5. ~Unterminated(g)
  BY <1>1, <1>3 DEF Unterminated
<1> HIDE DEF n
<1>6. Reading(g[n]) = Reading(f[n])
  BY <1>1 DEF Reading
<1>7. n \in Good(g) <=> n \in Good(f)
  BY <1>2, <1>4, <1>6 DEF Good
<1>8. Good(f) \subseteq 1..n
  BY <1>2 DEF Good
<1>9. Good(g) = Good(f)
  BY <1>4, <1>7, <1>8
<1>10. \A i \in Good(g) : EventAt(g, i) = EventAt(f, i)
  BY <1>1, <1>3, <1>4 DEF EventAt
<1>11. \A i, j \in Good(g) : i < j => EventAt(g, i).id < EventAt(g, j).id
  BY <1>9, <1>10 DEF FileOK
<1>12. FileOK(g)
  BY <1>3, <1>4, <1>11 DEF FileOK
<1> QED
  BY <1>1, <1>3, <1>4, <1>5, <1>9, <1>10, <1>12 DEF n

-----------------------------------------------------------------------------
(* Reading what was added to a file.                                        *)

(* A reading that is not refused has nothing unreadable, and what does not  *)
(* parse in the last place only.                                            *)
LEMMA ReadingSucceeds ==
  ASSUME NEW lines
  PROVE  /\ ReadLines(lines).ok <=>
              \A i \in DOMAIN lines :
                /\ Reading(lines[i]) # "unreadable"
                /\ ~(Reading(lines[i]) = "corrupt" /\ i < Len(lines))
         /\ ReadLines(lines).events = EventsOf(lines)
  BY DEF ReadLines

(* The readings of a line.                                                  *)
LEMMA Readings ==
  ASSUME NEW line
  PROVE  Reading(line) \in {"blank", "unreadable", "event", "corrupt"}
  BY DEF Reading

(* What was refused stays refused, however the file goes on.                *)
LEMMA RefusedForGood ==
  ASSUME NEW a \in Seq(Line), NEW b \in Seq(Line), ReadLines(a \o b).ok
  PROVE  /\ ReadLines(a).ok
         /\ b # <<>> => \A i \in 1..Len(a) : Reading(a[i]) \in {"event", "blank"}
<1> DEFINE c == a \o b
           n == Len(a)
           m == Len(b)
<1>1. /\ n \in Nat /\ m \in Nat /\ DOMAIN a = 1..n /\ DOMAIN c = 1..(n + m)
      /\ Len(c) = n + m
      /\ \A i \in 1..n : c[i] = a[i]
      /\ b # <<>> => m # 0
  BY ConcatProperties
<1>2. \A i \in DOMAIN c : /\ Reading(c[i]) # "unreadable"
                          /\ ~(Reading(c[i]) = "corrupt" /\ i < Len(c))
  BY ReadingSucceeds
<1> HIDE DEF c, n, m
<1>3. \A i \in 1..n : /\ i \in DOMAIN c /\ Reading(c[i]) = Reading(a[i])
                      /\ i < n => i < n + m
                      /\ m # 0 => i < n + m
  BY <1>1
<1>4. \A i \in 1..n : /\ Reading(a[i]) # "unreadable"
                      /\ ~(Reading(a[i]) = "corrupt" /\ i < n)
  BY <1>1, <1>2, <1>3
<1>5. ReadLines(a).ok
  BY <1>1, <1>4, ReadingSucceeds DEF n
<1>6. ASSUME b # <<>>, NEW i \in 1..n
      PROVE  Reading(a[i]) \in {"event", "blank"}
  <2>1. Reading(a[i]) \notin {"unreadable", "corrupt"}
    BY <1>1, <1>2, <1>3, <1>6
  <2> QED
    BY <2>1, Readings
<1> QED
  BY <1>5, <1>6 DEF n

(* Lines with the same documents read the same.                             *)
LEMMA SameDocuments ==
  ASSUME NEW a \in Seq(Line), NEW b \in Seq(Line), Len(a) = Len(b),
         \A i \in 1..Len(a) : a[i].fragments = b[i].fragments
  PROVE  EventsOf(a) = EventsOf(b)
<1>1. DOMAIN a = 1..Len(a) /\ DOMAIN b = 1..Len(a)
  OBVIOUS
<1>2. \A i \in 1..Len(a) : Reading(a[i]) = Reading(b[i])
  BY DEF Reading
<1>3. Good(a) = Good(b)
  BY <1>1, <1>2 DEF Good
<1>4. PICK s : /\ Lists(s, Good(a)) /\ s \in Seq(Good(a))
  BY EventsListed
<1>5. EventsOf(a) = [k \in DOMAIN s |-> EventAt(a, s[k])]
  BY <1>4, EventsFrom
<1>6. EventsOf(b) = [k \in DOMAIN s |-> EventAt(b, s[k])]
  BY <1>3, <1>4, EventsFrom
<1>7. \A k \in DOMAIN s : s[k] \in 1..Len(a)
  <2>1. \A k \in DOMAIN s : s[k] \in Good(a)
    BY <1>4
  <2> QED
    BY <2>1, GoodPlaces
<1>8. \A k \in DOMAIN s : EventAt(a, s[k]) = EventAt(b, s[k])
  BY <1>7 DEF EventAt
<1> QED
  BY <1>5, <1>6, <1>8

(* The end of a file behind its first n lines.                              *)
LEMMA SplitAfter ==
  ASSUME NEW f \in Seq(Line), NEW n \in Nat, n <= Len(f)
  PROVE  /\ SubSeq(f, 1, n) \in Seq(Line) /\ Len(SubSeq(f, 1, n)) = n
         /\ \A i \in 1..n : SubSeq(f, 1, n)[i] = f[i]
         /\ SubSeq(f, n + 1, Len(f)) \in Seq(Line)
         /\ Len(SubSeq(f, n + 1, Len(f))) = Len(f) - n
         /\ \A i \in 1..(Len(f) - n) : SubSeq(f, n + 1, Len(f))[i] = f[i + n]
         /\ f = SubSeq(f, 1, n) \o SubSeq(f, n + 1, Len(f))
<1> DEFINE m == Len(f)
           a == SubSeq(f, 1, n)
           b == SubSeq(f, n + 1, m)
<1>1. m \in Nat /\ f = [i \in 1..m |-> f[i]] /\ \A i \in 1..m : f[i] \in Line
  OBVIOUS
<1>2. a = [i \in 1..n |-> f[i]]
  BY <1>1
<1>3. b = [i \in 1..(m - n) |-> f[i + n]]
  BY <1>1
<1> HIDE DEF a, b, m
<1>4. a \in Seq(Line) /\ Len(a) = n /\ \A i \in 1..n : a[i] = f[i]
  BY <1>1, <1>2 DEF m
<1>5. b \in Seq(Line) /\ Len(b) = m - n /\ \A i \in 1..(m - n) : b[i] = f[i + n]
  BY <1>1, <1>3 DEF m
<1>9. n <= m
  BY DEF m
<1> DEFINE c == a \o b
<1>6. /\ c \in Seq(Line) /\ Len(c) = m
      /\ \A i \in 1..m : c[i] = IF i <= n THEN a[i] ELSE b[i - n]
  <2>1. /\ c \in Seq(Line) /\ Len(c) = Len(a) + Len(b)
        /\ \A i \in 1..(Len(a) + Len(b)) : c[i] = IF i <= Len(a) THEN a[i] ELSE b[i - Len(a)]
    <3>1. a \in Seq(Line) /\ b \in Seq(Line)
      BY <1>4, <1>5
    <3> QED
      BY ONLY <3>1, ConcatProperties
  <2>2. Len(a) + Len(b) = m
    BY <1>1, <1>4, <1>5, <1>9
  <2> HIDE DEF c
  <2> QED
    BY <1>4, <2>1, <2>2
<1> HIDE DEF c
<1>7. ASSUME NEW i \in 1..m
      PROVE  c[i] = f[i]
  <2>1. CASE i <= n
    <3>1. i \in 1..n
      BY <1>1, <2>1
    <3> QED
      BY <1>4, <1>6, <2>1, <3>1
  <2>2. CASE ~(i <= n)
    <3>1. i - n \in 1..(m - n) /\ (i - n) + n = i
      BY <1>1, <1>9, <2>2
    <3> QED
      BY <1>5, <1>6, <2>2, <3>1
  <2> QED
    BY <2>1, <2>2
<1>8. c = f
  BY <1>1, <1>6, <1>7
<1> QED
  BY <1>4, <1>5, <1>8 DEF a, b, c, m

(* The last line of two lists, the second not empty.                        *)
LEMMA LastOfConcat ==
  ASSUME NEW a \in Seq(Line), NEW b \in Seq(Line), b # <<>>
  PROVE  (a \o b)[Len(a \o b)] = b[Len(b)] /\ a \o b # <<>>
<1> DEFINE c == a \o b
           n == Len(a)
           m == Len(b)
<1>1. n \in Nat /\ m \in Nat /\ m # 0
  OBVIOUS
<1>2. /\ c \in Seq(Line) /\ Len(c) = n + m
      /\ \A i \in 1..m : c[i + n] = b[i]
  BY ConcatProperties
<1> HIDE DEF c, n, m
<1>3. m \in 1..m /\ m + n = Len(c) /\ Len(c) # 0
  BY <1>1, <1>2
<1>4. c[Len(c)] = b[m] /\ c # <<>>
  BY <1>2, <1>3
<1> QED
  BY <1>4 DEF c, m

(* What a reader gets are lines.                                            *)
LEMMA GrowthIsLines ==
  ASSUME NEW old, NEW new, FileOK(old), FileOK(new), GrownTo(old, new)
  PROVE  Growth(old, new) \in Seq(Line)
<1> DEFINE n == Len(old)
           tail == SubSeq(new, n + 1, Len(new))
<1>1. /\ new \in Seq(Line) /\ n \in Nat /\ n <= Len(new) /\ DOMAIN old = 1..n
      /\ Len(new) \in Nat
  BY FileShape DEF GrownTo
<1>2. tail \in Seq(Line)
  BY <1>1, SplitAfter
<1>3. CASE ~Unterminated(old)
  BY <1>2, <1>3 DEF Growth
<1>4. CASE Unterminated(old)
  <2> DEFINE k == Len(old[n].fragments)
             now == new[n].fragments
             completed == now[k] # old[n].fragments[k]
             rest == SubSeq(now, k + 1, Len(now))
             piece == [now[k] EXCEPT !.text = "part"]
             first == [fragments |-> IF completed THEN <<piece>> \o rest ELSE rest,
                       ended |-> new[n].ended]
  <2>1. n \in 1..n /\ n \in 1..Len(new)
    BY <1>1, <1>4, FileShape DEF Unterminated
  <2>2. k \in Nat \ {0}
    BY ONLY FileOK(old), <2>1, LineParts
  <2>3. now \in Seq(Fragment) /\ Len(now) \in Nat /\ new[n].ended \in BOOLEAN
    BY ONLY FileOK(new), <2>1, LineParts
  <2>4. k <= Len(now)
    BY <1>1, <2>1 DEF GrownTo
  <2>5. Growth(old, new) = <<first>> \o tail
    BY <1>4, Zenon DEF Growth
  <2> HIDE DEF n, k, now
  <2>6. rest \in Seq(Fragment)
    BY <2>2, <2>3, <2>4
  <2>7. piece \in Fragment
    <3> DEFINE fragment == now[k]
    <3>1. fragment \in Fragment
      BY <2>2, <2>3, <2>4
    <3> HIDE DEF fragment
    <3>2. [fragment EXCEPT !.text = "part"] \in Fragment
      BY <3>1 DEF Fragment
    <3> QED
      BY <3>2 DEF fragment
  <2> HIDE DEF rest, piece
  <2>8. <<piece>> \in Seq(Fragment)
    BY <2>7
  <2>9. <<piece>> \o rest \in Seq(Fragment)
    BY <2>6, <2>8, ConcatProperties
  <2>10. first \in Line
    <3> HIDE DEF completed
    <3> QED
      BY <2>3, <2>6, <2>9 DEF Line
  <2> HIDE DEF first, tail
  <2>11. <<first>> \in Seq(Line)
    BY <2>10
  <2> QED
    BY <1>2, <2>5, <2>11, ConcatProperties
<1> QED
  BY <1>3, <1>4

(* The last line of a short file is not an event, and not blank.            *)
LEMMA ShortLine ==
  ASSUME NEW f, FileOK(f), Single(f), Short(f)
  PROVE  f # <<>> /\ Reading(f[Len(f)]) \notin {"event", "blank"}
<1> DEFINE n == Len(f)
           line == f[n]
<1>1. f # <<>> /\ n \in 1..n /\ DOMAIN f = 1..n
  BY FileShape DEF Short, Unterminated
<1>2. Len(line.fragments) = 1
  BY <1>1 DEF Single
<1>3. line.fragments \in Seq(Fragment)
  BY ONLY FileOK(f), <1>1, LineParts
<1>4. line.fragments[1].text # "whole"
  BY <1>2 DEF Short, LastFragment
<1> HIDE DEF line
<1>5. DOMAIN line.fragments = {1} /\ line.fragments # <<>>
  BY <1>2, <1>3
<1>6. Reading(line) # "event" /\ Reading(line) # "blank"
  BY <1>2, <1>4, <1>5 DEF Reading
<1> QED
  BY <1>1, <1>6 DEF line

(* A reader at the end of an ended file gets the lines after it.            *)
LEMMA ReadsOn ==
  ASSUME NEW seen, NEW f, FileOK(seen), FileOK(f), GrownTo(seen, f), seen # f,
         Single(f), ~Unterminated(seen),
         NEW lines \in Seq(Line), Follows(lines, seen)
  PROVE  Follows(lines \o Growth(seen, f), f)
<1> DEFINE n == Len(seen)
           g == SubSeq(f, n + 1, Len(f))
<1>1. /\ seen \in Seq(Line) /\ f \in Seq(Line) /\ n \in Nat /\ n <= Len(f)
      /\ DOMAIN seen = 1..n /\ Len(f) \in Nat
  BY FileShape DEF GrownTo
<1>2. \A i \in 1..n : seen[i].ended
  <2>1. \A i \in 1..n : i # n => seen[i].ended
    BY ONLY FileOK(seen), LineParts
  <2>2. n # 0 => seen # <<>>
    BY FileShape
  <2>3. n # 0 => seen[n].ended
    BY <2>2 DEF Unterminated
  <2> HIDE DEF n
  <2> QED
    BY <1>1, <2>1, <2>3
<1>3. \A i \in 1..n : f[i] = seen[i]
  BY <1>1, <1>2 DEF GrownTo
<1> DEFINE a == SubSeq(f, 1, n)
<1>4. /\ a \in Seq(Line) /\ Len(a) = n /\ \A i \in 1..n : a[i] = f[i]
      /\ g \in Seq(Line) /\ Len(g) = Len(f) - n
      /\ \A i \in 1..(Len(f) - n) : g[i] = f[i + n]
      /\ f = a \o g
  BY <1>1, SplitAfter
<1> HIDE DEF a, g
<1>5. a = seen
  BY <1>1, <1>3, <1>4, SeqEqual
<1>6. f = seen \o g
  BY <1>4, <1>5
<1>7. Growth(seen, f) = g
  BY DEF Growth, g
<1>8. SUFFICES ASSUME ReadLines(lines \o g).ok
               PROVE  /\ EventsOf(lines \o g) = EventsOf(f)
                      /\ Short(f) =>
                           /\ lines \o g # <<>>
                           /\ Reading((lines \o g)[Len(lines \o g)])
                                \notin {"event", "blank"}
  BY <1>7 DEF Follows
<1>9. ReadLines(lines).ok
  BY <1>4, <1>8, RefusedForGood
<1>10. EventsOf(lines) = EventsOf(seen)
  BY <1>9 DEF Follows
<1>11. EventsOf(lines \o g) = EventsOf(f)
  <2>1. seen \in Seq(Line) /\ g \in Seq(Line)
    BY <1>1, <1>4
  <2>2. EventsOf(lines \o g) = EventsOf(lines) \o EventsOf(g)
    BY ONLY lines \in Seq(Line), <2>1, EventsConcat
  <2>3. EventsOf(seen \o g) = EventsOf(seen) \o EventsOf(g)
    BY ONLY <2>1, EventsConcat
  <2> QED
    BY <1>6, <1>10, <2>2, <2>3
<1>12. ASSUME Short(f)
       PROVE  /\ lines \o g # <<>>
              /\ Reading((lines \o g)[Len(lines \o g)]) \notin {"event", "blank"}
  <2>1. g # <<>>
    <3>1. SUFFICES ASSUME g = <<>>
                   PROVE  FALSE
      OBVIOUS
    <3>2. f = seen
      BY <1>1, <1>6, <3>1, ConcatEmptySeq
    <3> QED
      BY <3>2
  <2>2. (lines \o g)[Len(lines \o g)] = g[Len(g)] /\ lines \o g # <<>>
    BY <1>4, <2>1, LastOfConcat
  <2>3. f[Len(f)] = g[Len(g)]
    BY <1>1, <1>4, <1>6, <2>1, LastOfConcat
  <2> QED
    BY <1>12, <2>2, <2>3, ShortLine
<1> QED
  BY <1>11, <1>12

(* A reader that took an unended document for the last gets the rest of its *)
(* line: nothing, if the document was whole; and if it was not, the reading *)
(* is refused.                                                              *)
LEMMA ReadsTheRest ==
  ASSUME NEW seen, NEW f, FileOK(seen), FileOK(f), GrownTo(seen, f), seen # f,
         Single(f), Unterminated(seen),
         NEW lines \in Seq(Line), Follows(lines, seen)
  PROVE  Follows(lines \o Growth(seen, f), f)
<1> DEFINE n == Len(seen)
           a == SubSeq(f, 1, n)
           b == SubSeq(f, n + 1, Len(f))
           g == Growth(seen, f)
           k == Len(seen[n].fragments)
           completed == f[n].fragments[k] # seen[n].fragments[k]
           rest == SubSeq(f[n].fragments, k + 1, Len(f[n].fragments))
           piece == [f[n].fragments[k] EXCEPT !.text = "part"]
           first == [fragments |-> IF completed THEN <<piece>> \o rest ELSE rest,
                     ended |-> f[n].ended]
<1>1. /\ seen \in Seq(Line) /\ f \in Seq(Line) /\ n \in Nat /\ n <= Len(f)
      /\ DOMAIN seen = 1..n /\ Len(f) \in Nat /\ n \in 1..n /\ n \in 1..Len(f)
      /\ DOMAIN f = 1..Len(f)
  <2>1. /\ seen \in Seq(Line) /\ f \in Seq(Line) /\ n \in Nat /\ n <= Len(f)
        /\ DOMAIN seen = 1..n /\ Len(f) \in Nat /\ n \in 1..n
        /\ DOMAIN f = 1..Len(f)
    BY FileShape DEF GrownTo, Unterminated
  <2> HIDE DEF n
  <2> QED
    BY <2>1
<1>2. /\ a \in Seq(Line) /\ Len(a) = n /\ \A i \in 1..n : a[i] = f[i]
      /\ b \in Seq(Line) /\ Len(b) = Len(f) - n
      /\ \A i \in 1..(Len(f) - n) : b[i] = f[i + n]
      /\ f = a \o b
  BY <1>1, SplitAfter
<1>3. g = <<first>> \o b
  BY Zenon DEF Growth
<1>4. g \in Seq(Line)
  BY GrowthIsLines
<1>5. Single(seen)
  BY SingleBefore
<1>6. k = 1 /\ Len(f[n].fragments) = 1
  BY <1>1, <1>5 DEF Single
<1>7. SUFFICES ASSUME ReadLines(lines \o g).ok
               PROVE  /\ EventsOf(lines \o g) = EventsOf(f)
                      /\ Short(f) =>
                           /\ lines \o g # <<>>
                           /\ Reading((lines \o g)[Len(lines \o g)])
                                \notin {"event", "blank"}
  BY DEF Follows
<1> HIDE DEF g
<1>8. g # <<>>
  <2>1. g[1] = first /\ Len(g) # 0
    <3> HIDE DEF first, b
    <3> QED
      BY <1>2, <1>3
  <2> QED
    BY <2>1
<1>9. /\ ReadLines(lines).ok
      /\ \A i \in 1..Len(lines) : Reading(lines[i]) \in {"event", "blank"}
  BY <1>4, <1>7, <1>8, RefusedForGood
<1>10. EventsOf(lines) = EventsOf(seen) /\ ~Short(seen)
  <2>1. /\ EventsOf(lines) = EventsOf(seen)
        /\ Short(seen) => /\ lines # <<>>
                          /\ Reading(lines[Len(lines)]) \notin {"event", "blank"}
    BY <1>9, Zenon DEF Follows
  <2>2. lines # <<>> => Len(lines) \in 1..Len(lines)
    OBVIOUS
  <2> QED
    BY <1>9, <2>1, <2>2
<1>11. seen[n].fragments[1].text = "whole"
  BY <1>6, <1>10 DEF Short, LastFragment
<1>12. f[n].fragments = seen[n].fragments
  BY <1>1, <1>11 DEF GrownTo
<1>13. first.fragments = <<>>
  <2>1. ~completed
    BY <1>12
  <2>2. rest = <<>>
    <3>1. rest = SubSeq(f[n].fragments, 2, 1)
      BY <1>6
    <3>2. f[n].fragments \in Seq(Fragment)
      BY ONLY FileOK(f), <1>1, LineParts
    <3>3. \A d \in Seq(Fragment) : SubSeq(d, 2, 1) = <<>>
      OBVIOUS
    <3> QED
      BY ONLY <3>1, <3>2, <3>3
  <2> QED
    BY <2>1, <2>2
<1>14. first \in Line
  <2>1. first = [fragments |-> first.fragments, ended |-> f[n].ended]
    OBVIOUS
  <2>2. f[n].ended \in BOOLEAN
    BY ONLY FileOK(f), <1>1, LineParts
  <2>3. [fragments |-> <<>>, ended |-> f[n].ended] \in Line
    BY <2>2 DEF Line
  <2> HIDE DEF first
  <2> QED
    BY <1>13, <2>1, <2>3
<1> HIDE DEF first
<1>15. Reading(first) = "blank"
  BY <1>13 DEF Reading
<1> DEFINE begun == <<first>>
<1>16. begun \in Seq(Line) /\ EventsOf(begun) = <<>>
  <2>1. begun \in Seq(Line) /\ DOMAIN begun = {1} /\ begun[1] = first
    BY <1>14
  <2> HIDE DEF begun
  <2>2. Good(begun) = {}
    BY <1>15, <2>1 DEF Good
  <2> QED
    BY <2>1, <2>2, NoEvents
<1> HIDE DEF begun, a, b
<1>17. EventsOf(g) = EventsOf(b)
  <2>1. b \in Seq(Line) /\ g = begun \o b
    BY <1>2, <1>3 DEF begun
  <2>2. EventsOf(g) = <<>> \o EventsOf(b)
    BY <1>16, <2>1, EventsConcat
  <2>3. EventsOf(b) \in Seq(Event)
    BY <2>1, EventsListed
  <2> QED
    BY <2>2, <2>3, ConcatEmptySeq
<1>18. EventsOf(a) = EventsOf(seen)
  <2>1. \A i \in 1..n : i # n => f[i] = seen[i]
    <3>1. \A i \in 1..n : i # n => seen[i].ended
      BY ONLY FileOK(seen), LineParts
    <3> QED
      BY <1>1, <3>1 DEF GrownTo
  <2>2. \A i \in 1..n : a[i].fragments = seen[i].fragments
    BY <1>2, <1>12, <2>1
  <2>3. a \in Seq(Line) /\ seen \in Seq(Line) /\ Len(a) = Len(seen)
    BY <1>1, <1>2
  <2>4. Len(a) = n
    BY <1>2
  <2> QED
    BY ONLY <2>2, <2>3, <2>4, SameDocuments
<1>19. EventsOf(lines \o g) = EventsOf(f)
  <2>1. a \in Seq(Line) /\ b \in Seq(Line)
    BY <1>2
  <2>2. EventsOf(lines \o g) = EventsOf(lines) \o EventsOf(g)
    BY ONLY lines \in Seq(Line), <1>4, EventsConcat
  <2>3. EventsOf(a \o b) = EventsOf(a) \o EventsOf(b)
    BY ONLY <2>1, EventsConcat
  <2>4. f = a \o b
    BY <1>2
  <2> QED
    BY <1>10, <1>17, <1>18, <2>2, <2>3, <2>4
<1>20. ASSUME Short(f)
       PROVE  /\ lines \o g # <<>>
              /\ Reading((lines \o g)[Len(lines \o g)]) \notin {"event", "blank"}
  <2>1. b # <<>>
    <3>1. Len(f) # n
      BY <1>6, <1>11, <1>12, <1>20 DEF Short, LastFragment
    <3>2. Len(b) = Len(f) - n /\ Len(f) \in Nat /\ n \in Nat
      BY <1>1, <1>2
    <3> HIDE DEF n
    <3>3. Len(b) # 0
      BY <3>1, <3>2
    <3> QED
      BY <3>3
  <2>2. f[Len(f)] = b[Len(b)]
    BY <1>2, <2>1, LastOfConcat
  <2>3. g[Len(g)] = b[Len(b)]
    BY <1>2, <1>3, <1>16, <2>1, LastOfConcat DEF begun
  <2>4. (lines \o g)[Len(lines \o g)] = g[Len(g)] /\ lines \o g # <<>>
    BY <1>4, <1>8, LastOfConcat
  <2> QED
    BY <1>20, <2>2, <2>3, <2>4, ShortLine
<1> QED
  BY <1>19, <1>20

-----------------------------------------------------------------------------
(* What a file without broken lines gives.                                  *)

(* The ids of a file's events increase, and are those of its good lines.    *)
LEMMA EventsIncrease ==
  ASSUME NEW f, FileOK(f)
  PROVE  /\ EventsOf(f) \in Seq(Event)
         /\ \A j, k \in DOMAIN EventsOf(f) :
              j < k => EventsOf(f)[j].id < EventsOf(f)[k].id
         /\ \A k \in DOMAIN EventsOf(f) :
              \E i \in Good(f) : EventsOf(f)[k] = EventAt(f, i)
         /\ \A i \in Good(f) :
              \E k \in DOMAIN EventsOf(f) : EventsOf(f)[k] = EventAt(f, i)
<1>1. f \in Seq(Line)
  BY FileShape
<1>2. PICK s : /\ Lists(s, Good(f))
               /\ s \in Seq(Good(f))
               /\ EventsOf(f) \in Seq(Event)
               /\ Len(EventsOf(f)) = Len(s)
               /\ \A k \in 1..Len(s) : /\ s[k] \in Good(f)
                                       /\ EventsOf(f)[k] = EventAt(f, s[k])
  BY <1>1, EventsListed
<1> DEFINE events == EventsOf(f)
<1>3. DOMAIN events = 1..Len(s) /\ DOMAIN s = 1..Len(s)
  BY <1>2
<1>4. \A j, k \in 1..Len(s) : j < k => s[j] < s[k]
  BY <1>2, <1>3 DEF Lists, Ascends
<1>5. \A i \in Good(f) : \E k \in 1..Len(s) : s[k] = i
  <2>1. IsFiniteSet(Good(f)) /\ s \in SetToSeqs(Good(f))
    BY <1>1, <1>2, GoodPlaces DEF Lists
  <2> QED
    BY <1>3, <2>1, Listed
<1> HIDE DEF events
<1>6. \A k \in 1..Len(s) : s[k] \in Good(f) /\ events[k] = EventAt(f, s[k])
  BY <1>2 DEF events
<1>7. \A j, k \in 1..Len(s) : j < k => events[j].id < events[k].id
  BY <1>4, <1>6 DEF FileOK
<1>8. \A i \in Good(f) : \E k \in 1..Len(s) : events[k] = EventAt(f, i)
  BY <1>5, <1>6
<1>9. \A k \in 1..Len(s) : \E i \in Good(f) : events[k] = EventAt(f, i)
  BY <1>6
<1>10. events \in Seq(Event)
  BY <1>2 DEF events
<1> QED
  BY <1>3, <1>7, <1>8, <1>9, <1>10 DEF events

(* No event twice.                                                          *)
LEMMA EventsDistinct ==
  ASSUME NEW f, FileOK(f)
  PROVE  IsInjective(EventsOf(f))
<1> DEFINE events == EventsOf(f)
<1>1. /\ events \in Seq(Event)
      /\ \A j, k \in DOMAIN events : j < k => events[j].id < events[k].id
  BY EventsIncrease
<1> HIDE DEF events
<1>2. DOMAIN events \subseteq Nat
  BY <1>1
<1>3. \A k \in DOMAIN events : events[k].id \in Nat
  <2>1. \A k \in DOMAIN events : events[k] \in Event
    BY <1>1
  <2> QED
    BY <2>1, LogAssumption DEF Event
<1>4. ASSUME NEW j \in DOMAIN events, NEW k \in DOMAIN events, events[j] = events[k]
      PROVE  j = k
  <2>1. ~(j < k) /\ ~(k < j)
    BY <1>1, <1>3, <1>4
  <2> QED
    BY <1>2, <2>1
<1> QED
  BY <1>4 DEF IsInjective, events

(* At most one line, at most one event.                                     *)
LEMMA OneEvent ==
  ASSUME NEW lines \in Seq(Line), Len(lines) \in {0, 1}
  PROVE  EventsOf(lines) \in Seq(Event) /\ Len(EventsOf(lines)) \in 0..Len(lines)
<1>1. EventsOf(lines) \in Seq(Event)
  BY EventsListed
<1>2. CASE Good(lines) = {}
  <2>1. EventsOf(lines) = <<>>
    BY <1>2, NoEvents
  <2>2. Len(EventsOf(lines)) = 0
    BY <2>1
  <2> QED
    BY <1>1, <2>2
<1>3. CASE Good(lines) # {}
  <2>1. Good(lines) \subseteq 1..Len(lines)
    BY GoodPlaces
  <2>2. Len(lines) = 1
    BY <1>3, <2>1
  <2>3. Good(lines) = 1..Len(lines)
    BY <1>3, <2>1, <2>2
  <2>4. EventsOf(lines) = [k \in 1..1 |-> EventAt(lines, k)]
    BY <2>2, <2>3, EachAnEvent
  <2>5. Len(EventsOf(lines)) = 1
    BY <1>1, <2>4
  <2> QED
    BY <1>1, <2>2, <2>5
<1> QED
  BY <1>2, <1>3

(* A file with one document to a line gives the acknowledged events of its  *)
(* complete lines, and at most one more.                                    *)
LEMMA SingleReads ==
  ASSUME NEW f, FileOK(f), Single(f),
         NEW acked \in Seq(Event), Acknowledges(f, acked)
  PROVE  /\ Complete(f) \in Nat /\ Complete(f) <= Len(acked)
         /\ EventsOf(f) \in Seq(Event)
         /\ Len(EventsOf(f)) \in Complete(f)..(Complete(f) + 1)
         /\ \A k \in 1..Complete(f) : EventsOf(f)[k] = acked[k]
         /\ \A i \in 1..Complete(f) : Reading(f[i]) = "event"
<1> DEFINE n == Len(f)
           m == Complete(f)
           a == SubSeq(f, 1, m)
           b == SubSeq(f, m + 1, n)
<1>1. f \in Seq(Line) /\ n \in Nat /\ DOMAIN f = 1..n /\ (f # <<>> => n \in 1..n)
  BY FileShape
<1>3. m \in Nat /\ m <= n /\ n - m \in {0, 1}
  BY <1>1 DEF Complete, Unterminated
<1>4. m <= Len(acked) /\ \A i \in 1..m : f[i] = WholeLine(acked[i])
  BY DEF Acknowledges
<1>5. /\ a \in Seq(Line) /\ Len(a) = m /\ \A i \in 1..m : a[i] = f[i]
      /\ b \in Seq(Line) /\ Len(b) = n - m
      /\ f = a \o b
  BY <1>1, <1>3, SplitAfter
<1> HIDE DEF n, m, a, b
<1>6. \A i \in 1..m : /\ f[i].fragments = <<[event |-> acked[i], text |-> "whole"]>>
                      /\ Reading(f[i]) = "event" /\ EventAt(f, i) = acked[i]
  <2> TAKE i \in 1..m
  <2>0. f[i] = WholeLine(acked[i])
    BY <1>4
  <2>1. f[i].fragments = <<[event |-> acked[i], text |-> "whole"]>>
    BY <2>0 DEF WholeLine
  <2> DEFINE d == f[i].fragments
  <2>2. /\ Len(d) = 1 /\ d # <<>> /\ DOMAIN d = {1}
        /\ d[1].text = "whole" /\ d[1].event = acked[i]
    BY <2>1
  <2>3. Reading(f[i]) = "event"
    BY <2>2, OneDocument
  <2> QED
    BY <2>1, <2>2, <2>3 DEF EventAt
<1>8. EventsOf(a) = [k \in 1..m |-> acked[k]]
  <2>1. \A i \in 1..m : a[i] = f[i] /\ EventAt(a, i) = acked[i]
    BY <1>5, <1>6 DEF EventAt
  <2>2. Good(a) = 1..Len(a)
    <3>1. DOMAIN a = 1..m /\ 1..Len(a) = 1..m
      BY <1>5
    <3>2. \A i \in 1..m : Reading(a[i]) = "event"
      BY <1>5, <1>6
    <3> QED
      BY <3>1, <3>2 DEF Good
  <2>3. EventsOf(a) = [k \in 1..Len(a) |-> EventAt(a, k)]
    BY <1>5, <2>2, EachAnEvent
  <2> QED
    BY <1>5, <2>1, <2>3
<1> DEFINE x == EventsOf(a)
           y == EventsOf(b)
<1>9. /\ x \in Seq(Event) /\ Len(x) = m /\ \A k \in 1..m : x[k] = acked[k]
  <2>1. x \in Seq(Event)
    BY <1>5, EventsListed
  <2> HIDE DEF x
  <2> QED
    BY <1>3, <1>8, <2>1 DEF x
<1>10. y \in Seq(Event) /\ Len(y) \in 0..1
  <2>1. Len(b) \in {0, 1}
    BY <1>3, <1>5
  <2>2. y \in Seq(Event) /\ Len(y) \in 0..Len(b)
    BY ONLY <1>5, <2>1, OneEvent
  <2> HIDE DEF y
  <2> QED
    BY <2>1, <2>2
<1>11. EventsOf(f) = x \o y
  BY <1>5, EventsConcat
<1> HIDE DEF x, y
<1>12. /\ x \o y \in Seq(Event) /\ Len(x \o y) \in m..(m + 1)
       /\ \A k \in 1..m : (x \o y)[k] = acked[k]
  <2>1. x \in Seq(Event) /\ y \in Seq(Event)
    BY <1>9, <1>10
  <2>2. /\ x \o y \in Seq(Event) /\ Len(x \o y) = Len(x) + Len(y)
        /\ \A k \in 1..Len(x) : (x \o y)[k] = x[k]
    BY ONLY <2>1, ConcatProperties
  <2>3. Len(x \o y) \in m..(m + 1)
    <3> DEFINE p == Len(x \o y)
               q == Len(y)
    <3>1. p = m + q /\ q \in 0..1
      BY <1>9, <1>10, <2>2
    <3> HIDE DEF p, q
    <3>2. p \in m..(m + 1)
      BY <1>3, <3>1
    <3> QED
      BY <3>2 DEF p
  <2> QED
    BY <1>9, <2>2, <2>3
<1> QED
  BY <1>3, <1>4, <1>11, <1>6, <1>12 DEF m

(* A file with no broken line has one document to a line, and no reading of *)
(* it is refused.                                                           *)
LEMMA UnbrokenReads ==
  ASSUME NEW f, FileOK(f), Unbroken(f),
         NEW acked \in Seq(Event), Acknowledges(f, acked)
  PROVE  Single(f) /\ ReadLines(f).ok
<1> DEFINE n == Len(f)
           m == Complete(f)
<1>1. f \in Seq(Line) /\ n \in Nat /\ DOMAIN f = 1..n /\ (f # <<>> => n \in 1..n)
  BY FileShape
<1>2. Single(f)
  <2> SUFFICES ASSUME NEW i \in DOMAIN f
               PROVE  Len(f[i].fragments) = 1
    BY DEF Single
  <2> DEFINE k == Len(f[i].fragments)
  <2>1. k <= 1
    BY DEF Unbroken
  <2>2. i \in 1..Len(f)
    BY <1>1
  <2>3. k \in Nat \ {0}
    BY ONLY FileOK(f), <2>2, LineParts
  <2> HIDE DEF k
  <2>4. k = 1
    BY <2>1, <2>3
  <2> QED
    BY <2>4 DEF k
<1>3. m \in Nat /\ m <= n /\ n - m \in {0, 1}
  BY <1>1 DEF Complete, Unterminated
<1>6. \A i \in 1..m : Reading(f[i]) = "event"
  BY <1>2, SingleReads
<1> HIDE DEF n, m
<1>7. ReadLines(f).ok
  <2>1. ASSUME NEW i \in DOMAIN f
        PROVE  Reading(f[i]) # "unreadable" /\ ~(Reading(f[i]) = "corrupt" /\ i < Len(f))
    <3>1. Reading(f[i]) # "unreadable"
      BY DEF Unbroken
    <3>2. i \in 1..m \/ i = n
      BY <1>1, <1>3
    <3>3. Len(f) = n /\ n \in Nat
      BY <1>1 DEF n
    <3>4. CASE i \in 1..m
      BY <1>6, <3>1, <3>4
    <3>5. CASE i = n
      <4>1. ~(i < Len(f))
        BY <3>3, <3>5
      <4> QED
        BY <3>1, <4>1
    <3> QED
      BY <3>2, <3>4, <3>5
  <2> QED
    BY <2>1, ReadingSucceeds
<1> QED
  BY <1>2, <1>7

-----------------------------------------------------------------------------
(* The window, its page, and the counter a start opens with.                *)

(* A part of a sequence, place by place.                                    *)
LEMMA PartOf ==
  ASSUME NEW s \in Seq(Event), NEW a \in Nat, NEW b \in Nat, b <= Len(s)
  PROVE  /\ SubSeq(s, a + 1, b) \in Seq(Event)
         /\ SubSeq(s, a + 1, b) = [i \in 1..(b - a) |-> s[i + a]]
<1> DEFINE part == SubSeq(s, a + 1, b)
<1>1. part = [i \in 1..(b - a) |-> s[i + a]]
  OBVIOUS
<1>2. part \in Seq(Event)
  <2>1. Len(s) \in Nat /\ \A i \in 1..Len(s) : s[i] \in Event
    OBVIOUS
  <2>2. \A i \in 1..(b - a) : i + a \in 1..Len(s)
    BY <2>1
  <2> DEFINE n == IF a <= b THEN b - a ELSE 0
  <2>3. n \in Nat /\ 1..(b - a) = 1..n
    OBVIOUS
  <2> HIDE DEF n, part
  <2>4. part \in [1..n -> Event]
    BY <1>1, <2>1, <2>2, <2>3
  <2> QED
    BY <2>3, <2>4, SeqDef
<1> QED
  BY <1>1, <1>2

(* The last n of a sequence, place by place.                                *)
LEMMA LastOnes ==
  ASSUME NEW s \in Seq(Event), NEW n \in Nat
  PROVE  LET d == SaturatingSub(Len(s), n)
         IN /\ d \in Nat /\ d <= Len(s)
            /\ Len(s) - d = IF Len(s) < n THEN Len(s) ELSE n
            /\ LastOf(s, n) \in Seq(Event)
            /\ LastOf(s, n) = [i \in 1..(Len(s) - d) |-> s[i + d]]
            /\ Len(LastOf(s, n)) = Len(s) - d
<1> DEFINE d == SaturatingSub(Len(s), n)
           m == Len(s)
<1>1. d \in Nat /\ d <= m /\ m - d = (IF m < n THEN m ELSE n) /\ m \in Nat
  <2>1. m \in Nat
    OBVIOUS
  <2>2. d = IF m > n THEN m - n ELSE 0
    BY DEF SaturatingSub
  <2> HIDE DEF m, d
  <2> QED
    BY <2>1, <2>2
<1>2. LastOf(s, n) = SubSeq(s, d + 1, m)
  BY DEF LastOf
<1> HIDE DEF d
<1>3. /\ SubSeq(s, d + 1, m) \in Seq(Event)
      /\ SubSeq(s, d + 1, m) = [i \in 1..(m - d) |-> s[i + d]]
  BY <1>1, PartOf
<1> DEFINE last == LastOf(s, n)
<1>4. last \in Seq(Event) /\ last = [i \in 1..(m - d) |-> s[i + d]]
  BY <1>2, <1>3
<1> HIDE DEF last, m
<1>5. m - d \in Nat
  BY <1>1
<1>6. Len(last) = m - d
  <2>1. DOMAIN last = 1..(m - d)
    BY <1>4
  <2> QED
    BY <1>4, <1>5, <2>1, LenProperties
<1> QED
  BY <1>1, <1>4, <1>6 DEF m, last, d

(* Of nothing, the last ones are nothing.                                  *)
LEMMA LastOfNothing == LastOf(<<>>, WindowCapacity) = <<>>
<1>1. Len(<<>>) = 0 /\ <<>> \in Seq(Event) /\ WindowCapacity \in Nat
  BY LogAssumption
<1> DEFINE l == Len(LastOf(<<>>, WindowCapacity))
           d == SaturatingSub(Len(<<>>), WindowCapacity)
<1>2. /\ d \in Nat /\ d <= Len(<<>>) /\ l = Len(<<>>) - d
      /\ LastOf(<<>>, WindowCapacity) \in Seq(Event)
  BY ONLY <1>1, LastOnes
<1> HIDE DEF d, l
<1>3. l = 0
  BY <1>1, <1>2
<1> QED
  BY ONLY <1>2, <1>3, EmptySeq DEF l

(* Pushing an event keeps the window the last of the events.                *)
LEMMA PushKeepsLast ==
  ASSUME NEW s \in Seq(Event), NEW e \in Event
  PROVE  PushEventWindow(LastOf(s, WindowCapacity), e)
           = LastOf(Append(s, e), WindowCapacity)
<1> DEFINE c == WindowCapacity
           m == Len(s)
           d == SaturatingSub(m, c)
           old == LastOf(s, c)
           t == Append(s, e)
           k == SaturatingSub(m + 1, c)
           new == LastOf(t, c)
           pushed == PushEventWindow(old, e)
<1>1. c \in Nat /\ m \in Nat
  BY LogAssumption
<1>2. /\ t \in Seq(Event) /\ Len(t) = m + 1
      /\ \A i \in 1..m : t[i] = s[i]
      /\ t[m + 1] = e
  OBVIOUS
<1>3. /\ d \in Nat /\ d <= m /\ m - d = (IF m < c THEN m ELSE c)
      /\ old \in Seq(Event)
      /\ old = [i \in 1..(m - d) |-> s[i + d]]
      /\ Len(old) = m - d
  BY <1>1, LastOnes
<1>4. /\ k \in Nat /\ k <= m + 1 /\ (m + 1) - k = (IF m + 1 < c THEN m + 1 ELSE c)
      /\ new \in Seq(Event)
      /\ new = [i \in 1..((m + 1) - k) |-> t[i + k]]
      /\ Len(new) = (m + 1) - k
  <2> DEFINE q == Len(t)
             l == SaturatingSub(q, c)
  <2>1. /\ l \in Nat /\ l <= q /\ q - l = (IF q < c THEN q ELSE c)
        /\ LastOf(t, c) \in Seq(Event)
        /\ LastOf(t, c) = [i \in 1..(q - l) |-> t[i + l]]
        /\ Len(LastOf(t, c)) = q - l
    BY ONLY <1>1, <1>2, LastOnes
  <2>2. q = m + 1
    BY <1>2
  <2> HIDE DEF q
  <2> QED
    BY <2>1, <2>2
<1>5. pushed = IF c = 0 THEN old
               ELSE IF Len(old) = c THEN Append(Tail(old), e) ELSE Append(old, e)
  BY Zenon DEF PushEventWindow
<1>6. k = (IF m < c THEN 0 ELSE (m + 1) - c) /\ d = (IF m < c THEN 0 ELSE m - c)
  BY <1>1 DEF SaturatingSub
<1> HIDE DEF c, m, d, old, t, k, new, pushed
<1>7. CASE c = 0
  <2>1. Len(old) = 0 /\ Len(new) = 0
    BY <1>1, <1>3, <1>4, <1>7
  <2>2. old = <<>> /\ new = <<>>
    BY ONLY <1>3, <1>4, <2>1, EmptySeq
  <2> QED
    BY <1>5, <1>7, <2>2 DEF pushed, old, new, c, t
<1>8. CASE c # 0 /\ m < c
  <2>1. Len(old) = m /\ d = 0 /\ k = 0
    BY <1>1, <1>3, <1>6, <1>8
  <2>2. pushed = Append(old, e)
    BY <1>1, <1>5, <1>8, <2>1
  <2>3. /\ pushed \in Seq(Event) /\ Len(pushed) = m + 1
        /\ \A i \in 1..m : pushed[i] = old[i]
        /\ pushed[m + 1] = e
    <3> DEFINE q == Len(old)
    <3>1. /\ pushed \in Seq(Event) /\ Len(pushed) = q + 1
          /\ \A i \in 1..q : pushed[i] = old[i]
          /\ pushed[q + 1] = e
      <4>1. old \in Seq(Event)
        BY <1>3
      <4>2. /\ Append(old, e) \in Seq(Event) /\ Len(Append(old, e)) = Len(old) + 1
            /\ \A i \in 1..Len(old) : Append(old, e)[i] = old[i]
            /\ Append(old, e)[Len(old) + 1] = e
        BY ONLY e \in Event, <4>1, AppendProperties
      <4> QED
        BY <2>2, <4>2
    <3>2. q = m
      BY <2>1
    <3> HIDE DEF q
    <3> QED
      BY <3>1, <3>2
  <2>4. Len(new) = m + 1 /\ \A i \in 1..(m + 1) : new[i] = t[i]
    BY <1>1, <1>4, <2>1
  <2>5. \A i \in 1..m : old[i] = s[i]
    BY <1>1, <1>3, <2>1
  <2>6. \A i \in 1..(m + 1) : pushed[i] = new[i]
    BY <1>1, <1>2, <2>3, <2>4, <2>5
  <2>7. pushed = new
    BY <1>4, <2>3, <2>4, <2>6, SeqEqual
  <2> QED
    BY <2>7 DEF pushed, old, new, c, t
<1>9. CASE c # 0 /\ ~(m < c)
  <2>1. Len(old) = c /\ d = m - c /\ k = (m + 1) - c
    BY <1>1, <1>3, <1>6, <1>9
  <2>2. pushed = Append(Tail(old), e)
    BY <1>5, <1>9, <2>1
  <2> DEFINE tail == Tail(old)
  <2>3. /\ tail \in Seq(Event) /\ Len(tail) = c - 1
        /\ \A i \in 1..(c - 1) : tail[i] = old[i + 1]
    <3>1. old # <<>>
      BY <1>1, <1>9, <2>1
    <3> QED
      BY <1>3, <2>1, <3>1, HeadTailProperties
  <2> HIDE DEF tail
  <2>4. /\ pushed \in Seq(Event) /\ Len(pushed) = c
        /\ \A i \in 1..(c - 1) : pushed[i] = tail[i]
        /\ pushed[c] = e
    <3>1. pushed = Append(tail, e)
      BY <2>2 DEF tail
    <3>2. /\ pushed \in Seq(Event) /\ Len(pushed) = (c - 1) + 1
          /\ \A i \in 1..(c - 1) : pushed[i] = tail[i]
          /\ pushed[(c - 1) + 1] = e
      BY <2>3, <3>1
    <3>3. (c - 1) + 1 = c
      BY <1>1
    <3> QED
      BY <3>2, <3>3
  <2>5. Len(new) = c /\ \A i \in 1..c : new[i] = t[i + k]
    <3>1. (m + 1) - k = c
      BY <1>1, <1>9, <2>1
    <3> QED
      BY <1>4, <3>1
  <2>6. ASSUME NEW i \in 1..c
        PROVE  pushed[i] = new[i]
    <3>1. CASE i = c
      <4>1. i + k = m + 1
        BY <1>1, <2>1, <3>1
      <4> QED
        BY <1>2, <2>4, <2>5, <3>1, <4>1
    <3>2. CASE i # c
      <4>1. i \in 1..(c - 1) /\ i + k \in 1..m /\ (i + 1) + d = i + k
            /\ i + 1 \in 1..(m - d)
        BY <1>1, <1>9, <2>1, <3>2
      <4>2. pushed[i] = old[i + 1]
        BY <2>3, <2>4, <4>1
      <4>3. old[i + 1] = s[i + k]
        BY <1>3, <4>1
      <4>4. new[i] = s[i + k]
        BY <1>2, <2>5, <4>1
      <4> QED
        BY <4>2, <4>3, <4>4
    <3> QED
      BY <3>1, <3>2
  <2>7. pushed = new
    BY <1>4, <2>4, <2>5, <2>6, SeqEqual
  <2> QED
    BY <2>7 DEF pushed, old, new, c, t
<1> QED
  BY <1>1, <1>7, <1>8, <1>9

(* A page of the window is the page of the events, as far as it goes back.  *)
LEMMA PageOfWindow ==
  ASSUME NEW s \in Seq(Event), NEW offset \in Nat, NEW limit \in Nat,
         inner.total_events = Len(s), inner.events = LastOf(s, WindowCapacity)
  PROVE  LET oldest == SaturatingSub(Len(s), WindowCapacity)
             from == IF offset > oldest THEN offset ELSE oldest
             to == IF from + limit < Len(s) THEN from + limit ELSE Len(s)
         IN Window(offset, limit) = [total |-> Len(s),
                                     events |-> SubSeq(s, from + 1, to)]
<1> DEFINE c == WindowCapacity
           m == Len(s)
           d == SaturatingSub(m, c)
           old == LastOf(s, c)
           from == IF offset > d THEN offset ELSE d
           to == IF from + limit < m THEN from + limit ELSE m
           retained == SaturatingSub(m, Len(old))
           local == SaturatingSub(offset, retained)
           last == IF local + limit < Len(old) THEN local + limit ELSE Len(old)
<1>1. c \in Nat /\ m \in Nat
  BY LogAssumption
<1>2. /\ d \in Nat /\ d <= m
      /\ old \in Seq(Event)
      /\ old = [i \in 1..(m - d) |-> s[i + d]]
      /\ Len(old) = m - d
  BY <1>1, LastOnes
<1>3. Window(offset, limit) = [total |-> m, events |-> SubSeq(old, local + 1, last)]
  BY DEF Window
<1>4. /\ retained = IF m > Len(old) THEN m - Len(old) ELSE 0
      /\ local = IF offset > retained THEN offset - retained ELSE 0
  BY DEF SaturatingSub
<1> DEFINE q == Len(old)
<1>5. q = m - d
  BY <1>2
<1>6. /\ retained = IF m > q THEN m - q ELSE 0
      /\ last = IF local + limit < q THEN local + limit ELSE q
  BY <1>4
<1> HIDE DEF c, m, d, old, retained, local, last, q
<1>7. retained = d
  BY <1>1, <1>2, <1>5, <1>6
<1>8. /\ local \in Nat /\ from = d + local
      /\ last \in Nat /\ last <= q /\ to = d + last
  BY <1>1, <1>2, <1>4, <1>5, <1>6, <1>7
<1>9. SubSeq(old, local + 1, last) = [i \in 1..(last - local) |-> old[i + local]]
  BY <1>2, <1>8, PartOf DEF q
<1> HIDE DEF from, to
<1>10. SubSeq(s, from + 1, to) = [i \in 1..(to - from) |-> s[i + from]]
  <2>1. from \in Nat /\ to \in Nat /\ to <= m
    BY <1>1, <1>2, <1>5, <1>8
  <2> QED
    BY <2>1, PartOf DEF m
<1>11. to - from = last - local
  BY <1>2, <1>8
<1>12. ASSUME NEW i \in 1..(last - local)
       PROVE  old[i + local] = s[i + from]
  <2>1. i + local \in 1..(m - d) /\ (i + local) + d = i + from
    BY <1>1, <1>2, <1>5, <1>8
  <2> QED
    BY <1>2, <2>1
<1>13. SubSeq(old, local + 1, last) = SubSeq(s, from + 1, to)
  BY <1>9, <1>10, <1>11, <1>12
<1> QED
  BY <1>3, <1>13 DEF from, to, d, m, c

(* The id a start continues from: the highest there is.                     *)
LEMMA HighestId ==
  ASSUME NEW events \in Seq(Event),
         \A j, k \in DOMAIN events : j < k => events[j].id < events[k].id
  PROVE  LET highest == Max({events[i].id : i \in DOMAIN events} \cup {0})
         IN /\ highest = 0 \/ \E i \in DOMAIN events : highest = events[i].id
            /\ \A i \in DOMAIN events : events[i].id <= highest
<1> DEFINE n == Len(events)
           ids == {events[i].id : i \in DOMAIN events} \cup {0}
           highest == Max(ids)
<1>1. n \in Nat /\ DOMAIN events = 1..n
  OBVIOUS
<1>2. \A i \in 1..n : events[i].id \in Nat
  <2>1. \A i \in 1..n : events[i] \in Event
    BY <1>1
  <2> QED
    BY <2>1, LogAssumption DEF Event
<1> HIDE DEF n
<1>3. \E x \in ids : \A y \in ids : x >= y
  <2>1. CASE n = 0
    <3>1. ids = {0}
      BY <1>1, <2>1
    <3> HIDE DEF ids
    <3>2. 0 \in ids /\ \A y \in ids : 0 >= y
      BY <3>1
    <3> QED
      BY <3>2
  <2>2. CASE n # 0
    <3>1. n \in 1..n
      BY <1>1, <2>2
    <3>2. \A i \in 1..n : events[n].id >= events[i].id
      <4>1. \A i \in 1..n : i # n => i < n
        BY <1>1
      <4>2. \A i \in 1..n : i # n => events[i].id < events[n].id
        BY <1>1, <3>1, <4>1
      <4> QED
        BY <1>2, <3>1, <4>2
    <3>3. \A y \in ids : events[n].id >= y
      BY <1>1, <1>2, <3>1, <3>2
    <3>4. events[n].id \in ids
      BY <1>1, <3>1
    <3> QED
      BY <3>3, <3>4
  <2> QED
    BY <2>1, <2>2
<1>4. highest \in ids /\ \A y \in ids : highest >= y
  BY <1>3 DEF Max
<1>5. \A i \in 1..n : events[i].id \in ids
  BY <1>1
<1>6. highest \in Nat
  BY <1>1, <1>2, <1>4
<1> HIDE DEF highest, ids
<1>7. \A i \in 1..n : events[i].id <= highest
  BY <1>2, <1>4, <1>5, <1>6
<1>8. highest = 0 \/ \E i \in DOMAIN events : highest = events[i].id
  BY <1>4 DEF ids
<1> QED
  BY <1>1, <1>7, <1>8 DEF highest, ids

(* More is acknowledged.                                                    *)
LEMMA AcknowledgesMore ==
  ASSUME NEW f, FileOK(f), NEW acked \in Seq(Event), NEW e \in Event,
         Acknowledges(f, acked)
  PROVE  Acknowledges(f, Append(acked, e))
<1> DEFINE m == Complete(f)
           n == Len(acked)
           more == Append(acked, e)
<1>1. n \in Nat /\ m \in Int
  BY FileShape DEF Complete
<1>2. Len(more) = n + 1 /\ \A i \in 1..n : more[i] = acked[i]
  OBVIOUS
<1>3. Single(f) => m <= n /\ \A i \in 1..m : f[i] = WholeLine(acked[i])
  BY DEF Acknowledges
<1> HIDE DEF m, n, more
<1>4. Single(f) => m <= Len(more) /\ \A i \in 1..m : f[i] = WholeLine(more[i])
  BY <1>1, <1>2, <1>3
<1> QED
  BY <1>4 DEF Acknowledges, m, more

(* A file has grown to itself.                                              *)
LEMMA GrownToItself ==
  ASSUME NEW f, FileOK(f)
  PROVE  GrownTo(f, f)
<1>1. Len(f) \in Nat /\ \A i \in 1..Len(f) : Len(f[i].fragments) \in Nat
  BY FileShape, LineParts
<1>2. DOMAIN f = 1..Len(f)
  BY FileShape
<1> QED
  BY <1>1, <1>2 DEF GrownTo

-----------------------------------------------------------------------------
(* The invariant, step by step.                                             *)

(* The parts of the state.                                                  *)
LEMMA StateParts ==
  ASSUME Types
  PROVE  /\ appends \in 0..MaxAppends /\ MaxAppends \in Nat /\ WindowCapacity \in Nat
         /\ appends \in Nat
         /\ inner.next_id \in 0..appends /\ inner.total_events \in Nat
         /\ inner.next_id \in Nat
         /\ inner.events \in Seq(Event)
         /\ inner = [next_id |-> inner.next_id, total_events |-> inner.total_events,
                     events |-> inner.events]
         /\ writer.stage \in {"idle", "opened", "begun", "written"}
         /\ writer.event \in Event \cup {NoEvent}
         /\ writer = [stage |-> writer.stage, event |-> writer.event]
         /\ reader.stage \in {"idle", "reading", "done"}
         /\ reader.seen \in Seq(Line) /\ reader.lines \in Seq(Line)
         /\ reader.acknowledged \in Nat
         /\ reader = [stage |-> reader.stage, seen |-> reader.seen,
                      lines |-> reader.lines, acknowledged |-> reader.acknowledged]
         /\ recorded \in Seq(Event) /\ acknowledged \in Seq(Event)
<1>1. /\ appends \in 0..MaxAppends /\ MaxAppends \in Nat /\ WindowCapacity \in Nat
      /\ recorded \in Seq(Event) /\ acknowledged \in Seq(Event)
  BY LogAssumption DEF Types
<1>2. /\ inner.next_id \in 0..appends /\ inner.total_events \in Nat
      /\ inner.events \in Seq(Event)
      /\ inner = [next_id |-> inner.next_id, total_events |-> inner.total_events,
                  events |-> inner.events]
  <2>1. inner \in [next_id : 0..appends, total_events : Nat, events : Seq(Event)]
    BY DEF Types
  <2> QED
    BY <2>1
<1>3. /\ writer.stage \in {"idle", "opened", "begun", "written"}
      /\ writer.event \in Event \cup {NoEvent}
      /\ writer = [stage |-> writer.stage, event |-> writer.event]
  <2>1. writer \in [stage : {"idle", "opened", "begun", "written"},
                    event : Event \cup {NoEvent}]
    BY DEF Types
  <2> QED
    BY <2>1
<1>4. /\ reader.stage \in {"idle", "reading", "done"}
      /\ reader.seen \in Seq(Line) /\ reader.lines \in Seq(Line)
      /\ reader.acknowledged \in Nat
      /\ reader = [stage |-> reader.stage, seen |-> reader.seen,
                   lines |-> reader.lines, acknowledged |-> reader.acknowledged]
  <2>1. reader \in [stage : {"idle", "reading", "done"}, seen : Seq(Line),
                    lines : Seq(Line), acknowledged : Nat]
    BY DEF Types
  <2> QED
    BY <2>1
<1>5. appends \in Nat /\ inner.next_id \in Nat
  BY <1>1, <1>2
<1> QED
  BY <1>1, <1>2, <1>3, <1>4, <1>5

(* While the file grows, the reader keeps what it knows.                    *)
LEMMA ReadsKept ==
  ASSUME Types, Reads, FileOK(file), FileOK(file'), GrownTo(file, file'),
         reader' = reader,
         \/ acknowledged' = acknowledged
         \/ \E e \in Event : acknowledged' = Append(acknowledged, e)
  PROVE  Reads'
<1> SUFFICES ASSUME reader.stage # "idle"
             PROVE  /\ FileOK(reader.seen)
                    /\ GrownTo(reader.seen, file')
                    /\ Acknowledges(reader.seen, acknowledged')
                    /\ Single(reader.seen) => reader.acknowledged =< Complete(reader.seen)
                    /\ Single(file') => Follows(reader.lines, reader.seen)
  BY Zenon DEF Reads
<1>1. /\ FileOK(reader.seen)
      /\ GrownTo(reader.seen, file)
      /\ Acknowledges(reader.seen, acknowledged)
      /\ Single(reader.seen) => reader.acknowledged =< Complete(reader.seen)
      /\ Single(file) => Follows(reader.lines, reader.seen)
  BY DEF Reads
<1>2. GrownTo(reader.seen, file')
  BY <1>1, GrowsOn
<1>3. Single(file') => Single(file)
  BY SingleBefore
<1>4. Acknowledges(reader.seen, acknowledged')
  <2>1. acknowledged \in Seq(Event)
    BY StateParts
  <2> QED
    BY <1>1, <2>1, AcknowledgesMore
<1> QED
  BY <1>1, <1>2, <1>3, <1>4

(* In the beginning.                                                        *)
LEMMA LInvInit ==
  ASSUME Init
  PROVE  LInv
<1> USE DEF Init
<1>1. file = <<>> /\ Len(file) = 0 /\ DOMAIN file = {} /\ file \in Seq(Line)
  OBVIOUS
<1>2. Types
  <2>1. 0 \in 0..MaxAppends /\ 0 \in 0..0
    BY LogAssumption
  <2> QED
    BY <2>1 DEF Types, Empty, Idle, NoReader
<1>3. Writing
  <2>1. FileOK(file)
    BY <1>1 DEF FileOK, Good
  <2> QED
    BY <1>1, <2>1 DEF Writing, IdsUpTo, Idle
<1>4. Numbered
  BY DEF Numbered
<1>5. Windowed
  BY LastOfNothing DEF Windowed, Empty
<1>6. IdsIncrease
  BY DEF IdsIncrease
<1>7. Kept
  <2>1. Complete(file) = 0
    BY <1>1 DEF Complete, Unterminated
  <2>2. acknowledged = <<>> /\ Len(acknowledged) = 0
    OBVIOUS
  <2> QED
    BY <2>1, <2>2 DEF Kept, Acknowledges
<1>8. Reads
  BY DEF Reads, NoReader
<1> QED
  BY <1>2, <1>3, <1>4, <1>5, <1>6, <1>7, <1>8 DEF LInv

(* The ids a start reads.                                                   *)
LEMMA IdsRead ==
  ASSUME FileOK(file), NEW b \in Nat, IdsUpTo(file, b)
  PROVE  LET events == EventsOf(file)
             opened == Opened(events)
         IN /\ events \in Seq(Event)
            /\ opened \in [next_id : 0..b, total_events : Nat, events : Seq(Event)]
            /\ opened.total_events = Len(events)
            /\ opened.events = LastOf(events, WindowCapacity)
            /\ \A i \in DOMAIN events : events[i].id <= opened.next_id
            /\ \A i \in Good(file) : EventAt(file, i).id <= opened.next_id
<1> DEFINE events == EventsOf(file)
           opened == Opened(events)
           highest == Max({events[i].id : i \in DOMAIN events} \cup {0})
<1>1. /\ events \in Seq(Event)
      /\ \A j, k \in DOMAIN events : j < k => events[j].id < events[k].id
      /\ \A k \in DOMAIN events : \E i \in Good(file) : events[k] = EventAt(file, i)
      /\ \A i \in Good(file) : \E k \in DOMAIN events : events[k] = EventAt(file, i)
  BY EventsIncrease
<1>2. opened = [next_id |-> highest, total_events |-> Len(events),
                events |-> LastOf(events, WindowCapacity)]
  BY Zenon DEF Opened, BoundedEventWindow
<1>3. /\ LastOf(events, WindowCapacity) \in Seq(Event) /\ Len(events) \in Nat
  <2>1. WindowCapacity \in Nat
    BY LogAssumption
  <2> HIDE DEF events
  <2>2. LastOf(events, WindowCapacity) \in Seq(Event)
    BY ONLY <1>1, <2>1, LastOnes
  <2> QED
    BY <1>1, <2>2
<1> HIDE DEF events
<1>4. /\ highest = 0 \/ \E i \in DOMAIN events : highest = events[i].id
      /\ \A i \in DOMAIN events : events[i].id <= highest
  BY <1>1, HighestId
<1> HIDE DEF highest
<1>5. \A i \in Good(file) : EventAt(file, i).id \in 0..b
  <2> TAKE i \in Good(file)
  <2>1. i \in 1..Len(file) /\ i \in DOMAIN file
    BY FileShape DEF Good
  <2>2. /\ file[i].fragments[1] \in Fragment
        /\ DOMAIN file[i].fragments = 1..Len(file[i].fragments)
        /\ Len(file[i].fragments) \in Nat \ {0}
    BY <2>1, LineParts
  <2>3. file[i].fragments[1].event.id <= b
    <3>1. 1 \in DOMAIN file[i].fragments
      BY <2>2
    <3> QED
      BY <2>1, <3>1 DEF IdsUpTo
  <2>4. file[i].fragments[1].event.id \in Nat
    BY <2>2, LogAssumption DEF Fragment, Event
  <2> QED
    BY <2>3, <2>4 DEF EventAt
<1>6. highest \in 0..b
  BY <1>1, <1>4, <1>5
<1>7. opened \in [next_id : 0..b, total_events : Nat, events : Seq(Event)]
  BY <1>2, <1>3, <1>6
<1>8. \A i \in Good(file) : EventAt(file, i).id <= highest
  BY <1>1, <1>4
<1> QED
  BY <1>1, <1>2, <1>4, <1>7, <1>8 DEF events

(* A start.                                                                 *)
LEMMA LInvStart ==
  ASSUME LInv, Start
  PROVE  LInv'
<1>1. Types /\ Writing /\ Numbered /\ Windowed /\ IdsIncrease /\ Kept /\ Reads
  BY DEF LInv
<1>2. /\ process = "down"
      /\ file' = file /\ writer' = writer /\ reader' = reader /\ appends' = appends
      /\ acknowledged' = acknowledged
  BY DEF Start
<1>3. inner = Empty /\ writer = Idle /\ reader = NoReader /\ recorded = <<>>
  BY <1>1, <1>2 DEF Types
<1>4. FileOK(file) /\ IdsUpTo(file, appends) /\ appends \in Nat
  BY <1>1, StateParts DEF Writing
<1>5. Writing' /\ Kept' /\ Reads'
  <2>1. Writing'
    BY <1>2, <1>3, <1>4 DEF Writing, Idle
  <2>2. Kept'
    BY <1>1, <1>2 DEF Kept
  <2>3. Reads'
    BY <1>2, <1>3 DEF Reads, NoReader
  <2> QED
    BY <2>1, <2>2, <2>3
<1>6. CASE ReadLines(file).ok
  <2> DEFINE events == EventsOf(file)
             opened == Opened(events)
  <2>1. process' = "up" /\ inner' = opened /\ recorded' = events
    BY <1>6, ReadingSucceeds DEF Start
  <2>2. /\ events \in Seq(Event)
        /\ opened \in [next_id : 0..appends, total_events : Nat, events : Seq(Event)]
        /\ opened.total_events = Len(events)
        /\ opened.events = LastOf(events, WindowCapacity)
        /\ \A i \in DOMAIN events : events[i].id <= opened.next_id
        /\ \A i \in Good(file) : EventAt(file, i).id <= opened.next_id
    BY <1>4, IdsRead
  <2>3. \A j, k \in DOMAIN events : j < k => events[j].id < events[k].id
    BY <1>4, EventsIncrease
  <2> HIDE DEF events, opened
  <2>4. Types'
    BY <1>1, <1>2, <2>1, <2>2 DEF Types
  <2>5. Numbered'
    BY <1>2, <1>3, <2>1, <2>2 DEF Numbered, Idle
  <2>6. Windowed'
    BY <2>1, <2>2 DEF Windowed
  <2>7. IdsIncrease'
    BY <2>1, <2>3 DEF IdsIncrease
  <2> QED
    BY <1>5, <2>4, <2>5, <2>6, <2>7 DEF LInv
<1>7. CASE ~ReadLines(file).ok
  <2>1. process' = "refused" /\ inner' = inner /\ recorded' = recorded
    BY <1>7 DEF Start
  <2>2. Types'
    BY <1>1, <1>2, <1>3, <2>1 DEF Types
  <2>3. Numbered'
    BY <2>1 DEF Numbered
  <2>4. Windowed' /\ IdsIncrease'
    BY <1>1, <2>1 DEF Windowed, IdsIncrease
  <2> QED
    BY <1>5, <2>2, <2>3, <2>4 DEF LInv
<1> QED
  BY <1>6, <1>7

(* A crash.                                                                 *)
LEMMA LInvCrash ==
  ASSUME LInv, Crash
  PROVE  LInv'
<1>1. Types /\ Writing /\ Numbered /\ Windowed /\ IdsIncrease /\ Kept /\ Reads
  BY DEF LInv
<1>2. /\ process' = "down"
      /\ inner' = Empty /\ writer' = Idle /\ reader' = NoReader /\ recorded' = <<>>
      /\ file' = file /\ appends' = appends /\ acknowledged' = acknowledged
  BY DEF Crash
<1>3. Types'
  <2>1. appends \in Nat /\ 0 \in 0..appends
    BY <1>1, StateParts
  <2>2. Empty \in [next_id : 0..appends, total_events : Nat, events : Seq(Event)]
    BY <2>1 DEF Empty
  <2>3. Idle \in [stage : {"idle", "opened", "begun", "written"},
                  event : Event \cup {NoEvent}]
    BY DEF Idle
  <2>4. NoReader \in [stage : {"idle", "reading", "done"}, seen : Seq(Line),
                      lines : Seq(Line), acknowledged : Nat]
    BY DEF NoReader
  <2> QED
    BY <1>1, <1>2, <2>2, <2>3, <2>4 DEF Types
<1>4. Writing' /\ Numbered'
  BY <1>1, <1>2 DEF Writing, Numbered, Idle
<1>5. Windowed' /\ IdsIncrease'
  <2>1. Windowed'
    BY <1>2, LastOfNothing DEF Windowed, Empty
  <2>2. IdsIncrease'
    BY <1>2 DEF IdsIncrease
  <2> QED
    BY <2>1, <2>2
<1>6. Kept' /\ Reads'
  BY <1>1, <1>2 DEF Kept, Reads, NoReader
<1> QED
  BY <1>3, <1>4, <1>5, <1>6 DEF LInv

(* A new append.                                                            *)
LEMMA LInvBeginAppend ==
  ASSUME LInv, BeginAppend
  PROVE  LInv'
<1>1. Types /\ Writing /\ Numbered /\ Windowed /\ IdsIncrease /\ Kept /\ Reads
  BY DEF LInv
<1> DEFINE id == inner.next_id + 1
           e == [id |-> id, serial |-> appends + 1]
<1>2. /\ process = "up" /\ appends < MaxAppends /\ appends' = appends + 1
      /\ inner' = [inner EXCEPT !.next_id = @ + 1]
      /\ writer' = [stage |-> "opened", event |-> e]
      /\ file' = file /\ process' = process /\ reader' = reader
      /\ recorded' = recorded /\ acknowledged' = acknowledged
  BY DEF BeginAppend
<1>3. /\ appends \in 0..MaxAppends /\ MaxAppends \in Nat
      /\ inner.next_id \in 0..appends /\ inner.next_id \in Nat
      /\ inner.total_events \in Nat /\ inner.events \in Seq(Event)
      /\ inner = [next_id |-> inner.next_id, total_events |-> inner.total_events,
                  events |-> inner.events]
  BY <1>1, StateParts
<1>4. inner' = [next_id |-> id, total_events |-> inner.total_events,
                events |-> inner.events]
  BY <1>2, <1>3
<1>5. /\ appends + 1 \in 1..MaxAppends /\ id \in 1..(appends + 1)
      /\ id \in 1..MaxAppends /\ inner.next_id < id
  BY <1>2, <1>3
<1>6. e \in Event /\ e.id = id
  BY <1>5 DEF Event
<1> HIDE DEF id, e
<1>7. Types'
  <2>1. inner' \in [next_id : 0..appends', total_events : Nat, events : Seq(Event)]
    <3>1. id \in 0..appends'
      BY <1>2, <1>5
    <3> QED
      BY <1>3, <1>4, <3>1
  <2>2. appends' \in 0..MaxAppends
    BY <1>2, <1>5
  <2>3. writer' \in [stage : {"idle", "opened", "begun", "written"},
                     event : Event \cup {NoEvent}]
    BY <1>2, <1>6
  <2>4. process' # "up" => FALSE
    BY <1>2
  <2> QED
    BY <1>1, <1>2, <2>1, <2>2, <2>3, <2>4 DEF Types
<1>8. Writing'
  <2>1. FileOK(file')
    BY <1>1, <1>2 DEF Writing
  <2>2. IdsUpTo(file', appends')
    <3>1. FileOK(file) /\ IdsUpTo(file, appends)
      BY <1>1 DEF Writing
    <3>2. ASSUME NEW i \in DOMAIN file, NEW k \in DOMAIN file[i].fragments
          PROVE  file[i].fragments[k].event.id <= appends + 1
      <4>1. file[i].fragments \in Seq(Fragment)
        <5>1. i \in 1..Len(file)
          BY <3>1, FileShape
        <5> QED
          BY ONLY <3>1, <5>1, LineParts
      <4>2. file[i].fragments[k] \in Fragment
        BY <4>1
      <4>3. file[i].fragments[k].event.id \in Nat
        BY <1>3, <4>2 DEF Fragment, Event
      <4>4. file[i].fragments[k].event.id <= appends
        BY <3>1 DEF IdsUpTo
      <4> QED
        BY <1>3, <4>3, <4>4
    <3> QED
      BY <1>2, <3>2 DEF IdsUpTo
  <2>3. writer'.event \in Event /\ writer'.event.id = inner'.next_id
    BY <1>2, <1>4, <1>6
  <2>4. writer'.stage = "opened"
    BY <1>2
  <2> QED
    BY <2>1, <2>2, <2>3, <2>4 DEF Writing
<1>9. Numbered'
  <2>1. \A i \in Good(file) : /\ EventAt(file, i).id <= id
                              /\ EventAt(file, i).id < id
    <3> TAKE i \in Good(file)
    <3>1. EventAt(file, i).id <= inner.next_id
      BY <1>1, <1>2 DEF Numbered
    <3>2. EventAt(file, i).id \in Nat
      <4>1. FileOK(file)
        BY <1>1 DEF Writing
      <4>2. i \in 1..Len(file)
        BY <4>1, FileShape DEF Good
      <4>3. file[i].fragments[1] \in Fragment
        BY ONLY <4>1, <4>2, LineParts
      <4> QED
        BY <1>3, <4>3 DEF EventAt, Fragment, Event
    <3> QED
      BY <1>3, <1>5, <3>1, <3>2
  <2>2. \A i \in DOMAIN recorded : recorded[i].id <= id /\ recorded[i].id < id
    <3> TAKE i \in DOMAIN recorded
    <3>1. recorded[i].id <= inner.next_id
      BY <1>1, <1>2 DEF Numbered
    <3>2. recorded[i].id \in Nat
      <4>1. recorded \in Seq(Event)
        BY <1>1, StateParts
      <4>2. recorded[i] \in Event
        BY <4>1
      <4> QED
        BY <1>3, <4>2 DEF Event
    <3> QED
      BY <1>3, <1>5, <3>1, <3>2
  <2>3. inner'.next_id = id /\ writer'.event.id = id
    BY <1>2, <1>4, <1>6
  <2> QED
    BY <1>2, <2>1, <2>2, <2>3 DEF Numbered
<1>10. Windowed' /\ IdsIncrease' /\ Kept' /\ Reads'
  <2>1. inner'.total_events = inner.total_events /\ inner'.events = inner.events
    BY <1>4
  <2>2. Windowed'
    BY <1>1, <1>2, <2>1 DEF Windowed
  <2>3. IdsIncrease' /\ Kept' /\ Reads'
    BY <1>1, <1>2 DEF IdsIncrease, Kept, Reads
  <2> QED
    BY <2>2, <2>3
<1> QED
  BY <1>7, <1>8, <1>9, <1>10 DEF LInv

(* An append that fails.                                                    *)
LEMMA LInvFailAppend ==
  ASSUME LInv, FailAppend
  PROVE  LInv'
<1>1. Types /\ Writing /\ Numbered /\ Windowed /\ IdsIncrease /\ Kept /\ Reads
  BY DEF LInv
<1>2. /\ writer' = Idle
      /\ file' = file /\ process' = process /\ inner' = inner /\ reader' = reader
      /\ appends' = appends /\ recorded' = recorded
      /\ acknowledged' = acknowledged
  BY DEF FailAppend
<1>3. Types'
  <2>1. Idle \in [stage : {"idle", "opened", "begun", "written"},
                  event : Event \cup {NoEvent}]
    BY DEF Idle
  <2> QED
    BY <1>1, <1>2, <2>1 DEF Types
<1>4. Writing' /\ Numbered'
  BY <1>1, <1>2 DEF Writing, Numbered, Idle
<1>5. Windowed' /\ IdsIncrease' /\ Kept' /\ Reads'
  BY <1>1, <1>2 DEF Windowed, IdsIncrease, Kept, Reads
<1> QED
  BY <1>3, <1>4, <1>5 DEF LInv

(* The append under way.                                                    *)
LEMMA AppendUnderWay ==
  ASSUME Types, Writing, Numbered, writer.stage # "idle"
  PROVE  /\ process = "up"
         /\ FileOK(file) /\ IdsUpTo(file, appends)
         /\ writer.event \in Event /\ writer.event.id = inner.next_id
         /\ writer.event.id \in Nat /\ appends \in Nat /\ writer.event.id <= appends
         /\ writer = [stage |-> writer.stage, event |-> writer.event]
         /\ \A i \in Good(file) :
              /\ EventAt(file, i).id =< inner.next_id
              /\ \/ EventAt(file, i).id < writer.event.id
                 \/ writer.stage = "written" /\ i = Len(file)
         /\ \A i \in DOMAIN recorded :
              /\ recorded[i].id =< inner.next_id
              /\ recorded[i].id < writer.event.id
<1>1. process = "up"
  <2>1. process # "up" => writer = Idle
    BY Zenon DEF Types
  <2> QED
    BY <2>1 DEF Idle
<1>2. /\ FileOK(file) /\ IdsUpTo(file, appends)
      /\ writer.event \in Event /\ writer.event.id = inner.next_id
  BY DEF Writing
<1>3. /\ appends \in Nat /\ inner.next_id \in 0..appends
      /\ writer = [stage |-> writer.stage, event |-> writer.event]
  BY StateParts
<1>4. writer.event.id \in Nat /\ writer.event.id <= appends
  BY <1>2, <1>3
<1> QED
  BY <1>1, <1>2, <1>3, <1>4 DEF Numbered

(* The first piece of a document.                                           *)
LEMMA LInvWriteFirstPiece ==
  ASSUME LInv, WriteFirstPiece
  PROVE  LInv'
<1>1. Types /\ Writing /\ Numbered /\ Windowed /\ IdsIncrease /\ Kept /\ Reads
  BY DEF LInv
<1>2. PICK text \in {"part", "cut"} :
        file' = Behind([event |-> writer.event, text |-> text])
  BY DEF WriteFirstPiece
<1> DEFINE fragment == [event |-> writer.event, text |-> text]
<1>3. /\ writer.stage = "opened"
      /\ writer' = [writer EXCEPT !.stage = "begun"]
      /\ process' = process /\ inner' = inner /\ reader' = reader
      /\ appends' = appends /\ recorded' = recorded
      /\ acknowledged' = acknowledged
  BY DEF WriteFirstPiece
<1>4. /\ process = "up"
      /\ FileOK(file) /\ IdsUpTo(file, appends)
      /\ writer.event \in Event /\ writer.event.id = inner.next_id
      /\ appends \in Nat /\ writer.event.id <= appends
      /\ writer = [stage |-> writer.stage, event |-> writer.event]
      /\ \A i \in Good(file) :
           /\ EventAt(file, i).id =< inner.next_id
           /\ EventAt(file, i).id < writer.event.id
      /\ \A i \in DOMAIN recorded :
           /\ recorded[i].id =< inner.next_id
           /\ recorded[i].id < writer.event.id
  BY <1>1, <1>3, AppendUnderWay
<1>5. writer' = [stage |-> "begun", event |-> writer.event]
  BY <1>3, <1>4
<1>6. /\ fragment \in Fragment /\ fragment.text # "whole"
      /\ fragment.event = writer.event
  BY <1>4 DEF Fragment
<1>7. file' = BehindIn(file, fragment)
  BY <1>2 DEF Behind, BehindIn
<1> HIDE DEF fragment
<1>8. /\ FileOK(file') /\ GrownTo(file, file') /\ IdsUpTo(file', appends)
      /\ Unterminated(file') /\ LastFragment(file') = fragment
      /\ \A i \in Good(file') : i \in Good(file) /\ file'[i] = file[i]
      /\ Single(file') => /\ ~Unterminated(file) /\ Complete(file') = Len(file)
                          /\ \A i \in 1..Len(file) : file'[i] = file[i]
  <2>1. fragment.event.id <= appends
    BY <1>4, <1>6
  <2> DEFINE new == file'
  <2>2. new = BehindIn(file, fragment)
    BY <1>7
  <2> HIDE DEF new
  <2>3. /\ FileOK(new) /\ GrownTo(file, new) /\ IdsUpTo(new, appends)
        /\ Unterminated(new) /\ LastFragment(new) = fragment
        /\ \A i \in Good(new) : i \in Good(file) /\ new[i] = file[i]
        /\ Single(new) => /\ ~Unterminated(file) /\ Complete(new) = Len(file)
                          /\ \A i \in 1..Len(file) : new[i] = file[i]
    BY <1>4, <1>6, <2>1, <2>2, FileBehind
  <2> QED
    BY <2>3, Zenon DEF new
<1>9. Types'
  <2>1. writer' \in [stage : {"idle", "opened", "begun", "written"},
                     event : Event \cup {NoEvent}]
    BY <1>4, <1>5
  <2> QED
    BY <1>1, <1>3, <1>4, <2>1 DEF Types
<1>10. Writing'
  <2>1. writer'.stage = "begun" /\ writer'.event = writer.event
    BY <1>5
  <2> QED
    BY <1>3, <1>4, <1>6, <1>8, <2>1 DEF Writing
<1>11. Numbered'
  <2>1. \A i \in Good(file') : EventAt(file', i) = EventAt(file, i) /\ i \in Good(file)
    BY <1>8 DEF EventAt
  <2>2. writer'.event = writer.event
    BY <1>5
  <2> QED
    BY <1>3, <1>4, <2>1, <2>2 DEF Numbered
<1>12. Windowed' /\ IdsIncrease'
  BY <1>1, <1>3 DEF Windowed, IdsIncrease
<1>13. Kept'
  <2>1. ASSUME Single(file')
        PROVE  /\ Complete(file') = Len(acknowledged)
               /\ \A i \in 1..Complete(file') : file'[i] = WholeLine(acknowledged[i])
    <3>1. Single(file)
      BY <1>4, <1>8, <2>1, SingleBefore
    <3>2. ~Unterminated(file) /\ Complete(file') = Len(file)
          /\ \A i \in 1..Len(file) : file'[i] = file[i]
      BY <1>8, <2>1
    <3>3. Complete(file) = Len(file)
      BY <3>2 DEF Complete
    <3> QED
      BY <1>1, <3>1, <3>2, <3>3 DEF Kept, Acknowledges
  <2>2. Len(acknowledged) \in Nat
    BY <1>1, StateParts
  <2> QED
    BY <1>3, <2>1, <2>2 DEF Kept, Acknowledges
<1>14. Reads'
  BY <1>1, <1>3, <1>4, <1>8, ReadsKept
<1> QED
  BY <1>9, <1>10, <1>11, <1>12, <1>13, <1>14 DEF LInv

(* The rest of the document.                                                *)
LEMMA LInvWriteRest ==
  ASSUME LInv, WriteRest
  PROVE  LInv'
<1>1. Types /\ Writing /\ Numbered /\ Windowed /\ IdsIncrease /\ Kept /\ Reads
  BY DEF LInv
<1>2. /\ writer.stage = "begun"
      /\ file' = Completed(file)
      /\ writer' = [writer EXCEPT !.stage = "written"]
      /\ process' = process /\ inner' = inner /\ reader' = reader
      /\ appends' = appends /\ recorded' = recorded
      /\ acknowledged' = acknowledged
  BY DEF WriteRest, Completed
<1>3. /\ process = "up"
      /\ FileOK(file) /\ IdsUpTo(file, appends)
      /\ writer.event \in Event /\ writer.event.id = inner.next_id
      /\ writer.event.id \in Nat
      /\ writer = [stage |-> writer.stage, event |-> writer.event]
      /\ \A i \in Good(file) :
           /\ EventAt(file, i).id =< inner.next_id
           /\ EventAt(file, i).id < writer.event.id
      /\ \A i \in DOMAIN recorded :
           /\ recorded[i].id =< inner.next_id
           /\ recorded[i].id < writer.event.id
  BY <1>1, <1>2, AppendUnderWay
<1>4. /\ Unterminated(file) /\ LastFragment(file).event = writer.event
      /\ LastFragment(file).text # "whole"
  BY <1>1, <1>2 DEF Writing
<1>5. writer' = [stage |-> "written", event |-> writer.event]
  BY <1>2, <1>3
<1>6. /\ FileOK(file') /\ GrownTo(file, file') /\ Unterminated(file')
      /\ Len(file') = Len(file) /\ IdsUpTo(file', appends)
      /\ LastFragment(file').event = writer.event
      /\ LastFragment(file').text = "whole"
      /\ \A i \in 1..Len(file) : i # Len(file) => file'[i] = file[i]
      /\ \A i \in Good(file') :
           \/ i \in Good(file) /\ i # Len(file') /\ file'[i] = file[i]
           \/ i = Len(file') /\ EventAt(file', i) = writer.event
  <2> DEFINE new == file'
  <2>1. new = Completed(file)
    BY <1>2
  <2>2. \A i \in Good(file) : EventAt(file, i).id < LastFragment(file).event.id
    BY <1>3, <1>4
  <2> HIDE DEF new
  <2>3. /\ FileOK(new) /\ GrownTo(file, new) /\ Unterminated(new) /\ Len(new) = Len(file)
        /\ \A b : IdsUpTo(file, b) => IdsUpTo(new, b)
        /\ LastFragment(new).event = LastFragment(file).event
        /\ LastFragment(new).text = "whole"
        /\ \A i \in 1..Len(file) : i # Len(file) => new[i] = file[i]
        /\ \A i \in Good(new) :
             \/ i \in Good(file) /\ i # Len(new) /\ new[i] = file[i]
             \/ i = Len(new) /\ EventAt(new, i) = LastFragment(file).event
    BY <1>3, <1>4, <2>1, <2>2, FileCompleted
  <2> QED
    BY <1>3, <1>4, <2>3, Zenon DEF new
<1>7. Types'
  <2>1. writer' \in [stage : {"idle", "opened", "begun", "written"},
                     event : Event \cup {NoEvent}]
    BY <1>3, <1>5
  <2> QED
    BY <1>1, <1>2, <1>3, <2>1 DEF Types
<1>8. Writing'
  <2>1. writer'.stage = "written" /\ writer'.event = writer.event
    BY <1>5
  <2> QED
    BY <1>2, <1>3, <1>6, <2>1 DEF Writing
<1>9. Numbered'
  <2>1. writer'.stage = "written" /\ writer'.event = writer.event
    BY <1>5
  <2>2. ASSUME NEW i \in Good(file')
        PROVE  /\ EventAt(file', i).id <= inner.next_id
               /\ \/ EventAt(file', i).id < writer.event.id
                  \/ i = Len(file')
    <3>1. CASE i \in Good(file) /\ file'[i] = file[i]
      BY <1>3, <3>1 DEF EventAt
    <3>2. CASE i = Len(file') /\ EventAt(file', i) = writer.event
      BY <1>3, <3>2
    <3> QED
      BY <1>6, <3>1, <3>2
  <2> QED
    BY <1>2, <1>3, <2>1, <2>2 DEF Numbered
<1>10. Windowed' /\ IdsIncrease'
  BY <1>1, <1>2 DEF Windowed, IdsIncrease
<1>11. Kept'
  <2>1. ASSUME Single(file')
        PROVE  /\ Complete(file') = Len(acknowledged)
               /\ \A i \in 1..Complete(file') : file'[i] = WholeLine(acknowledged[i])
    <3>1. Single(file)
      BY <1>3, <1>6, <2>1, SingleBefore
    <3>2. Complete(file') = Complete(file)
      BY <1>4, <1>6 DEF Complete
    <3>3. \A i \in 1..Complete(file) : i \in 1..Len(file) /\ i # Len(file)
      <4>1. Complete(file) = Len(file) - 1 /\ Len(file) \in Nat
        BY <1>3, <1>4, FileShape DEF Complete
      <4> QED
        BY <4>1
    <3> QED
      BY <1>1, <1>6, <3>1, <3>2, <3>3 DEF Kept, Acknowledges
  <2>2. Len(acknowledged) \in Nat
    BY <1>1, StateParts
  <2> QED
    BY <1>2, <2>1, <2>2 DEF Kept, Acknowledges
<1>12. Reads'
  BY <1>1, <1>2, <1>3, <1>6, ReadsKept
<1> QED
  BY <1>7, <1>8, <1>9, <1>10, <1>11, <1>12 DEF LInv

(* The newline, and the event counted.                                      *)
LEMMA LInvEndAppend ==
  ASSUME LInv, EndAppend
  PROVE  LInv'
<1>1. Types /\ Writing /\ Numbered /\ Windowed /\ IdsIncrease /\ Kept /\ Reads
  BY DEF LInv
<1> DEFINE e == writer.event
           window == PushEventWindow(inner.events, e)
<1>2. /\ writer.stage = "written"
      /\ file' = Terminated(file)
      /\ inner' = [inner EXCEPT !.total_events = @ + 1, !.events = window]
      /\ writer' = Idle
      /\ process' = process /\ reader' = reader /\ appends' = appends
      /\ recorded' = Append(recorded, e)
      /\ acknowledged' = Append(acknowledged, e)
  BY DEF EndAppend, Terminated
<1>3. /\ process = "up"
      /\ FileOK(file) /\ IdsUpTo(file, appends)
      /\ e \in Event /\ e.id = inner.next_id
      /\ e.id \in Nat
      /\ \A i \in Good(file) : EventAt(file, i).id =< inner.next_id
      /\ \A i \in DOMAIN recorded :
           /\ recorded[i].id =< inner.next_id
           /\ recorded[i].id < e.id
  BY <1>1, <1>2, AppendUnderWay
<1>4. /\ Unterminated(file) /\ LastFragment(file).event = e
      /\ LastFragment(file).text = "whole"
  BY <1>1, <1>2 DEF Writing
<1>5. /\ inner.next_id \in 0..appends /\ inner.total_events \in Nat
      /\ inner = [next_id |-> inner.next_id, total_events |-> inner.total_events,
                  events |-> inner.events]
      /\ recorded \in Seq(Event) /\ acknowledged \in Seq(Event)
      /\ WindowCapacity \in Nat
  BY <1>1, StateParts
<1>6. inner' = [next_id |-> inner.next_id, total_events |-> inner.total_events + 1,
                events |-> window]
  <2> HIDE DEF window
  <2> QED
    BY <1>2, <1>5
<1>7. window = LastOf(recorded', WindowCapacity) /\ recorded' \in Seq(Event)
  <2>1. window = LastOf(Append(recorded, e), WindowCapacity)
    BY <1>1, <1>3, <1>5, PushKeepsLast DEF Windowed
  <2>2. Append(recorded, e) \in Seq(Event)
    BY <1>3, <1>5, AppendProperties
  <2> HIDE DEF window
  <2> QED
    BY <1>2, <2>1, <2>2
<1>8. window \in Seq(Event)
  <2> DEFINE r == recorded'
  <2>1. r \in Seq(Event)
    BY <1>7
  <2> HIDE DEF r
  <2>2. LastOf(r, WindowCapacity) \in Seq(Event)
    BY <1>5, <2>1, LastOnes
  <2> QED
    BY <1>7, <2>2 DEF r
<1> HIDE DEF e, window
<1>9. /\ FileOK(file') /\ GrownTo(file, file') /\ ~Unterminated(file')
      /\ Len(file') = Len(file) /\ IdsUpTo(file', appends)
      /\ \A i \in 1..Len(file) : i # Len(file) => file'[i] = file[i]
      /\ file'[Len(file)].ended
      /\ file'[Len(file)].fragments = file[Len(file)].fragments
      /\ Good(file') = Good(file)
      /\ \A i \in Good(file') : EventAt(file', i) = EventAt(file, i)
  <2> DEFINE new == file'
  <2>1. new = Terminated(file)
    BY <1>2
  <2> HIDE DEF new
  <2>2. /\ FileOK(new) /\ GrownTo(file, new) /\ ~Unterminated(new) /\ Len(new) = Len(file)
        /\ \A b : IdsUpTo(file, b) => IdsUpTo(new, b)
        /\ \A i \in 1..Len(file) : i # Len(file) => new[i] = file[i]
        /\ new[Len(file)].ended /\ new[Len(file)].fragments = file[Len(file)].fragments
        /\ Good(new) = Good(file)
        /\ \A i \in Good(new) : EventAt(new, i) = EventAt(file, i)
    BY <1>3, <1>4, <2>1, FileEnded
  <2> QED
    BY <1>3, <2>2, Zenon DEF new
<1>10. Types'
  <2>1. writer' \in [stage : {"idle", "opened", "begun", "written"},
                     event : Event \cup {NoEvent}]
    BY <1>2 DEF Idle
  <2>2. inner' \in [next_id : 0..appends, total_events : Nat, events : Seq(Event)]
    BY <1>5, <1>6, <1>8
  <2>3. acknowledged' \in Seq(Event)
    BY <1>2, <1>3, <1>5, AppendProperties
  <2> QED
    BY <1>1, <1>2, <1>3, <1>7, <2>1, <2>2, <2>3 DEF Types
<1>11. Writing'
  BY <1>2, <1>9 DEF Writing, Idle
<1> DEFINE n == Len(recorded)
<1>12. /\ n \in Nat /\ DOMAIN recorded' = 1..(n + 1) /\ DOMAIN recorded = 1..n
       /\ Len(recorded') = n + 1
       /\ \A i \in 1..n : recorded'[i] = recorded[i]
       /\ recorded'[n + 1] = e
  BY <1>2, <1>3, <1>5, AppendProperties
<1> HIDE DEF n
<1>13. Numbered'
  <2>1. inner'.next_id = inner.next_id /\ writer'.stage = "idle"
    BY <1>2, <1>6 DEF Idle
  <2>2. \A i \in Good(file') : EventAt(file', i).id <= inner.next_id
    BY <1>3, <1>9
  <2>3. ASSUME NEW i \in DOMAIN recorded'
        PROVE  recorded'[i].id <= inner.next_id
    <3>1. CASE i \in 1..n
      BY <1>3, <1>12, <3>1
    <3>2. CASE i = n + 1
      BY <1>3, <1>12, <3>2
    <3> QED
      BY <1>12, <3>1, <3>2
  <2> QED
    BY <2>1, <2>2, <2>3 DEF Numbered
<1>14. Windowed'
  <2>1. inner'.total_events = inner.total_events + 1 /\ inner'.events = window
    BY <1>6
  <2>2. inner.total_events = n
    BY <1>1 DEF Windowed, n
  <2> QED
    BY <1>7, <1>12, <2>1, <2>2 DEF Windowed
<1>15. IdsIncrease'
  <2>1. ASSUME NEW i \in DOMAIN recorded', NEW j \in DOMAIN recorded', i < j
        PROVE  recorded'[i].id < recorded'[j].id
    <3>1. i \in 1..n
      BY <1>12, <2>1
    <3>2. CASE j \in 1..n
      BY <1>1, <1>12, <2>1, <3>1, <3>2 DEF IdsIncrease
    <3>3. CASE j = n + 1
      BY <1>3, <1>12, <3>1, <3>3
    <3> QED
      BY <1>12, <3>2, <3>3
  <2> QED
    BY <2>1 DEF IdsIncrease
<1>16. Kept'
  <2> DEFINE m == Len(file)
             k == Len(acknowledged)
  <2>1. m \in Nat /\ k \in Nat /\ m \in 1..m
    BY <1>3, <1>4, <1>5, FileShape DEF Unterminated
  <2>2. /\ Len(acknowledged') = k + 1
        /\ \A i \in 1..k : acknowledged'[i] = acknowledged[i]
        /\ acknowledged'[k + 1] = e
    BY <1>2, <1>3, <1>5, AppendProperties
  <2>3. Complete(file) = m - 1 /\ Complete(file') = m
    BY <1>4, <1>9 DEF Complete
  <2>4. ASSUME Single(file')
        PROVE  /\ m = k + 1
               /\ \A i \in 1..m : file'[i] = WholeLine(acknowledged'[i])
    <3>1. Single(file)
      BY <1>3, <1>9, <2>4, SingleBefore
    <3>2. Complete(file) = k /\ \A i \in 1..k : file[i] = WholeLine(acknowledged[i])
      BY <1>1, <3>1 DEF Kept, Acknowledges
    <3> DEFINE old == file[m]
               new == file'[m]
               d == old.fragments
    <3>3. d = <<[event |-> e, text |-> "whole"]>>
      <4>1. Len(d) = 1
        <5>1. m \in DOMAIN file
          BY <1>3, <2>1, FileShape
        <5> QED
          BY <3>1, <5>1 DEF Single
      <4>2. d \in Seq(Fragment)
        <5>1. FileOK(file)
          BY <1>3
        <5> QED
          BY ONLY <2>1, <5>1, LineParts
      <4>3. d[1].event = e /\ d[1].text = "whole"
        BY <1>4, <4>1 DEF LastFragment
      <4> HIDE DEF d
      <4> DEFINE fragment == d[1]
      <4>4. fragment \in Fragment
        BY <4>1, <4>2
      <4>5. fragment.event = e /\ fragment.text = "whole"
        BY <4>3
      <4> HIDE DEF fragment
      <4>6. fragment = [event |-> e, text |-> "whole"]
        BY <4>4, <4>5 DEF Fragment
      <4>7. d = <<d[1]>>
        BY <4>1, <4>2
      <4> QED
        BY <4>6, <4>7 DEF fragment
    <3>4. new = WholeLine(e)
      <4>1. new = [fragments |-> new.fragments, ended |-> new.ended]
            /\ new.ended \in BOOLEAN
        <5> DEFINE f == file'
        <5>1. FileOK(f) /\ m \in 1..Len(f)
          BY <1>9, <2>1
        <5> HIDE DEF f, m
        <5>2. f[m] = [fragments |-> f[m].fragments, ended |-> f[m].ended]
              /\ f[m].ended \in BOOLEAN
          BY ONLY <5>1, LineParts
        <5> QED
          BY <5>2 DEF f
      <4>2. new.fragments = d /\ new.ended
        BY <1>9
      <4> HIDE DEF new, d
      <4>3. new.ended = TRUE
        BY <4>1, <4>2
      <4> QED
        BY <3>3, <4>1, <4>2, <4>3 DEF WholeLine
    <3> HIDE DEF m, k, new
    <3>5. m = k + 1
      BY <2>1, <2>3, <3>2
    <3>6. ASSUME NEW i \in 1..m
          PROVE  file'[i] = WholeLine(acknowledged'[i])
      <4>1. CASE i = m
        BY <2>2, <3>4, <3>5, <4>1 DEF new
      <4>2. CASE i # m
        <5>1. i \in 1..k
          BY <2>1, <3>5, <4>2
        <5>2. file'[i] = file[i]
          BY <1>9, <4>2 DEF m
        <5> QED
          BY <2>2, <3>2, <5>1, <5>2
      <4> QED
        BY <4>1, <4>2
    <3> QED
      BY <3>5, <3>6
  <2> HIDE DEF m, k
  <2>5. Single(file') => /\ m = Len(acknowledged') /\ m <= Len(acknowledged')
                         /\ \A i \in 1..m : file'[i] = WholeLine(acknowledged'[i])
    BY <2>1, <2>2, <2>4
  <2> QED
    BY <2>3, <2>5 DEF Kept, Acknowledges
<1>17. Reads'
  BY <1>1, <1>2, <1>3, <1>9, ReadsKept DEF e
<1> QED
  BY <1>10, <1>11, <1>13, <1>14, <1>15, <1>16, <1>17 DEF LInv

(* What is not a matter of the reader.                                      *)
LEMMA OnlyTheReader ==
  ASSUME LInv, file' = file, process' = process, inner' = inner, writer' = writer,
         appends' = appends, recorded' = recorded, acknowledged' = acknowledged,
         process = "up",
         reader' \in [stage : {"idle", "reading", "done"}, seen : Seq(Line),
                      lines : Seq(Line), acknowledged : Nat],
         Reads'
  PROVE  LInv'
<1>1. Types /\ Writing /\ Numbered /\ Windowed /\ IdsIncrease /\ Kept
  BY DEF LInv
<1>2. Types'
  BY <1>1 DEF Types
<1>3. Writing' /\ Numbered' /\ Windowed' /\ IdsIncrease' /\ Kept'
  BY <1>1 DEF Writing, Numbered, Windowed, IdsIncrease, Kept
<1> QED
  BY <1>2, <1>3 DEF LInv

(* A reader that has the whole file knows what there is to know.            *)
LEMMA FollowsItself ==
  ASSUME NEW f, FileOK(f), Single(f)
  PROVE  Follows(f, f)
  BY ShortLine DEF Follows

(* A replay begins.                                                         *)
LEMMA LInvBeginReplay ==
  ASSUME LInv, BeginReplay
  PROVE  LInv'
<1>1. Types /\ FileOK(file) /\ Kept /\ Reads
  BY DEF LInv, Writing
<1>2. /\ process = "up"
      /\ reader' = [stage |-> "reading", seen |-> file, lines |-> file,
                    acknowledged |-> Len(acknowledged)]
      /\ file' = file /\ process' = process /\ inner' = inner /\ writer' = writer
      /\ appends' = appends /\ recorded' = recorded /\ acknowledged' = acknowledged
  BY DEF BeginReplay
<1>3. file \in Seq(Line) /\ Len(acknowledged) \in Nat
  BY <1>1, StateParts, FileShape
<1>4. reader' \in [stage : {"idle", "reading", "done"}, seen : Seq(Line),
                   lines : Seq(Line), acknowledged : Nat]
  BY <1>2, <1>3
<1>5. /\ reader'.seen = file /\ reader'.lines = file
      /\ reader'.acknowledged = Len(acknowledged)
  BY <1>2
<1>6. Single(file) => Len(acknowledged) =< Complete(file)
  BY <1>1, <1>3 DEF Kept
<1>7. Reads'
  BY <1>1, <1>2, <1>5, <1>6, GrownToItself, FollowsItself DEF Reads, Kept
<1> QED
  BY <1>2, <1>4, <1>7, OnlyTheReader

(* A replay reads on.                                                       *)
LEMMA LInvReplayMore ==
  ASSUME LInv, ReplayMore
  PROVE  LInv'
<1>1. Types /\ FileOK(file) /\ Kept /\ Reads
  BY DEF LInv, Writing
<1> DEFINE seen == reader.seen
           lines == reader.lines
           more == lines \o Growth(seen, file)
<1>2. /\ reader.stage = "reading" /\ file # seen
      /\ reader' = [reader EXCEPT !.seen = file, !.lines = more]
      /\ file' = file /\ process' = process /\ inner' = inner /\ writer' = writer
      /\ appends' = appends /\ recorded' = recorded /\ acknowledged' = acknowledged
  BY DEF ReplayMore
<1>3. process = "up"
  <2>1. process # "up" => reader = NoReader
    BY <1>1, Zenon DEF Types
  <2> QED
    BY <1>2, <2>1 DEF NoReader
<1>4. /\ file \in Seq(Line) /\ Len(acknowledged) \in Nat
      /\ lines \in Seq(Line) /\ reader.acknowledged \in Nat
      /\ reader = [stage |-> reader.stage, seen |-> reader.seen,
                   lines |-> reader.lines, acknowledged |-> reader.acknowledged]
  BY <1>1, StateParts, FileShape
<1>5. /\ FileOK(seen) /\ GrownTo(seen, file)
      /\ Acknowledges(seen, acknowledged)
      /\ Single(seen) => reader.acknowledged =< Complete(seen)
      /\ Single(file) => Follows(lines, seen)
  BY <1>1, <1>2 DEF Reads
<1>6. more \in Seq(Line)
  <2>1. Growth(seen, file) \in Seq(Line)
    BY <1>1, <1>5, GrowthIsLines
  <2> QED
    BY <1>4, <2>1, ConcatProperties
<1>7. Single(file) => Follows(more, file)
  <2> SUFFICES ASSUME Single(file)
               PROVE  Follows(more, file)
    OBVIOUS
  <2>1. FileOK(seen) /\ FileOK(file) /\ GrownTo(seen, file) /\ seen # file
        /\ lines \in Seq(Line) /\ Follows(lines, seen)
    BY <1>1, <1>2, <1>4, <1>5
  <2>2. CASE Unterminated(seen)
    BY ONLY Single(file), <2>1, <2>2, ReadsTheRest
  <2>3. CASE ~Unterminated(seen)
    BY ONLY Single(file), <2>1, <2>3, ReadsOn
  <2> QED
    BY <2>2, <2>3
<1> HIDE DEF more
<1>8. reader' = [stage |-> "reading", seen |-> file, lines |-> more,
                 acknowledged |-> reader.acknowledged]
  BY <1>2, <1>4
<1>9. reader' \in [stage : {"idle", "reading", "done"}, seen : Seq(Line),
                   lines : Seq(Line), acknowledged : Nat]
  BY <1>4, <1>6, <1>8
<1>10. /\ reader'.seen = file /\ reader'.lines = more
       /\ reader'.acknowledged = reader.acknowledged
  BY <1>8
<1>11. Single(file) => reader.acknowledged =< Complete(file)
  <2> SUFFICES ASSUME Single(file)
               PROVE  reader.acknowledged =< Complete(file)
    OBVIOUS
  <2>1. Single(seen)
    BY <1>1, <1>5, SingleBefore
  <2>2. Complete(seen) <= Len(acknowledged) /\ reader.acknowledged <= Complete(seen)
    BY <1>5, <2>1 DEF Acknowledges
  <2>3. Complete(file) = Len(acknowledged)
    BY <1>1 DEF Kept
  <2>4. Complete(seen) \in Int
    BY <1>5, FileShape DEF Complete
  <2> QED
    BY <1>4, <2>2, <2>3, <2>4
<1>12. Reads'
  BY <1>1, <1>2, <1>7, <1>10, <1>11, GrownToItself DEF Reads, Kept
<1> QED
  BY <1>2, <1>3, <1>9, <1>12, OnlyTheReader

(* A replay finds nothing more.                                             *)
LEMMA LInvEndReplay ==
  ASSUME LInv, EndReplay
  PROVE  LInv'
<1>1. Types /\ Reads
  BY DEF LInv
<1>2. /\ reader.stage = "reading"
      /\ reader' = [reader EXCEPT !.stage = "done"]
      /\ file' = file /\ process' = process /\ inner' = inner /\ writer' = writer
      /\ appends' = appends /\ recorded' = recorded /\ acknowledged' = acknowledged
  BY DEF EndReplay
<1>3. process = "up"
  <2>1. process # "up" => reader = NoReader
    BY <1>1, Zenon DEF Types
  <2> QED
    BY <1>2, <2>1 DEF NoReader
<1>4. /\ reader.seen \in Seq(Line) /\ reader.lines \in Seq(Line)
      /\ reader.acknowledged \in Nat
      /\ reader = [stage |-> reader.stage, seen |-> reader.seen,
                   lines |-> reader.lines, acknowledged |-> reader.acknowledged]
  BY <1>1, StateParts
<1>5. reader' = [stage |-> "done", seen |-> reader.seen, lines |-> reader.lines,
                 acknowledged |-> reader.acknowledged]
  BY <1>2, <1>4
<1>6. reader' \in [stage : {"idle", "reading", "done"}, seen : Seq(Line),
                   lines : Seq(Line), acknowledged : Nat]
  BY <1>4, <1>5
<1>7. /\ reader'.seen = reader.seen /\ reader'.lines = reader.lines
      /\ reader'.acknowledged = reader.acknowledged
  BY <1>5
<1>8. Reads'
  BY <1>1, <1>2, <1>7 DEF Reads
<1> QED
  BY <1>2, <1>3, <1>6, <1>8, OnlyTheReader

(* Every step.                                                              *)
LEMMA LInvNext ==
  ASSUME LInv, [Next]_vars
  PROVE  LInv'
<1>1. CASE UNCHANGED vars
  BY <1>1 DEF vars, LInv, Types, Writing, Numbered, Windowed, IdsIncrease, Kept,
              Reads
<1>2. CASE Next
  BY <1>2, LInvStart, LInvCrash, LInvBeginAppend, LInvWriteFirstPiece, LInvWriteRest,
     LInvEndAppend, LInvFailAppend, LInvBeginReplay, LInvReplayMore, LInvEndReplay
     DEF Next
<1> QED
  BY <1>1, <1>2

(* The invariant holds.                                                     *)
LEMMA LInvHolds == Spec => []LInv
<1>1. Init => LInv
  BY LInvInit
<1>2. LInv /\ [Next]_vars => LInv'
  BY LInvNext
<1> QED
  BY <1>1, <1>2, PTL DEF Spec

-----------------------------------------------------------------------------
(* What follows.                                                            *)

(* The log is well-formed: only the last line of the file may be unended, an *)
(* id is never above the number of appends, and no more events are kept than *)
(* the window has room for (record_audit_event_now, push_event_window of    *)
(* src/events.rs).                                                          *)
THEOREM EventLogTypes == Spec => []TypeOK
<1>1. LInv => TypeOK
  <2> SUFFICES ASSUME LInv
               PROVE  TypeOK
    OBVIOUS
  <2>1. Types /\ FileOK(file) /\ inner.events = LastOf(recorded, WindowCapacity)
    BY DEF LInv, Writing, Windowed
  <2>2. /\ appends \in 0..MaxAppends /\ MaxAppends \in Nat /\ WindowCapacity \in Nat
        /\ inner.next_id \in 0..appends
        /\ inner.events \in Seq(Event)
        /\ writer.stage \in {"idle", "opened", "begun", "written"}
        /\ reader.stage \in {"idle", "reading", "done"}
        /\ reader.lines \in Seq(Line)
        /\ recorded \in Seq(Event) /\ acknowledged \in Seq(Event)
    BY <2>1, StateParts
  <2>3. inner.next_id \in 0..MaxAppends
    BY <2>2
  <2>4. Len(inner.events) =< WindowCapacity
    <3> DEFINE d == SaturatingSub(Len(recorded), WindowCapacity)
               n == Len(recorded)
               l == Len(LastOf(recorded, WindowCapacity))
    <3>1. /\ n - d = IF n < WindowCapacity THEN n ELSE WindowCapacity
          /\ l = n - d
      <4>1. recorded \in Seq(Event) /\ WindowCapacity \in Nat
        BY <2>2
      <4> QED
        BY ONLY <4>1, LastOnes
    <3>0. n \in Nat
      BY <2>2
    <3> HIDE DEF d, n, l
    <3>2. l <= WindowCapacity
      BY <2>2, <3>0, <3>1
    <3> QED
      BY <2>1, <3>2 DEF l
  <2>5. \A i \in 1..(Len(file) - 1) : file[i].ended
    <3>1. Len(file) \in Nat /\ \A i \in 1..Len(file) : i # Len(file) => file[i].ended
      BY <2>1, FileShape, LineParts
    <3>2. \A i \in 1..(Len(file) - 1) : i \in 1..Len(file) /\ i # Len(file)
      BY <3>1
    <3> QED
      BY <3>1, <3>2
  <2>6. file \in Seq(Line)
    BY <2>1, FileShape
  <2>7. process \in {"up", "down", "refused"}
    BY <2>1 DEF Types
  <2> QED
    BY <2>2, <2>3, <2>4, <2>5, <2>6, <2>7 DEF TypeOK
<1> QED
  BY <1>1, LInvHolds, PTL

(* Every page of the listing is the page of the events recorded, as far as  *)
(* the window reaches back, and the total is their number, whatever appends *)
(* failed and however often the process crashed (window_blocking and        *)
(* open_with_window_capacity of src/events.rs).                             *)
THEOREM WindowIsOfTheRecord == Spec => []WindowPagesRecorded
<1>1. LInv => WindowPagesRecorded
  <2> SUFFICES ASSUME LInv, NEW offset \in 0..(MaxAppends + 1),
                      NEW limit \in 0..(MaxAppends + 1)
               PROVE  LET oldest == SaturatingSub(Len(recorded), WindowCapacity)
                          from == IF offset > oldest THEN offset ELSE oldest
                          to == IF from + limit < Len(recorded) THEN from + limit
                                ELSE Len(recorded)
                      IN Window(offset, limit) =
                           [total |-> Len(recorded),
                            events |-> SubSeq(recorded, from + 1, to)]
    BY Zenon DEF WindowPagesRecorded
  <2>1. /\ recorded \in Seq(Event) /\ offset \in Nat /\ limit \in Nat
    BY StateParts, LogAssumption DEF LInv
  <2>2. inner.total_events = Len(recorded)
        /\ inner.events = LastOf(recorded, WindowCapacity)
    BY DEF LInv, Windowed
  <2> QED
    BY ONLY <2>1, <2>2, PageOfWindow
<1> QED
  BY <1>1, LInvHolds, PTL

(* The ids of the events recorded increase: failed appends leave gaps, and a *)
(* restart continues behind the highest id it could read, not behind the    *)
(* highest that was given (open_with_window_capacity,                       *)
(* record_audit_event_now of src/events.rs).                                *)
THEOREM IdsTellTheOrder == Spec => []IdsIncrease
<1>1. LInv => IdsIncrease
  BY DEF LInv
<1> QED
  BY <1>1, LInvHolds, PTL

(* The first n of a sequence are a prefix of what starts with them.         *)
LEMMA PrefixPlaceByPlace ==
  ASSUME NEW s \in Seq(Event), NEW t \in Seq(Event), NEW n \in Nat,
         n <= Len(s), n <= Len(t), \A k \in 1..n : t[k] = s[k]
  PROVE  IsPrefix(SubSeq(s, 1, n), t)
<1> DEFINE a == SubSeq(s, 1, n)
           b == SubSeq(t, 1, n)
<1>1. a = [k \in 1..n |-> s[k]] /\ b = [k \in 1..n |-> t[k]]
  OBVIOUS
<1>2. a = b
  BY <1>1
<1> DEFINE l == Len(a)
<1>3. l = n
  OBVIOUS
<1> HIDE DEF a, b, l
<1>4. l <= Len(t) /\ a = SubSeq(t, 1, l)
  BY <1>2, <1>3 DEF b
<1> QED
  BY <1>4 DEF IsPrefix, a, l

(* A file in which no append went behind one that was cut short is read     *)
(* back: every acknowledged event in order, and at most the one behind them *)
(* that was written but not acknowledged (read_events_from_path of          *)
(* src/events.rs).                                                          *)
THEOREM UnbrokenIsReadBack == Spec => []UnbrokenLogReplays
<1>1. LInv => UnbrokenLogReplays
  <2> SUFFICES ASSUME LInv, Unbroken(file)
               PROVE  LET log == ReadLines(file)
                      IN /\ log.ok
                         /\ IsPrefix(acknowledged, log.events)
                         /\ Len(log.events) =< Len(acknowledged) + 1
    BY Zenon DEF UnbrokenLogReplays
  <2>1. FileOK(file) /\ acknowledged \in Seq(Event) /\ Kept
    BY StateParts DEF LInv, Writing
  <2>2. Acknowledges(file, acknowledged)
    BY <2>1 DEF Kept
  <2>3. Single(file) /\ ReadLines(file).ok
    BY <2>1, <2>2, UnbrokenReads
  <2> DEFINE n == Len(acknowledged)
             events == EventsOf(file)
             l == Len(events)
  <2>4. n \in Nat /\ Complete(file) = n
    BY <2>1, <2>3 DEF Kept
  <2>5. /\ events \in Seq(Event) /\ l \in n..(n + 1)
        /\ \A k \in 1..n : events[k] = acknowledged[k]
    BY <2>1, <2>2, <2>3, <2>4, SingleReads
  <2>6. ReadLines(file).events = events
    BY ReadingSucceeds
  <2>7. IsPrefix(acknowledged, events)
    <3>1. acknowledged = SubSeq(acknowledged, 1, n)
      BY <2>1
    <3>2. n <= Len(events)
      <4> HIDE DEF n, events
      <4> QED
        BY <2>4, <2>5
    <3> HIDE DEF events
    <3>3. IsPrefix(SubSeq(acknowledged, 1, n), events)
      BY <2>1, <2>4, <2>5, <3>2, PrefixPlaceByPlace
    <3> QED
      BY <3>1, <3>3
  <2>8. l <= n + 1
    <3> HIDE DEF l, n
    <3> QED
      BY <2>4, <2>5
  <2> QED
    BY <2>3, <2>6, <2>7, <2>8
<1> QED
  BY <1>1, LInvHolds, PTL

(* A replay that succeeds, however it raced with appends, has every event   *)
(* acknowledged before it began, in order, and no event twice               *)
(* (replay_events_from_path of src/events.rs, read without the mutex).      *)
THEOREM ReplaysKeepAcknowledged == Spec => []ReplayHasAcknowledged
<1>1. LInv => ReplayHasAcknowledged
  <2> SUFFICES ASSUME LInv, reader.stage = "done", ReadLines(reader.lines).ok,
                      Unbroken(file)
               PROVE  /\ IsPrefix(SubSeq(acknowledged, 1, reader.acknowledged),
                                  ReadLines(reader.lines).events)
                      /\ IsInjective(ReadLines(reader.lines).events)
    BY Zenon DEF ReplayHasAcknowledged
  <2>1. /\ FileOK(file) /\ acknowledged \in Seq(Event) /\ Kept /\ Reads
        /\ reader.acknowledged \in Nat
    BY StateParts DEF LInv, Writing
  <2>2. Single(file)
    BY <2>1, UnbrokenReads DEF Kept
  <2> DEFINE seen == reader.seen
             events == EventsOf(seen)
             n == reader.acknowledged
             m == Complete(seen)
  <2>3. /\ FileOK(seen) /\ GrownTo(seen, file)
        /\ Acknowledges(seen, acknowledged)
        /\ Single(seen) => n =< m
        /\ Follows(reader.lines, seen)
    BY <2>1, <2>2 DEF Reads
  <2>4. Single(seen)
    BY <2>1, <2>2, <2>3, SingleBefore
  <2>5. ReadLines(reader.lines).events = events
    BY <2>3, ReadingSucceeds DEF Follows
  <2>6. /\ m \in Nat /\ m <= Len(acknowledged)
        /\ events \in Seq(Event) /\ Len(events) \in m..(m + 1)
        /\ \A k \in 1..m : events[k] = acknowledged[k]
    BY <2>1, <2>3, <2>4, SingleReads
  <2>7. IsInjective(events)
    BY <2>3, EventsDistinct
  <2>8. /\ n \in Nat /\ n <= Len(acknowledged) /\ n <= Len(events)
        /\ \A k \in 1..n : events[k] = acknowledged[k]
    <3>1. n \in Nat /\ n <= m /\ Len(acknowledged) \in Nat
      BY <2>1, <2>3, <2>4
    <3> HIDE DEF n, m, events
    <3> QED
      BY <2>6, <3>1
  <2> HIDE DEF events, n
  <2>9. IsPrefix(SubSeq(acknowledged, 1, n), events)
    BY <2>1, <2>6, <2>8, PrefixPlaceByPlace
  <2> QED
    BY <2>5, <2>7, <2>9 DEF n
<1> QED
  BY <1>1, LInvHolds, PTL
=============================================================================
