------------------------------ MODULE EventLog ------------------------------
(***************************************************************************)
(* The management event log of src/events.rs: a file of one JSON document  *)
(* per line, and in memory the next id, a count and a bounded window.      *)
(*                                                                         *)
(* An append runs under the log's mutex, in several writes to the file     *)
(* (serde_json writes straight to it): the document in pieces, then the    *)
(* newline.  Each write may fail, and the process may crash between two.   *)
(* A start reads the whole file; so does a reload of the runtime, without  *)
(* the mutex, while an append may be under way.                            *)
(*                                                                         *)
(* Text is abstracted to what a reader tells apart: a document is there    *)
(* completely, in part, or in part and cut within a character of more than *)
(* one byte, which makes the line unreadable rather than unparsable.       *)
(***************************************************************************)
EXTENDS Integers, SequencesExt

CONSTANTS
  WindowCapacity, \* management.event_window_capacity
  MaxAppends,     \* bound: appends begun
  MaxCrashes      \* bound: crashes of the process

ASSUME LogAssumption == {WindowCapacity, MaxAppends, MaxCrashes} \subseteq Nat

VARIABLES
  file,         \* the lines of the file
  process,      \* whether the service runs, is down, or was refused its start
  inner,        \* EventLogInner: next_id, total_events, events
  writer,       \* the append that holds the mutex
  reader,       \* the replay of a reload
  appends,      \* appends begun so far
  crashes,      \* crashes so far
  recorded,     \* history: events read at the start, then those acknowledged
  acknowledged  \* history: events whose append has returned Ok, ever

vars == <<file, process, inner, writer, reader, appends, crashes, recorded,
          acknowledged>>

-----------------------------------------------------------------------------
(* Events and lines.  The serial stands for all of an event but its id.    *)

Event == [id : 1..MaxAppends, serial : 1..MaxAppends]
Fragment == [event : Event, text : {"whole", "part", "cut"}]
Line == [fragments : Seq(Fragment), ended : BOOLEAN]

NoEvent == [id |-> 0, serial |-> 0]

Unterminated(f) == f # <<>> /\ ~f[Len(f)].ended

(* What a reader makes of a line.                                          *)
Reading(line) ==
  CASE line.fragments = <<>> -> "blank"
    [] \E i \in DOMAIN line.fragments : line.fragments[i].text = "cut"
         -> "unreadable"
    [] Len(line.fragments) = 1 /\ line.fragments[1].text = "whole" -> "event"
    [] OTHER -> "corrupt"

(* The events of the lines that hold one, first to last.                   *)
EventsOf(lines) ==
  LET places == {i \in DOMAIN lines : Reading(lines[i]) = "event"}
      inOrder == CHOOSE s \in SetToSeqs(places) :
                   \A j, k \in DOMAIN s : j < k => s[j] < s[k]
  IN [k \in DOMAIN inOrder |-> lines[inOrder[k]].fragments[1].event]

(* Mutant: no corrupt line is tolerated. *)
ReadLinesStrict(lines) ==
  [ok |-> \A i \in DOMAIN lines : Reading(lines[i]) \in {"event", "blank"},
   events |-> EventsOf(lines)]

(* read_events_from_path: every event of the lines; a line that does not   *)
(* parse is tolerated in the last place only.                              *)
ReadLines(lines) ==
  LET fatal(i) == \/ Reading(lines[i]) = "unreadable"
                  \/ Reading(lines[i]) = "corrupt" /\ i < Len(lines)
  IN [ok |-> ~\E i \in DOMAIN lines : fatal(i), events |-> EventsOf(lines)]

(* What a reader that saw old at the end of the file gets when the file    *)
(* has become new: first the rest of the line it took for the last one.    *)
Growth(old, new) ==
  IF ~Unterminated(old) THEN SubSeq(new, Len(old) + 1, Len(new))
  ELSE LET n == Len(old)
           k == Len(old[n].fragments)
           completed == new[n].fragments[k] # old[n].fragments[k]
           rest == SubSeq(new[n].fragments, k + 1, Len(new[n].fragments))
           piece == [new[n].fragments[k] EXCEPT !.text = "part"]
           first == [fragments |-> IF completed THEN <<piece>> \o rest ELSE rest,
                     ended |-> new[n].ended]
       IN <<first>> \o SubSeq(new, n + 1, Len(new))

-----------------------------------------------------------------------------
(* The window.                                                             *)

SaturatingSub(a, b) == IF a > b THEN a - b ELSE 0

LastOf(s, n) == SubSeq(s, SaturatingSub(Len(s), n) + 1, Len(s))

BoundedEventWindow(events) == LastOf(events, WindowCapacity)

(* Mutant: the oldest event is dropped one event too late. *)
PushEventWindowLate(events, e) ==
  IF WindowCapacity = 0 THEN events
  ELSE IF Len(events) > WindowCapacity THEN Append(Tail(events), e)
       ELSE Append(events, e)

PushEventWindow(events, e) ==
  IF WindowCapacity = 0 THEN events
  ELSE IF Len(events) = WindowCapacity THEN Append(Tail(events), e)
       ELSE Append(events, e)

(* window_blocking: the page of the management listing.                    *)
Window(offset, limit) ==
  LET retained == SaturatingSub(inner.total_events, Len(inner.events))
      local == SaturatingSub(offset, retained)
      last == IF local + limit < Len(inner.events) THEN local + limit
              ELSE Len(inner.events)
  IN [total |-> inner.total_events,
      events |-> SubSeq(inner.events, local + 1, last)]

-----------------------------------------------------------------------------
Idle == [stage |-> "idle", event |-> NoEvent]
NoReader == [stage |-> "idle", seen |-> <<>>, lines |-> <<>>, acknowledged |-> 0]
Empty == [next_id |-> 0, total_events |-> 0, events |-> <<>>]

Init ==
  /\ file = <<>>
  /\ process = "down"
  /\ inner = Empty
  /\ writer = Idle
  /\ reader = NoReader
  /\ appends = 0 /\ crashes = 0
  /\ recorded = <<>> /\ acknowledged = <<>>

(* Mutant: ids continue from the number of events. *)
OpenedFromCount(events) ==
  [next_id |-> Len(events), total_events |-> Len(events),
   events |-> BoundedEventWindow(events)]

(* Mutant: only the retained events are counted. *)
OpenedFromWindow(events) ==
  [next_id |-> Max({events[i].id : i \in DOMAIN events} \cup {0}),
   total_events |-> Len(BoundedEventWindow(events)),
   events |-> BoundedEventWindow(events)]

(* open_with_window_capacity, once the file was read.                      *)
Opened(events) ==
  [next_id |-> Max({events[i].id : i \in DOMAIN events} \cup {0}),
   total_events |-> Len(events),
   events |-> BoundedEventWindow(events)]

Start ==
  /\ process = "down"
  /\ LET log == ReadLines(file)
     IN IF log.ok
        THEN /\ process' = "up"
             /\ inner' = Opened(log.events)
             /\ recorded' = log.events
        ELSE process' = "refused" /\ UNCHANGED <<inner, recorded>>
  /\ UNCHANGED <<file, writer, reader, appends, crashes, acknowledged>>

(* Whatever the service has in memory is lost; the file keeps every write. *)
Crash ==
  /\ process = "up" /\ crashes < MaxCrashes
  /\ crashes' = crashes + 1
  /\ process' = "down"
  /\ inner' = Empty /\ writer' = Idle /\ reader' = NoReader /\ recorded' = <<>>
  /\ UNCHANGED <<file, appends, acknowledged>>

-----------------------------------------------------------------------------
(* An append: record_audit_event_now.                                      *)

(* Take the mutex and an id, open the file.                                *)
BeginAppend ==
  /\ process = "up" /\ writer.stage = "idle" /\ appends < MaxAppends
  /\ appends' = appends + 1
  /\ inner' = [inner EXCEPT !.next_id = @ + 1]
  /\ writer' = [stage |-> "opened",
                event |-> [id |-> inner.next_id + 1, serial |-> appends + 1]]
  /\ UNCHANGED <<file, process, reader, crashes, recorded, acknowledged>>

(* The file is opened for appending: a write goes behind what is there.    *)
Behind(fragment) ==
  IF Unterminated(file)
  THEN [file EXCEPT ![Len(file)].fragments = Append(@, fragment)]
  ELSE Append(file, [fragments |-> <<fragment>>, ended |-> FALSE])

WriteFirstPiece ==
  /\ writer.stage = "opened"
  /\ \E text \in {"part", "cut"} :
       file' = Behind([event |-> writer.event, text |-> text])
  /\ writer' = [writer EXCEPT !.stage = "begun"]
  /\ UNCHANGED <<process, inner, reader, appends, crashes, recorded,
                 acknowledged>>

WriteRest ==
  /\ writer.stage = "begun"
  /\ LET n == Len(file)
     IN file' = [file EXCEPT
          ![n].fragments[Len(file[n].fragments)].text = "whole"]
  /\ writer' = [writer EXCEPT !.stage = "written"]
  /\ UNCHANGED <<process, inner, reader, appends, crashes, recorded,
                 acknowledged>>

(* Mutant: the event is counted before it is complete, and its append is   *)
(* acknowledged although the document may still be cut short.              *)
EndAppendEarly ==
  /\ writer.stage = "begun"
  /\ file' = [file EXCEPT ![Len(file)].ended = TRUE]
  /\ inner' = [inner EXCEPT !.total_events = @ + 1,
                            !.events = PushEventWindow(@, writer.event)]
  /\ writer' = Idle
  /\ recorded' = Append(recorded, writer.event)
  /\ acknowledged' = Append(acknowledged, writer.event)
  /\ UNCHANGED <<process, reader, appends, crashes>>

(* The newline; then the event is counted, pushed and acknowledged.        *)
EndAppend ==
  /\ writer.stage = "written"
  /\ file' = [file EXCEPT ![Len(file)].ended = TRUE]
  /\ inner' = [inner EXCEPT !.total_events = @ + 1,
                            !.events = PushEventWindow(@, writer.event)]
  /\ writer' = Idle
  /\ recorded' = Append(recorded, writer.event)
  /\ acknowledged' = Append(acknowledged, writer.event)
  /\ UNCHANGED <<process, reader, appends, crashes>>

(* A failure of the directory, the file or a write ends the append; the id *)
(* is spent and what was written stays.                                    *)
FailAppend ==
  /\ writer.stage # "idle"
  /\ writer' = Idle
  /\ UNCHANGED <<file, process, inner, reader, appends, crashes, recorded,
                 acknowledged>>

-----------------------------------------------------------------------------
(* A replay for a reload: replay_events_from_path.  It reads until it      *)
(* finds the end of the file twice in the same place.                      *)

BeginReplay ==
  /\ process = "up" /\ reader.stage # "reading"
  /\ reader' = [stage |-> "reading", seen |-> file, lines |-> file,
                acknowledged |-> Len(acknowledged)]
  /\ UNCHANGED <<file, process, inner, writer, appends, crashes, recorded,
                 acknowledged>>

ReplayMore ==
  /\ reader.stage = "reading" /\ file # reader.seen
  /\ reader' = [reader EXCEPT !.seen = file,
                              !.lines = @ \o Growth(reader.seen, file)]
  /\ UNCHANGED <<file, process, inner, writer, appends, crashes, recorded,
                 acknowledged>>

EndReplay ==
  /\ reader.stage = "reading" /\ file = reader.seen
  /\ reader' = [reader EXCEPT !.stage = "done"]
  /\ UNCHANGED <<file, process, inner, writer, appends, crashes, recorded,
                 acknowledged>>

Next ==
  \/ Start \/ Crash
  \/ BeginAppend \/ WriteFirstPiece \/ WriteRest \/ EndAppend \/ FailAppend
  \/ BeginReplay \/ ReplayMore \/ EndReplay

Spec == Init /\ [][Next]_vars

-----------------------------------------------------------------------------
(* Properties.                                                             *)

(* The log is well-formed, and whatever is counted is in the window or has *)
(* left it: EventLogInner of events.rs.                                    *)
TypeOK ==
  /\ file \in Seq(Line)
  /\ \A i \in 1..(Len(file) - 1) : file[i].ended
  /\ process \in {"up", "down", "refused"}
  /\ inner.next_id \in 0..MaxAppends
  /\ inner.events \in Seq(Event) /\ Len(inner.events) =< WindowCapacity
  /\ writer.stage \in {"idle", "opened", "begun", "written"}
  /\ reader.stage \in {"idle", "reading", "done"}
  /\ reader.lines \in Seq(Line)
  /\ recorded \in Seq(Event) /\ acknowledged \in Seq(Event)

(* Every page of the listing is the page of the events recorded, as far as *)
(* the window reaches back, and the total is their number: whatever        *)
(* appends failed before, and across restarts (window_blocking).           *)
WindowPagesRecorded ==
  process = "up" =>
    \A offset, limit \in 0..(MaxAppends + 1) :
      LET oldest == SaturatingSub(Len(recorded), WindowCapacity)
          from == IF offset > oldest THEN offset ELSE oldest
          to == IF from + limit < Len(recorded) THEN from + limit
                ELSE Len(recorded)
      IN Window(offset, limit) = [total |-> Len(recorded),
                                  events |-> SubSeq(recorded, from + 1, to)]

(* No two events of the listing have one id, and ids tell their order,     *)
(* although failed appends leave gaps and a restart forgets the counter    *)
(* (next_id in record_audit_event_now and open_with_window_capacity).      *)
IdsIncrease ==
  \A i, j \in DOMAIN recorded : i < j => recorded[i].id < recorded[j].id

(* No append went behind one that was cut short, none was cut within a     *)
(* character.                                                              *)
Unbroken(lines) ==
  \A i \in DOMAIN lines :
    /\ Len(lines[i].fragments) =< 1
    /\ Reading(lines[i]) # "unreadable"

(* A file without such lines is read back: it has every acknowledged event *)
(* in order, and at most the one behind them that was written but not      *)
(* acknowledged (read_events_from_path).                                   *)
UnbrokenLogReplays ==
  Unbroken(file) =>
    LET log == ReadLines(file)
    IN /\ log.ok
       /\ IsPrefix(acknowledged, log.events)
       /\ Len(log.events) =< Len(acknowledged) + 1

(* A replay that succeeds, however it raced with appends, has every event  *)
(* acknowledged before it began, in order, and none twice                  *)
(* (replay_events_from_path without the mutex, in                          *)
(* rebuild_runtime_from_resolved_config).                                  *)
ReplayHasAcknowledged ==
  LET log == ReadLines(reader.lines)
  IN reader.stage = "done" /\ log.ok /\ Unbroken(file) =>
       /\ IsPrefix(SubSeq(acknowledged, 1, reader.acknowledged), log.events)
       /\ IsInjective(log.events)
=============================================================================
