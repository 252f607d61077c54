------------------------ MODULE ControlPlaneProofs ------------------------
(***************************************************************************)
(* What holds of the control plane for any number of operators, models,    *)
(* channels, secrets, crashes and torn appends: a synchronisation takes no *)
(* target from a route; as long as no write outlives its handler, every    *)
(* runtime has the document of its version and every audit event names the *)
(* version its write got; and the runtime that serves has the disabled     *)
(* channels of the event log and the credentials of the store, but for     *)
(* what raced and for what the log has otherwise than it was answered.     *)
(***************************************************************************)
EXTENDS ControlPlane, SequenceTheorems, TLAPS

-----------------------------------------------------------------------------
(* The inductive invariant.                                                *)

Event == {"none", "disabled", "enabled"}

CommandState ==
  [stage : Stage, command : Command \cup {NoCommand}, attached : BOOLEAN,
   outcome : {"none", "Ok", "Conflict", "Failed"}, version : Nat,
   document : Document, audited : Nat, wrote : Nat, runtime : Nat,
   keys : SUBSET Key, log : [Channel -> Event]]

Log == [said : [Channel -> Event], line : {"ended", "begun", "spoilt"},
        last : [of : SUBSET Channel, says : Event], fatal : BOOLEAN,
        torn : Nat]

(* What is stored, and its history.                                        *)
Data ==
  /\ store \in [version : Nat, document : Document]
  /\ keys \subseteq Key
  /\ eventLog \in Log
  /\ runtimes \in Seq(Runtime)
  /\ committed \in Seq(Document)
  /\ Len(committed) = store.version /\ store.version >= 1
  /\ committed[store.version] = store.document
  /\ raced.registry \in BOOLEAN

Staged == Batch \cup {"configure", "reload"}

Threaded == {"auditing", "applying", "appending", "marking", "persisting"}

(* Command q of o, when l has the lock, is in its critical section, which  *)
(* is the handler's: a thread that writes on without it is in none.  A     *)
(* synchronisation also loads before it waits for the lock.                *)
Critical(o, q, l) ==
  /\ q.attached /\ q.command.kind \in Staged
  /\ q.stage \in Locked
  /\ q.stage = "loading" /\ q.command.kind = "sync" => l = o

(* The lock is with whoever is in a critical section, while attached; what *)
(* goes on without a handler is a thread, and a registry write that does   *)
(* is remembered.                                                          *)
Exclusive(o, q, l, unraced) ==
  /\ Critical(o, q, l) => l = o
  /\ ~q.attached => q.stage \in {"lost"} \cup Threaded
  /\ ~q.attached /\ q.stage = "applying" => ~unraced

(* Which kinds of command come to which stage.                             *)
Staging(q) ==
  LET kind == q.command.kind
  IN /\ q.stage \in {"observing", "waiting", "checking", "loading",
                     "discovering", "resolving", "applying", "rebuilding",
                     "installing"} => kind \in Staged
     /\ q.stage = "loading" => kind # "configure"
     /\ q.stage \in {"resolving", "rebuilding", "installing"} =>
          kind = "reload"
     /\ q.stage = "discovering" => kind = "sync"
     /\ q.stage = "applying" => kind # "reload"
     /\ q.stage = "auditing" => kind \in Staged \cup {"import"}
     /\ q.stage \in {"gating", "appending", "marking"} =>
          kind \in ChannelCommand
     /\ q.stage \in {"persisting", "adding"} => kind = "import"

(* Versions are not ahead; the version checked under the lock is still the *)
(* present one v.                                                          *)
Current(o, q, l, v, unraced) ==
  /\ q.version <= v
  /\ unraced /\ Critical(o, q, l) /\ q.stage # "checking" => q.version = v

(* What a reload has loaded is the document of its version.                *)
Compiled(q, unraced, documents) ==
  unraced /\ q.command.kind = "reload"
    /\ q.stage \in {"resolving", "auditing", "rebuilding", "installing"} =>
    /\ q.version >= 1
    /\ q.document = documents[q.version]

(* A write is audited for the version it expects, and is the command's     *)
(* last step.                                                              *)
Named(q, unraced) ==
  /\ unraced /\ q.stage = "applying" => q.audited = q.version + 1
  /\ q.wrote # 0 => q.stage \in {"done", "lost"}
  /\ unraced /\ q.wrote # 0 => q.audited = q.wrote

(* What a synchronisation read is the present document, or its version is  *)
(* not the present one: it reads the version first.                        *)
Fresh(o, q, l, v, documents) ==
  /\ q.command.kind = "sync" /\ q.version = v
  /\ \/ q.stage \in {"discovering", "waiting", "checking", "auditing", "applying"}
     \/ q.stage = "loading" /\ l = o
  => q.document = documents[v]

Sound(o, q, l, v, unraced, documents) ==
  /\ Staging(q)
  /\ Exclusive(o, q, l, unraced)
  /\ Current(o, q, l, v, unraced)
  /\ Compiled(q, unraced, documents)
  /\ Named(q, unraced)
  /\ Fresh(o, q, l, v, documents)

Holder ==
  lock # "free" => /\ lock \in Operator
                   /\ command[lock].attached
                   /\ command[lock].stage \in Locked
                   /\ Kind(lock) \in Staged

Installed ==
  ~raced.registry =>
    \A g \in DOMAIN runtimes :
      /\ runtimes[g].version \in 1..store.version
      /\ runtimes[g].document = committed[runtimes[g].version]

CInv ==
  /\ Data
  /\ command \in [Operator -> CommandState]
  /\ Holder
  /\ Installed
  /\ \A o \in Operator :
       Sound(o, command[o], lock, store.version, ~raced.registry, committed)

-----------------------------------------------------------------------------
(* Commands.                                                               *)

(* The kinds of commands, and what those kinds carry that write.           *)
LEMMA CommandKinds ==
  ASSUME NEW c \in Command
  PROVE  /\ c.kind \in Staged \cup ChannelCommand \cup {"import"}
         /\ c.kind = "import" => c.keys \subseteq Key
         /\ c.kind = "route" => c.targets \subseteq Channel
         /\ c.kind \in Batch => c.model \in Model
         /\ c.kind = "configure" => c.resource \in BOOLEAN
         /\ c.kind \in {"sync"} \cup ChannelCommand => c.channel \in Channel
BY DEF Command, Staged, Batch, ChannelCommand

(* No operator is called free.                                             *)
LEMMA NobodyFree == \A o \in Operator : o # "free"
BY ControlPlaneAssumption

(* What one more document leaves as it was.                                *)
LEMMA OneMoreDocument ==
  ASSUME NEW s \in Seq(Document), NEW d \in Document
  PROVE  /\ Append(s, d) \in Seq(Document)
         /\ Len(Append(s, d)) = Len(s) + 1
         /\ Append(s, d)[Len(s) + 1] = d
         /\ \A n \in 1..Len(s) : Append(s, d)[n] = s[n]
BY AppendProperties

-----------------------------------------------------------------------------
(* The event log.                                                          *)

(* A replay tells one event of each channel.                               *)
LEMMA ReplayedIsTyped ==
  ASSUME eventLog \in Log
  PROVE  Replayed \in [Channel -> Event]
BY DEF Log, Replayed, Overlaid

(* An append leaves a log, whatever was written of it.                     *)
LEMMA ExtendedIsLog ==
  ASSUME eventLog \in Log, NEW event \in [of : SUBSET Channel, says : Event],
         NEW extent
  PROVE  Extended(event, extent) \in Log
<1> DEFINE begun == eventLog.line = "begun"
           said == IF extent = "all" /\ ~begun
                   THEN Overlaid(eventLog.said, event) ELSE eventLog.said
           line == IF extent # "all" THEN "begun"
                   ELSE IF begun THEN "spoilt" ELSE "ended"
           last == IF extent = "whole" /\ ~begun THEN event ELSE Silent
           torn == eventLog.torn + IF extent = "all" THEN 0 ELSE 1
<1>1. said \in [Channel -> Event]
  BY DEF Log, Overlaid
<1>2. Silent \in [of : SUBSET Channel, says : Event]
  BY DEF Silent, Event
<1>3. last \in [of : SUBSET Channel, says : Event]
  BY <1>2
<1>4. line \in {"ended", "begun", "spoilt"} /\ torn \in Nat
  BY DEF Log
<1> HIDE DEF said, line, last, torn
<1>5. [said |-> said, line |-> line, last |-> last, fatal |-> FALSE,
       torn |-> torn] \in Log
  BY <1>1, <1>3, <1>4 DEF Log
<1>6. EmptyLog \in Log
  BY <1>2 DEF EmptyLog, Log, Event
<1>7. Unreadable \in Log
  BY <1>6 DEF Unreadable, Log
<1>8. Extended(event, extent) =
        IF eventLog.fatal \/ extent = "cut" \/ eventLog.line = "spoilt"
        THEN Unreadable
        ELSE [said |-> said, line |-> line, last |-> last, fatal |-> FALSE,
              torn |-> torn]
  BY DEF Extended, said, line, last, torn
<1> QED
  BY <1>5, <1>7, <1>8

(* What a command appends is an event of its channel, or of none.          *)
LEMMA PendingIsTyped ==
  ASSUME command \in [Operator -> CommandState], NEW o \in Operator
  PROVE  PendingEvent(o) \in [of : SUBSET Channel, says : Event]
<1>1. Kind(o) \in ChannelCommand => command[o].command.channel \in Channel
  BY CommandKinds DEF CommandState, Kind, NoCommand, ChannelCommand
<1> QED
  BY <1>1 DEF PendingEvent, Silent, Event

-----------------------------------------------------------------------------
(* What a step of somebody else leaves sound.                              *)

(* How a step of o may change lock, versions and documents.                *)
Moves(o) ==
  /\ raced.registry => raced'.registry
  /\ \A p \in Operator \ {o} : lock' = p <=> lock = p
  /\ \/ UNCHANGED <<store, committed>>
     \/ /\ command[o].stage = "applying" /\ Kind(o) \in Staged
        /\ store'.version = store.version + 1
        /\ committed' = Append(committed, store'.document)

(* The commands of others stay sound: a write shows that nobody else is in *)
(* the critical section, or that a write has outlived its handler.         *)
LEMMA OthersSound ==
  ASSUME CInv, Data', NEW o \in Operator, Moves(o), NEW p \in Operator, p # o
  PROVE  Sound(p, command[p], lock', store'.version, ~raced'.registry, committed')
<1> DEFINE q == command[p]
           v == store.version
<1>1. /\ q \in CommandState
      /\ Sound(p, q, lock, v, ~raced.registry, committed)
      /\ v \in Nat /\ q.version \in Nat
  BY DEF CInv, Data, CommandState
<1>2. lock' = p <=> lock = p
  BY DEF Moves
<1>3. raced.registry \in BOOLEAN /\ (raced.registry => raced'.registry)
  BY DEF Moves, CInv, Data
<1>4. Critical(p, q, lock') <=> Critical(p, q, lock)
  BY <1>2 DEF Critical
<1>5. Exclusive(p, q, lock', ~raced'.registry)
  BY <1>1, <1>2, <1>3, <1>4 DEF Sound, Exclusive
<1>6. Named(q, ~raced'.registry) /\ Staging(q)
  BY <1>1, <1>3 DEF Sound, Named
<1>7. CASE UNCHANGED <<store, committed>>
  <2>1. Current(p, q, lock', store'.version, ~raced'.registry)
    BY <1>1, <1>3, <1>4, <1>7 DEF Sound, Current
  <2>2. Compiled(q, ~raced'.registry, committed')
    BY <1>1, <1>3, <1>7 DEF Sound, Compiled
  <2>3. Fresh(p, q, lock', store'.version, committed')
    BY <1>1, <1>2, <1>7 DEF Sound, Fresh
  <2> QED
    BY <1>5, <1>6, <2>1, <2>2, <2>3 DEF Sound
<1>8. CASE /\ command[o].stage = "applying" /\ Kind(o) \in Staged
           /\ store'.version = v + 1
           /\ committed' = Append(committed, store'.document)
  <2>1. ASSUME Critical(p, q, lock), ~raced.registry
        PROVE  FALSE
    <3>1. lock = p
      BY <1>1, <2>1 DEF Sound, Exclusive
    <3>2. Sound(o, command[o], lock, v, ~raced.registry, committed)
      BY DEF CInv
    <3>3. Critical(o, command[o], lock)
      BY <1>8, <2>1, <3>2 DEF Sound, Exclusive, Critical, Kind, Locked
    <3>4. lock = o
      BY <3>2, <3>3 DEF Sound, Exclusive
    <3> QED
      BY <3>1, <3>4
  <2>2. q.version <= v
    BY <1>1 DEF Sound, Current
  <2>3. Current(p, q, lock', store'.version, ~raced'.registry)
    BY <1>1, <1>3, <1>4, <1>8, <2>1, <2>2 DEF Current
  <2>4. \A n \in 1..v : committed'[n] = committed[n]
    BY <1>8, OneMoreDocument DEF CInv, Data
  <2>5. Compiled(q, ~raced'.registry, committed')
    BY <1>1, <1>3, <2>2, <2>4 DEF Sound, Compiled
  <2>6. Fresh(p, q, lock', store'.version, committed')
    BY <1>1, <1>8, <2>2 DEF Fresh
  <2> QED
    BY <1>5, <1>6, <2>3, <2>5, <2>6 DEF Sound
<1> QED
  BY <1>7, <1>8 DEF Moves

(* A step of o that leaves its own command sound.                          *)
LEMMA StepKeeps ==
  ASSUME CInv, Data', NEW o \in Operator, Moves(o),
         NEW q \in CommandState, command' = [command EXCEPT ![o] = q],
         lock' \in {lock, "free", o},
         lock' = o => q.attached /\ q.stage \in Locked /\ q.command.kind \in Staged,
         Sound(o, q, lock', store'.version, ~raced'.registry, committed'),
         Installed'
  PROVE  CInv'
<1>1. /\ command \in [Operator -> CommandState]
      /\ command' \in [Operator -> CommandState]
      /\ command'[o] = q
      /\ \A p \in Operator : p # o => command'[p] = command[p]
  BY DEF CInv
<1>2. ASSUME NEW p \in Operator
      PROVE  Sound(p, command'[p], lock', store'.version, ~raced'.registry, committed')
  <2>1. CASE p = o
    BY <1>1, <2>1
  <2>2. CASE p # o
    BY <1>1, <2>2, OthersSound
  <2> QED
    BY <2>1, <2>2
<1>3. Holder'
  <2>1. CASE lock' = o
    BY <1>1, <2>1 DEF Holder, Kind
  <2>2. CASE lock' # o /\ lock' = lock
    BY <1>1, <2>2 DEF CInv, Holder, Kind
  <2>3. CASE lock' = "free"
    BY <2>3 DEF Holder
  <2> QED
    BY <2>1, <2>2, <2>3
<1> QED
  BY <1>1, <1>2, <1>3 DEF CInv

-----------------------------------------------------------------------------
(* Steps that leave store, runtimes and documents alone.                   *)

Untouched == UNCHANGED <<store, keys, eventLog, runtimes, committed>>

(* What is stored and installed is as sound as it was.                     *)
LEMMA UntouchedData ==
  ASSUME CInv, Untouched,
         raced'.registry \in BOOLEAN, raced.registry => raced'.registry
  PROVE  Data' /\ Installed'
<1>1. Data'
  BY DEF CInv, Data, Untouched
<1>2. Installed'
  BY DEF CInv, Installed, Untouched
<1> QED
  BY <1>1, <1>2

(* An append leaves the rest alone.                                        *)
LEMMA AppendedData ==
  ASSUME CInv, UNCHANGED <<store, keys, runtimes, committed>>, eventLog' \in Log,
         raced'.registry = raced.registry
  PROVE  Data' /\ Installed'
<1>1. Data'
  BY DEF CInv, Data
<1>2. Installed'
  BY DEF CInv, Installed
<1> QED
  BY <1>1, <1>2

(* So does one that fails, or is not made.                                 *)
LEMMA AppendLineData ==
  ASSUME CInv, NEW o \in Operator, NEW extent,
         AppendLine(PendingEvent(o), extent),
         UNCHANGED <<store, keys, runtimes, committed>>
  PROVE  Data' /\ Installed' /\ raced'.registry = raced.registry
<1>1. eventLog \in Log /\ command \in [Operator -> CommandState]
  BY DEF CInv, Data
<1>2. eventLog' \in Log
  BY <1>1, PendingIsTyped, ExtendedIsLog DEF AppendLine
<1>3. raced'.registry = raced.registry
  BY DEF AppendLine
<1> QED
  BY <1>2, <1>3, AppendedData

(* Whoever is not in a critical section does not hold the lock.            *)
LEMMA LockElsewhere ==
  ASSUME CInv, NEW o \in Operator,
         \/ command[o].stage \notin Locked \/ Kind(o) \notin Staged
         \/ ~command[o].attached
  PROVE  lock # o
BY NobodyFree DEF CInv, Holder

(* A command that ends is sound: it gives up the lock if it had it.        *)
LEMMA EndKeeps ==
  ASSUME CInv, Data', Installed', NEW o \in Operator,
         NEW outcome \in {"Ok", "Conflict", "Failed"},
         command[o].stage # "idle",
         command' = Ended(o, outcome), lock' = Released(o),
         UNCHANGED <<store, committed>>,
         raced.registry => raced'.registry
  PROVE  CInv'
<1> DEFINE old == command[o]
           q == [command[o] EXCEPT
                   !.stage = IF command[o].attached THEN "done" ELSE "lost",
                   !.outcome = outcome]
<1>1. /\ command \in [Operator -> CommandState] /\ old \in CommandState
      /\ Sound(o, old, lock, store.version, ~raced.registry, committed)
      /\ raced.registry \in BOOLEAN
  BY DEF CInv, Data
<1>2. command' = [command EXCEPT ![o] = q]
  BY <1>1 DEF Ended
<1>3. /\ q \in CommandState
      /\ q.stage = IF old.attached THEN "done" ELSE "lost"
      /\ q.attached = old.attached /\ q.command = old.command
      /\ q.version = old.version /\ q.wrote = old.wrote
      /\ q.audited = old.audited
  BY <1>1 DEF CommandState, Stage
<1> HIDE DEF q
<1>4. Moves(o)
  BY NobodyFree DEF Moves, Released
<1>5. lock' \in {lock, "free", o} /\ lock' # o
  BY NobodyFree DEF Released
<1>6. Sound(o, q, lock', store'.version, ~raced'.registry, committed')
  <2>1. q.stage \in {"done", "lost"} /\ (~q.attached => q.stage = "lost")
    BY <1>3
  <2>2. Staging(q)
    BY <2>1 DEF Staging
  <2>3. Exclusive(o, q, lock', ~raced'.registry)
    BY <2>1 DEF Exclusive, Critical, Locked
  <2>4. Current(o, q, lock', store'.version, ~raced'.registry)
    BY <1>1, <1>3, <2>1 DEF Sound, Current, Critical, Locked
  <2>5. /\ Compiled(q, ~raced'.registry, committed')
        /\ Fresh(o, q, lock', store'.version, committed')
    BY <2>1 DEF Compiled, Fresh
  <2>6. Named(q, ~raced'.registry)
    BY <1>1, <1>3, <2>1 DEF Sound, Named
  <2> QED
    BY <2>2, <2>3, <2>4, <2>5, <2>6 DEF Sound
<1> QED
  BY <1>2, <1>3, <1>4, <1>5, <1>6, StepKeeps

(* A step that leaves everything but its own command alone.                *)
LEMMA OwnStepKeeps ==
  ASSUME CInv, NEW o \in Operator, Untouched, UNCHANGED <<lock, raced>>,
         NEW q \in CommandState, command' = [command EXCEPT ![o] = q],
         lock = o => q.attached /\ q.stage \in Locked /\ q.command.kind \in Staged,
         Sound(o, q, lock, store.version, ~raced.registry, committed)
  PROVE  CInv'
<1>1. raced.registry \in BOOLEAN
  BY DEF CInv, Data
<1>2. Data' /\ Installed'
  BY <1>1, UntouchedData
<1>3. Moves(o)
  BY DEF Moves, Untouched
<1> QED
  BY <1>2, <1>3, StepKeeps DEF Untouched

(* What is known of the command of a step.                                 *)
LEMMA OwnFacts ==
  ASSUME CInv, NEW o \in Operator
  PROVE  /\ command \in [Operator -> CommandState]
         /\ command[o] \in CommandState
         /\ Sound(o, command[o], lock, store.version, ~raced.registry, committed)
         /\ raced.registry \in BOOLEAN
         /\ store.version \in Nat /\ store.version >= 1
         /\ store.document \in Document
         /\ committed[store.version] = store.document
BY DEF CInv, Data

(* A command in its critical section has the lock.                         *)
LEMMA HasLock ==
  ASSUME CInv, NEW o \in Operator, Critical(o, command[o], lock)
  PROVE  lock = o /\ command[o].attached
BY OwnFacts DEF Sound, Exclusive, Critical

-----------------------------------------------------------------------------
(* One lemma per action.                                                   *)

(* A command arrives, outside any critical section.                        *)
LEMMA SubmitKeeps ==
  ASSUME CInv, NEW o \in Operator, Submit(o)
  PROVE  CInv'
<1> DEFINE old == command[o]
<1>1. PICK c \in Command :
        command' = [command EXCEPT ![o].command = c, ![o].stage = FirstStage(c),
         ![o].runtime = IF c.kind \in ChannelCommand \cup {"import"}
                        THEN Serving ELSE 0,
         ![o].keys = IF c.kind = "import" THEN runtimes[Serving].keys ELSE {}]
  BY DEF Submit
<1> DEFINE r == IF c.kind \in ChannelCommand \cup {"import"} THEN Serving ELSE 0
           k == IF c.kind = "import" THEN runtimes[Serving].keys ELSE {}
           q == [command[o] EXCEPT !.command = c, !.stage = FirstStage(c),
                                   !.runtime = r, !.keys = k]
<1>2. r \in Nat /\ k \in SUBSET Key
  <2>1. runtimes \in Seq(Runtime) /\ runtimes # <<>>
    BY DEF CInv, Data, Submit, Up
  <2>2. Serving \in Nat /\ runtimes[Serving] \in Runtime
    BY <2>1, EmptySeq, ElementOfSeq, LenProperties DEF Serving
  <2> QED
    BY <2>2 DEF Runtime
<1>3. /\ c.kind \in Staged \cup ChannelCommand \cup {"import"}
      /\ FirstStage(c) = CASE c.kind = "configure" -> "waiting"
                           [] c.kind \in Batch \cup {"reload"} -> "observing"
                           [] c.kind \in ChannelCommand -> "gating"
                           [] c.kind = "import" -> "auditing"
  BY CommandKinds DEF FirstStage
<1>4. /\ c.kind = "configure" => FirstStage(c) = "waiting"
      /\ c.kind \in Batch \cup {"reload"} => FirstStage(c) = "observing"
      /\ c.kind \in ChannelCommand => FirstStage(c) = "gating"
      /\ c.kind = "import" => FirstStage(c) = "auditing"
  BY <1>3 DEF Batch, ChannelCommand
<1>5. FirstStage(c) \in {"waiting", "observing", "gating", "auditing"}
  BY <1>3, <1>4 DEF Staged
<1>6. /\ old \in CommandState /\ command \in [Operator -> CommandState]
      /\ Sound(o, old, lock, store.version, ~raced.registry, committed)
      /\ old.stage = "idle"
  BY OwnFacts DEF Submit
<1> HIDE DEF r, k
<1>7. command' = [command EXCEPT ![o] = q]
  BY <1>1, <1>6 DEF r, k
<1>8. /\ q \in CommandState
      /\ q.stage = FirstStage(c) /\ q.command = c
      /\ q.version = old.version /\ q.wrote = old.wrote
      /\ q.audited = old.audited /\ q.attached = old.attached
  BY <1>2, <1>5, <1>6 DEF CommandState, Stage
<1> HIDE DEF q
<1>9. lock # o
  BY <1>6, LockElsewhere DEF Locked
<1>10. Sound(o, q, lock, store.version, ~raced.registry, committed)
  <2>1. Staging(q)
    BY <1>3, <1>4, <1>5, <1>8 DEF Staging, Staged, Batch, ChannelCommand
  <2>2. ~Critical(o, q, lock)
    BY <1>3, <1>4, <1>5, <1>8
       DEF Critical, Locked, Staged, Batch, ChannelCommand
  <2>3. q.attached
    BY <1>6, <1>8 DEF Sound, Exclusive, Threaded
  <2>4. Exclusive(o, q, lock, ~raced.registry)
    BY <2>2, <2>3 DEF Exclusive
  <2>5. Current(o, q, lock, store.version, ~raced.registry)
    BY <1>6, <1>8, <2>2 DEF Sound, Current
  <2>6. Compiled(q, ~raced.registry, committed)
    BY <1>4, <1>5, <1>8 DEF Compiled
  <2>7. Fresh(o, q, lock, store.version, committed)
    BY <1>4, <1>5, <1>8 DEF Fresh, Batch
  <2>8. Named(q, ~raced.registry)
    BY <1>5, <1>6, <1>8 DEF Sound, Named
  <2> QED
    BY <2>1, <2>4, <2>5, <2>6, <2>7, <2>8 DEF Sound
<1>11. Untouched /\ UNCHANGED <<lock, raced>>
  BY DEF Submit, Untouched
<1> QED
  BY <1>7, <1>8, <1>9, <1>10, <1>11, OwnStepKeeps

(* A version is read.                                                      *)
LEMMA ObserveKeeps ==
  ASSUME CInv, NEW o \in Operator, Observe(o)
  PROVE  CInv'
<1> DEFINE old == command[o]
           q == [command[o] EXCEPT
                   !.version = store.version,
                   !.stage = IF Kind(o) = "sync" THEN "loading" ELSE "waiting"]
<1>1. /\ old \in CommandState /\ command \in [Operator -> CommandState]
      /\ Sound(o, old, lock, store.version, ~raced.registry, committed)
      /\ old.stage = "observing" /\ store.version \in Nat
  BY OwnFacts DEF Observe
<1>2. command' = [command EXCEPT ![o] = q]
  BY <1>1 DEF Observe
<1>3. /\ q \in CommandState
      /\ q.stage = IF Kind(o) = "sync" THEN "loading" ELSE "waiting"
      /\ q.command = old.command /\ q.attached = old.attached
      /\ q.version = store.version /\ q.wrote = old.wrote
      /\ q.audited = old.audited
  BY <1>1 DEF CommandState, Stage
<1> HIDE DEF q
<1>4. lock # o
  BY <1>1, LockElsewhere DEF Locked
<1>5. Sound(o, q, lock, store.version, ~raced.registry, committed)
  <2>1. Staging(q)
    BY <1>1, <1>3 DEF Sound, Staging, Kind
  <2>2. ~Critical(o, q, lock)
    BY <1>3, <1>4 DEF Critical, Locked, Kind
  <2>3. Exclusive(o, q, lock, ~raced.registry)
    BY <1>1, <1>3, <2>2 DEF Sound, Exclusive, Threaded
  <2>4. Current(o, q, lock, store.version, ~raced.registry)
    BY <1>1, <1>3, <2>2 DEF Current
  <2>5. Compiled(q, ~raced.registry, committed)
    BY <1>3 DEF Compiled
  <2>6. Fresh(o, q, lock, store.version, committed)
    BY <1>3, <1>4 DEF Fresh, Kind
  <2>7. Named(q, ~raced.registry)
    BY <1>1, <1>3 DEF Sound, Named
  <2> QED
    BY <2>1, <2>3, <2>4, <2>5, <2>6, <2>7 DEF Sound
<1>6. Untouched /\ UNCHANGED <<lock, raced>>
  BY DEF Observe, Untouched
<1> QED
  BY <1>2, <1>3, <1>4, <1>5, <1>6, OwnStepKeeps

(* Taking the lock: nobody else is in a critical section.                  *)
LEMMA LockKeeps ==
  ASSUME CInv, NEW o \in Operator, Lock(o)
  PROVE  CInv'
<1> DEFINE old == command[o]
           q == [command[o] EXCEPT !.stage = "checking"]
<1>1. /\ old \in CommandState /\ command \in [Operator -> CommandState]
      /\ Sound(o, old, lock, store.version, ~raced.registry, committed)
      /\ old.stage = "waiting" /\ raced.registry \in BOOLEAN
  BY OwnFacts DEF Lock
<1>2. command' = [command EXCEPT ![o] = q]
  BY <1>1 DEF Lock, To
<1>3. /\ q \in CommandState
      /\ q.stage = "checking"
      /\ q.command = old.command /\ q.attached = old.attached
      /\ q.version = old.version /\ q.wrote = old.wrote
      /\ q.audited = old.audited /\ q.document = old.document
  BY <1>1 DEF CommandState, Stage
<1> HIDE DEF q
<1>4. lock = "free" /\ lock' = o /\ Untouched /\ UNCHANGED raced
  BY DEF Lock, LockFree, Untouched
<1>5. q.attached /\ q.command.kind \in Staged
  BY <1>1, <1>3 DEF Sound, Exclusive, Staging, Threaded
<1>6. Sound(o, q, lock', store.version, ~raced.registry, committed)
  <2>1. Staging(q)
    BY <1>1, <1>3 DEF Sound, Staging
  <2>2. Exclusive(o, q, lock', ~raced.registry)
    BY <1>4, <1>5 DEF Exclusive
  <2>3. Current(o, q, lock', store.version, ~raced.registry)
    BY <1>1, <1>3 DEF Sound, Current
  <2>4. Compiled(q, ~raced.registry, committed)
    BY <1>3 DEF Compiled
  <2>5. Fresh(o, q, lock', store.version, committed)
    BY <1>1, <1>3 DEF Sound, Fresh
  <2>6. Named(q, ~raced.registry)
    BY <1>1, <1>3 DEF Sound, Named
  <2> QED
    BY <2>1, <2>2, <2>3, <2>4, <2>5, <2>6 DEF Sound
<1>7. Moves(o)
  BY <1>1, <1>4, NobodyFree DEF Moves, Untouched
<1>8. Data' /\ Installed'
  BY <1>1, <1>4, UntouchedData
<1>9. UNCHANGED <<store, committed>>
  BY <1>4 DEF Untouched
<1>10. q.stage \in Locked
  BY <1>3 DEF Locked
<1> QED
  BY <1>2, <1>3, <1>4, <1>5, <1>6, <1>7, <1>8, <1>9, <1>10, StepKeeps

(* The version is checked, or read, under the lock: it is the present one. *)
LEMMA CheckKeeps ==
  ASSUME CInv, NEW o \in Operator, Check(o)
  PROVE  CInv'
<1> DEFINE old == command[o]
<1>1. /\ old \in CommandState /\ command \in [Operator -> CommandState]
      /\ Sound(o, old, lock, store.version, ~raced.registry, committed)
      /\ old.stage = "checking" /\ raced.registry \in BOOLEAN
      /\ store.version \in Nat
  BY OwnFacts DEF Check
<1>2. Critical(o, old, lock)
  BY <1>1 DEF Sound, Staging, Exclusive, Threaded, Critical, Locked
<1>3. lock = o /\ old.attached
  BY <1>1, <1>2, HasLock
<1>4. Untouched /\ UNCHANGED raced /\ UNCHANGED <<store, committed>>
  BY DEF Check, Untouched
<1>5. CASE /\ Kind(o) = "configure"
           /\ command' = [command EXCEPT ![o].version = store.version,
                                         ![o].stage = "auditing"]
           /\ UNCHANGED lock
  <2> DEFINE q == [command[o] EXCEPT !.version = store.version,
                                     !.stage = "auditing"]
  <2>1. command' = [command EXCEPT ![o] = q]
    BY <1>1, <1>5
  <2>2. /\ q \in CommandState
        /\ q.stage = "auditing"
        /\ q.command = old.command /\ q.attached = old.attached
        /\ q.version = store.version /\ q.wrote = old.wrote
    BY <1>1 DEF CommandState, Stage
  <2> HIDE DEF q
  <2>3. q.command.kind = "configure"
    BY <1>5, <2>2 DEF Kind
  <2>4. Sound(o, q, lock, store.version, ~raced.registry, committed)
    <3>1. Staging(q)
      BY <2>2, <2>3 DEF Staging, Staged
    <3>2. Exclusive(o, q, lock, ~raced.registry)
      BY <1>3, <2>2 DEF Exclusive
    <3>3. Current(o, q, lock, store.version, ~raced.registry)
      BY <1>1, <2>2 DEF Current
    <3>4. Compiled(q, ~raced.registry, committed)
      BY <2>3 DEF Compiled
    <3>5. Fresh(o, q, lock, store.version, committed)
      BY <2>3 DEF Fresh
    <3>6. Named(q, ~raced.registry)
      BY <1>1, <2>2 DEF Sound, Named
    <3> QED
      BY <3>1, <3>2, <3>3, <3>4, <3>5, <3>6 DEF Sound
  <2>5. q.attached /\ q.stage \in Locked /\ q.command.kind \in Staged
    BY <1>3, <2>2, <2>3 DEF Locked, Staged
  <2> QED
    BY <1>4, <1>5, <2>1, <2>2, <2>4, <2>5, OwnStepKeeps
<1>6. CASE End(o, "Conflict")
  <2>1. Data' /\ Installed'
    BY <1>1, <1>4, UntouchedData
  <2> QED
    BY <1>1, <1>4, <1>6, <2>1, EndKeeps DEF End
<1>7. CASE /\ Kind(o) # "configure" /\ old.version = store.version
           /\ To(o, "loading") /\ UNCHANGED lock
  <2> DEFINE q == [command[o] EXCEPT !.stage = "loading"]
  <2>1. command' = [command EXCEPT ![o] = q]
    BY <1>1, <1>7 DEF To
  <2>2. /\ q \in CommandState
        /\ q.stage = "loading"
        /\ q.command = old.command /\ q.attached = old.attached
        /\ q.version = old.version /\ q.wrote = old.wrote
        /\ q.document = old.document
    BY <1>1 DEF CommandState, Stage
  <2> HIDE DEF q
  <2>3. q.command.kind \in Staged
    BY <1>1, <2>2 DEF Sound, Staging
  <2>4. Sound(o, q, lock, store.version, ~raced.registry, committed)
    <3>1. Staging(q)
      BY <1>7, <2>2, <2>3 DEF Staging, Kind
    <3>2. Exclusive(o, q, lock, ~raced.registry)
      BY <1>3, <2>2 DEF Exclusive
    <3>3. Current(o, q, lock, store.version, ~raced.registry)
      BY <1>1, <1>7, <2>2 DEF Current
    <3>4. Compiled(q, ~raced.registry, committed)
      BY <2>2 DEF Compiled
    <3>5. Fresh(o, q, lock, store.version, committed)
      BY <1>1, <2>2 DEF Sound, Fresh
    <3>6. Named(q, ~raced.registry)
      BY <1>1, <2>2 DEF Sound, Named
    <3> QED
      BY <3>1, <3>2, <3>3, <3>4, <3>5, <3>6 DEF Sound
  <2>5. q.attached /\ q.stage \in Locked /\ q.command.kind \in Staged
    BY <1>3, <2>2, <2>3 DEF Locked
  <2> QED
    BY <1>4, <1>7, <2>1, <2>2, <2>4, <2>5, OwnStepKeeps
<1> QED
  BY <1>5, <1>6, <1>7, Zenon DEF Check

(* Loading under the lock finds the document of the version checked; the   *)
(* load before it reads a document at least as new as the version read.    *)
LEMMA LoadKeeps ==
  ASSUME CInv, NEW o \in Operator, Load(o)
  PROVE  CInv'
<1> DEFINE old == command[o]
<1>1. /\ old \in CommandState /\ command \in [Operator -> CommandState]
      /\ Sound(o, old, lock, store.version, ~raced.registry, committed)
      /\ old.stage = "loading" /\ raced.registry \in BOOLEAN
      /\ store.version \in Nat /\ store.version >= 1
      /\ store.document \in Document
      /\ committed[store.version] = store.document
  BY OwnFacts DEF Load
<1>2. Untouched /\ UNCHANGED raced /\ UNCHANGED <<store, committed>>
  BY DEF Load, Untouched
<1>3. old.command.kind \in Staged /\ Kind(o) = old.command.kind
  BY <1>1 DEF Sound, Staging, Kind
<1>4. CASE End(o, "Conflict")
  <2>1. Data' /\ Installed'
    BY <1>1, <1>2, UntouchedData
  <2> QED
    BY <1>1, <1>2, <1>4, <2>1, EndKeeps DEF End
<1>5. CASE /\ lock = o /\ Kind(o) \in Batch
           /\ To(o, "auditing") /\ UNCHANGED lock
  <2> DEFINE q == [command[o] EXCEPT !.stage = "auditing"]
  <2>1. command' = [command EXCEPT ![o] = q]
    BY <1>1, <1>5 DEF To
  <2>2. /\ q \in CommandState
        /\ q.stage = "auditing"
        /\ q.command = old.command /\ q.attached = old.attached
        /\ q.version = old.version /\ q.wrote = old.wrote
        /\ q.document = old.document
    BY <1>1 DEF CommandState, Stage
  <2> HIDE DEF q
  <2>3. Critical(o, old, lock) /\ old.attached
    BY <1>1, <1>3, <1>5 DEF Sound, Exclusive, Threaded, Critical, Locked
  <2>4. Sound(o, q, lock, store.version, ~raced.registry, committed)
    <3>1. Staging(q)
      BY <1>3, <2>2 DEF Staging
    <3>2. Exclusive(o, q, lock, ~raced.registry)
      BY <1>5, <2>2, <2>3 DEF Exclusive
    <3>3. Current(o, q, lock, store.version, ~raced.registry)
      BY <1>1, <2>2, <2>3 DEF Sound, Current
    <3>4. Compiled(q, ~raced.registry, committed)
      BY <1>3, <1>5, <2>2 DEF Compiled, Batch
    <3>5. Fresh(o, q, lock, store.version, committed)
      BY <1>1, <1>5, <2>2 DEF Sound, Fresh
    <3>6. Named(q, ~raced.registry)
      BY <1>1, <2>2 DEF Sound, Named
    <3> QED
      BY <3>1, <3>2, <3>3, <3>4, <3>5, <3>6 DEF Sound
  <2>5. q.attached /\ q.stage \in Locked /\ q.command.kind \in Staged
    BY <1>3, <2>2, <2>3 DEF Locked
  <2> QED
    BY <1>2, <1>5, <2>1, <2>2, <2>4, <2>5, OwnStepKeeps
<1>6. CASE /\ ~(lock = o /\ Kind(o) \in Batch)
           /\ command' = [command EXCEPT ![o].document = store.document,
                ![o].stage = IF Kind(o) = "sync" THEN "discovering"
                             ELSE "resolving"]
           /\ UNCHANGED lock
  <2> DEFINE q == [command[o] EXCEPT !.document = store.document,
                !.stage = IF Kind(o) = "sync" THEN "discovering"
                          ELSE "resolving"]
  <2>1. command' = [command EXCEPT ![o] = q]
    BY <1>1, <1>6
  <2>2. /\ q \in CommandState
        /\ q.stage = IF Kind(o) = "sync" THEN "discovering" ELSE "resolving"
        /\ q.command = old.command /\ q.attached = old.attached
        /\ q.version = old.version /\ q.wrote = old.wrote
        /\ q.document = store.document
    BY <1>1 DEF CommandState, Stage
  <2> HIDE DEF q
  <2>3. q.attached
    BY <1>1, <2>2 DEF Sound, Exclusive, Threaded
  <2>4. Kind(o) # "sync" => Critical(o, old, lock) /\ lock = o
    BY <1>1, <1>3, <2>2, <2>3, HasLock DEF Critical, Locked
  <2>5. Kind(o) = "sync" => lock # o
    BY <1>6 DEF Batch
  <2>6. Kind(o) # "sync" => Kind(o) \notin Batch
    BY <1>6, <2>4
  <2>7. Sound(o, q, lock, store.version, ~raced.registry, committed)
    <3>1. Staging(q)
      BY <1>1, <1>3, <2>2, <2>6 DEF Sound, Staging, Staged
    <3>2. Exclusive(o, q, lock, ~raced.registry)
      BY <1>3, <2>2, <2>3, <2>4 DEF Exclusive, Critical, Locked
    <3>3. Current(o, q, lock, store.version, ~raced.registry)
      BY <1>1, <1>3, <2>2, <2>4 DEF Sound, Current, Critical, Locked
    <3>4. Compiled(q, ~raced.registry, committed)
      BY <1>1, <1>3, <2>2, <2>4 DEF Sound, Current, Compiled
    <3>5. Fresh(o, q, lock, store.version, committed)
      BY <1>1, <2>2 DEF Fresh
    <3>6. Named(q, ~raced.registry)
      BY <1>1, <2>2 DEF Sound, Named
    <3> QED
      BY <3>1, <3>2, <3>3, <3>4, <3>5, <3>6 DEF Sound
  <2>8. lock = o => q.attached /\ q.stage \in Locked /\ q.command.kind \in Staged
    BY <1>3, <2>2, <2>3, <2>5 DEF Locked
  <2> QED
    BY <1>2, <1>6, <2>1, <2>2, <2>7, <2>8, OwnStepKeeps
<1> QED
  BY <1>4, <1>5, <1>6, Zenon DEF Load

(* A step outside every critical section that moves its command on to a    *)
(* stage that is outside as well.                                          *)
LEMMA OutsideKeeps ==
  ASSUME CInv, NEW o \in Operator, UNCHANGED <<lock, store, committed>>,
         Data', Installed', raced'.registry = raced.registry,
         NEW q \in CommandState, command' = [command EXCEPT ![o] = q],
         \/ command[o].stage \notin Locked \/ Kind(o) \notin Staged
         \/ ~command[o].attached,
         command[o].stage # "idle",
         q.stage \notin Locked \cup {"waiting", "discovering"},
         q.attached = command[o].attached, q.command = command[o].command,
         q.version = command[o].version, q.wrote = command[o].wrote,
         q.attached \/ q.stage \in {"lost"} \cup Threaded,
         q.wrote # 0 => q.stage \in {"done", "lost"} /\ q.audited = command[o].audited,
         Staging(q)
  PROVE  CInv'
<1> DEFINE old == command[o]
<1>1. /\ old \in CommandState /\ command \in [Operator -> CommandState]
      /\ Sound(o, old, lock, store.version, ~raced.registry, committed)
      /\ raced.registry \in BOOLEAN
  BY OwnFacts
<1>2. lock # o
  BY LockElsewhere
<1>3. Moves(o)
  BY DEF Moves
<1>4. ~Critical(o, q, lock) /\ q.stage # "applying"
  BY DEF Critical, Locked
<1>5. Exclusive(o, q, lock, ~raced.registry)
  BY <1>1, <1>4 DEF Exclusive, CommandState
<1>6. Current(o, q, lock, store.version, ~raced.registry)
  BY <1>1, <1>4 DEF Sound, Current
<1>7. /\ Compiled(q, ~raced.registry, committed)
      /\ Fresh(o, q, lock, store.version, committed)
  BY DEF Compiled, Fresh, Locked
<1>8. Named(q, ~raced.registry)
  BY <1>1, <1>4 DEF Sound, Named
<1>9. Sound(o, q, lock', store'.version, ~raced'.registry, committed')
  BY <1>5, <1>6, <1>7, <1>8 DEF Sound
<1> QED
  BY <1>2, <1>3, <1>9, StepKeeps

(* A synchronisation that has something to add waits for the lock.         *)
LEMMA DiscoverKeeps ==
  ASSUME CInv, NEW o \in Operator, Discover(o)
  PROVE  CInv'
<1> DEFINE old == command[o]
           q == [command[o] EXCEPT !.stage = "waiting"]
<1>1. /\ old \in CommandState /\ command \in [Operator -> CommandState]
      /\ Sound(o, old, lock, store.version, ~raced.registry, committed)
      /\ old.stage = "discovering" /\ raced.registry \in BOOLEAN
  BY OwnFacts DEF Discover
<1>2. Untouched /\ UNCHANGED raced /\ UNCHANGED <<store, committed>>
  BY DEF Discover, Untouched
<1>3. CASE End(o, "Ok")
  <2>1. Data' /\ Installed'
    BY <1>1, <1>2, UntouchedData
  <2> QED
    BY <1>1, <1>2, <1>3, <2>1, EndKeeps DEF End
<1>4. CASE To(o, "waiting") /\ UNCHANGED lock
  <2>1. command' = [command EXCEPT ![o] = q]
    BY <1>1, <1>4 DEF To
  <2>2. /\ q \in CommandState
        /\ q.stage = "waiting"
        /\ q.command = old.command /\ q.attached = old.attached
        /\ q.version = old.version /\ q.wrote = old.wrote
        /\ q.document = old.document
    BY <1>1 DEF CommandState, Stage
  <2> HIDE DEF q
  <2>3. lock # o
    BY <1>1, LockElsewhere DEF Locked
  <2>4. Sound(o, q, lock, store.version, ~raced.registry, committed)
    <3>1. Staging(q)
      BY <1>1, <2>2 DEF Sound, Staging
    <3>2. Exclusive(o, q, lock, ~raced.registry)
      BY <1>1, <2>2 DEF Sound, Exclusive, Critical, Locked, Threaded
    <3>3. Current(o, q, lock, store.version, ~raced.registry)
      BY <1>1, <2>2 DEF Sound, Current, Critical, Locked
    <3>4. Compiled(q, ~raced.registry, committed)
      BY <2>2 DEF Compiled
    <3>5. Fresh(o, q, lock, store.version, committed)
      BY <1>1, <2>2 DEF Sound, Fresh
    <3>6. Named(q, ~raced.registry)
      BY <1>1, <2>2 DEF Sound, Named
    <3> QED
      BY <3>1, <3>2, <3>3, <3>4, <3>5, <3>6 DEF Sound
  <2> QED
    BY <1>2, <1>4, <2>1, <2>2, <2>3, <2>4, OwnStepKeeps
<1> QED
  BY <1>3, <1>4, Zenon DEF Discover

(* A step of a critical section on to its next stage.                      *)
LEMMA InsideKeeps ==
  ASSUME CInv, NEW o \in Operator, UNCHANGED <<lock, store, committed>>,
         Data', Installed', raced'.registry = raced.registry,
         Critical(o, command[o], lock),
         command[o].stage \in {"resolving", "auditing", "rebuilding"},
         NEW q \in CommandState, command' = [command EXCEPT ![o] = q],
         q.stage \in {"auditing", "applying", "rebuilding", "installing"},
         q.command = command[o].command, q.attached = command[o].attached,
         q.version = command[o].version, q.wrote = command[o].wrote,
         q.document = command[o].document,
         q.stage = "applying" => q.audited = q.version + 1,
         q.stage = "auditing" => command[o].command.kind \notin Batch,
         Staging(q)
  PROVE  CInv'
<1> DEFINE old == command[o]
<1>1. /\ old \in CommandState
      /\ Sound(o, old, lock, store.version, ~raced.registry, committed)
      /\ raced.registry \in BOOLEAN
  BY OwnFacts
<1>2. lock = o /\ old.attached
  BY HasLock
<1>3. q.command.kind \in Staged /\ q.stage \in Locked
  BY DEF Critical, Locked
<1>4. Exclusive(o, q, lock, ~raced.registry)
  BY <1>2 DEF Exclusive
<1>5. Current(o, q, lock, store.version, ~raced.registry)
  BY <1>1 DEF Sound, Current
<1>6. Compiled(q, ~raced.registry, committed)
  BY <1>1 DEF Sound, Compiled
<1>7. Fresh(o, q, lock, store.version, committed)
  <2>1. CASE q.stage = "auditing"
    BY <2>1 DEF Fresh, Batch
  <2>2. CASE q.stage = "applying" /\ old.stage = "auditing"
    BY <1>1, <2>2 DEF Sound, Fresh
  <2>3. CASE q.stage \in {"rebuilding", "installing"}
    BY <2>3 DEF Fresh
  <2>4. CASE q.stage = "applying" /\ old.stage \in {"resolving", "rebuilding"}
    BY <1>1, <2>4 DEF Sound, Staging, Fresh, Batch
  <2> QED
    BY <2>1, <2>2, <2>3, <2>4
<1>8. Named(q, ~raced.registry)
  BY <1>1 DEF Sound, Named
<1>9. Sound(o, q, lock', store'.version, ~raced'.registry, committed')
  BY <1>4, <1>5, <1>6, <1>7, <1>8 DEF Sound
<1>10. Moves(o)
  BY DEF Moves
<1> QED
  BY <1>2, <1>3, <1>9, <1>10, StepKeeps

(* Resolving reads the credentials, under the lock.                        *)
LEMMA ResolveKeeps ==
  ASSUME CInv, NEW o \in Operator, Resolve(o)
  PROVE  CInv'
<1> DEFINE old == command[o]
           q == [command[o] EXCEPT !.keys = keys, !.stage = "auditing"]
<1>1. /\ old \in CommandState /\ command \in [Operator -> CommandState]
      /\ Sound(o, old, lock, store.version, ~raced.registry, committed)
      /\ old.stage = "resolving" /\ keys \in SUBSET Key
  BY OwnFacts DEF Resolve, CInv, Data
<1>2. command' = [command EXCEPT ![o] = q]
  BY <1>1 DEF Resolve
<1>3. /\ q \in CommandState
      /\ q.stage = "auditing"
      /\ q.command = old.command /\ q.attached = old.attached
      /\ q.version = old.version /\ q.wrote = old.wrote
      /\ q.document = old.document
  BY <1>1 DEF CommandState, Stage
<1> HIDE DEF q
<1>4. old.command.kind = "reload"
  BY <1>1 DEF Sound, Staging
<1>5. Critical(o, old, lock)
  BY <1>1, <1>4 DEF Sound, Exclusive, Threaded, Critical, Locked, Staged
<1>6. Staging(q) /\ old.command.kind \notin Batch
  BY <1>3, <1>4 DEF Staging, Staged, Batch
<1>7. Untouched /\ UNCHANGED <<lock, raced, store, committed>>
  BY DEF Resolve, Untouched
<1>8. Data' /\ Installed'
  BY <1>7, OwnFacts, UntouchedData
<1> QED
  BY <1>1, <1>2, <1>3, <1>4, <1>5, <1>6, <1>7, <1>8, InsideKeeps

(* The audit event names the version a staged write will have.  A thread   *)
(* that appends it without a handler is lost behind it.                    *)
LEMMA AuditKeeps ==
  ASSUME CInv, NEW o \in Operator, Audit(o)
  PROVE  CInv'
<1> DEFINE old == command[o]
           stage == NextStage(o)
           audited == IF Kind(o) = "import" THEN old.audited ELSE Generation(o)
           q == [command[o] EXCEPT !.audited = audited, !.stage = stage]
<1>1. /\ old \in CommandState /\ command \in [Operator -> CommandState]
      /\ Sound(o, old, lock, store.version, ~raced.registry, committed)
      /\ old.stage = "auditing" /\ raced.registry \in BOOLEAN
  BY OwnFacts DEF Audit
<1>2. command' = [command EXCEPT ![o] = q]
  BY <1>1 DEF Audit
<1>3. /\ ~old.attached => stage = "lost"
      /\ old.attached /\ Kind(o) = "reload" => stage = "rebuilding"
      /\ old.attached /\ Kind(o) = "import" => stage = "persisting"
      /\ old.attached /\ Kind(o) \notin {"reload", "import"} => stage = "applying"
  BY <1>1 DEF NextStage, CommandState
<1>4. /\ audited \in Nat
      /\ Kind(o) \notin {"reload", "import"} => audited = old.version + 1
  BY <1>1 DEF Generation, CommandState
<1> HIDE DEF stage, audited
<1>5. stage \in {"lost", "rebuilding", "persisting", "applying"}
  BY <1>3
<1>6. /\ q \in CommandState
      /\ q.stage = stage /\ q.audited = audited
      /\ q.command = old.command /\ q.attached = old.attached
      /\ q.version = old.version /\ q.wrote = old.wrote
      /\ q.document = old.document
  BY <1>1, <1>4, <1>5 DEF CommandState, Stage
<1> HIDE DEF q
<1>7. Kind(o) = old.command.kind /\ old.command.kind \in Staged \cup {"import"}
  BY <1>1 DEF Sound, Staging, Kind
<1>8. Data' /\ Installed' /\ raced'.registry = raced.registry
  BY AppendLineData DEF Audit
<1>9. UNCHANGED <<lock, store, committed>>
  BY DEF Audit
<1>10. q.wrote = 0
  BY <1>1, <1>6 DEF Sound, Named
<1>11. CASE ~old.attached
  <2>1. q.stage = "lost"
    BY <1>3, <1>6, <1>11
  <2>2. q.stage \notin Locked \cup {"waiting", "discovering"} /\ Staging(q)
    BY <2>1 DEF Locked, Staging
  <2> QED
    BY <1>1, <1>2, <1>6, <1>8, <1>9, <1>10, <1>11, <2>1, <2>2, OutsideKeeps
<1>12. CASE old.attached /\ Kind(o) = "import"
  <2>1. Kind(o) \notin Staged
    BY <1>12 DEF Staged, Batch
  <2>2. Staging(q)
    BY <1>3, <1>6, <1>7, <1>12 DEF Staging
  <2>3. q.stage \notin Locked \cup {"waiting", "discovering"}
    BY <1>3, <1>6, <1>12 DEF Locked
  <2> QED
    BY <1>1, <1>2, <1>6, <1>8, <1>9, <1>10, <1>12, <2>1, <2>2, <2>3, OutsideKeeps
<1>13. CASE old.attached /\ Kind(o) # "import"
  <2>1. old.command.kind \in Staged
    BY <1>7, <1>13
  <2>2. Critical(o, old, lock)
    BY <1>1, <1>13, <2>1 DEF Critical, Locked
  <2>3. q.stage \in {"rebuilding", "applying"}
    BY <1>3, <1>6, <1>13
  <2>4. q.stage = "applying" => q.audited = q.version + 1
    BY <1>3, <1>4, <1>6, <1>13
  <2>5. Staging(q)
    BY <1>3, <1>6, <1>7, <1>13, <2>1 DEF Staging, Batch
  <2> QED
    BY <1>1, <1>2, <1>6, <1>8, <1>9, <2>2, <2>3, <2>4, <2>5, InsideKeeps
<1> QED
  BY <1>11, <1>12, <1>13

(* The event log is read for the pools of the new runtime.                 *)
LEMMA RebuildKeeps ==
  ASSUME CInv, NEW o \in Operator, Rebuild(o)
  PROVE  CInv'
<1> DEFINE old == command[o]
           q == [command[o] EXCEPT !.log = Replayed, !.stage = "installing"]
<1>1. /\ old \in CommandState /\ command \in [Operator -> CommandState]
      /\ Sound(o, old, lock, store.version, ~raced.registry, committed)
      /\ old.stage = "rebuilding" /\ Replayed \in [Channel -> Event]
  BY OwnFacts, ReplayedIsTyped DEF Rebuild, CInv, Data
<1>2. command' = [command EXCEPT ![o] = q]
  BY <1>1 DEF Rebuild
<1>3. /\ q \in CommandState
      /\ q.stage = "installing"
      /\ q.command = old.command /\ q.attached = old.attached
      /\ q.version = old.version /\ q.wrote = old.wrote
      /\ q.document = old.document
  BY <1>1 DEF CommandState, Stage
<1> HIDE DEF q
<1>4. old.command.kind = "reload"
  BY <1>1 DEF Sound, Staging
<1>5. Critical(o, old, lock)
  BY <1>1, <1>4 DEF Sound, Exclusive, Threaded, Critical, Locked, Staged
<1>6. Staging(q) /\ old.command.kind \notin Batch
  BY <1>3, <1>4 DEF Staging, Staged, Batch
<1>7. Untouched /\ UNCHANGED <<lock, raced, store, committed>>
  BY DEF Rebuild, Untouched
<1>8. Data' /\ Installed'
  BY <1>7, OwnFacts, UntouchedData
<1> QED
  BY <1>1, <1>2, <1>3, <1>4, <1>5, <1>6, <1>7, <1>8, InsideKeeps

(* What a write leaves is a document.                                      *)
LEMMA WrittenIsDocument ==
  ASSUME CInv, NEW o \in Operator, command[o].stage = "applying"
  PROVE  Written(o) \in Document
<1> DEFINE old == command[o]
           c == command[o].command
<1>1. /\ old \in CommandState /\ store.document \in Document
      /\ Sound(o, old, lock, store.version, ~raced.registry, committed)
  BY OwnFacts
<1>2. c.kind \in Staged /\ c.kind # "reload" /\ Kind(o) = c.kind
  BY <1>1 DEF Sound, Staging, Kind
<1>3. c \in Command
  BY <1>1, <1>2 DEF CommandState, NoCommand, Staged, Batch
<1>4. CASE c.kind \in Batch
  <2>1. c.model \in Model
    BY <1>3, <1>4, CommandKinds
  <2>2. RouteOf(o) \in SUBSET Channel
    <3>1. CASE c.kind = "route"
      BY <1>3, <3>1, CommandKinds DEF RouteOf
    <3>2. CASE c.kind = "sync"
      <4>1. c.channel \in Channel
        BY <1>3, <3>2, CommandKinds
      <4>2. old.document.routes[c.model] \in SUBSET Channel
        BY <1>1, <2>1 DEF CommandState, Document
      <4> QED
        BY <3>2, <4>1, <4>2 DEF RouteOf
    <3> QED
      BY <1>4, <3>1, <3>2 DEF Batch
  <2>3. Written(o) = [store.document EXCEPT !.routes[c.model] = RouteOf(o)]
    BY <1>2, <1>4 DEF Written
  <2> QED
    BY <1>1, <2>1, <2>2, <2>3 DEF Document
<1>5. CASE c.kind = "configure"
  <2>1. c.resource \in BOOLEAN
    BY <1>3, <1>5, CommandKinds
  <2>2. Kind(o) \notin Batch
    BY <1>2, <1>5 DEF Batch
  <2>3. Written(o) = [store.document EXCEPT !.resource = c.resource]
    BY <2>2 DEF Written
  <2> QED
    BY <1>1, <2>1, <2>3 DEF Document
<1> QED
  BY <1>2, <1>4, <1>5 DEF Staged

(* A write commits the next version, which its audit event named.          *)
LEMMA ApplyKeeps ==
  ASSUME CInv, NEW o \in Operator, Apply(o)
  PROVE  CInv'
<1> DEFINE old == command[o]
           v == store.version
           q == [command[o] EXCEPT
                   !.stage = IF command[o].attached THEN "done" ELSE "lost",
                   !.outcome = "Ok",
                   !.wrote = store.version + 1]
<1>1. /\ old \in CommandState /\ command \in [Operator -> CommandState]
      /\ Sound(o, old, lock, v, ~raced.registry, committed)
      /\ old.stage = "applying" /\ raced.registry \in BOOLEAN
      /\ v \in Nat /\ v >= 1
  BY OwnFacts DEF Apply
<1>2. UNCHANGED <<keys, eventLog, runtimes, crashes, raced>>
  BY DEF Apply
<1>3. old.command.kind \in Staged /\ Kind(o) \in Staged
  BY <1>1 DEF Sound, Staging, Kind
<1>4. CASE End(o, "Conflict") /\ UNCHANGED <<store, committed>>
  <2>1. Data' /\ Installed'
    BY <1>1, <1>2, <1>4, UntouchedData DEF Untouched
  <2> QED
    BY <1>1, <1>2, <1>4, <2>1, EndKeeps DEF End
<1>5. CASE /\ store' = [version |-> v + 1, document |-> Written(o)]
           /\ committed' = Append(committed, Written(o))
           /\ command' = [Ended(o, "Ok") EXCEPT ![o].wrote = v + 1]
           /\ lock' = Released(o)
  <2>1. Written(o) \in Document
    BY <1>1, WrittenIsDocument
  <2>2. /\ store'.version = v + 1 /\ store'.document = Written(o)
        /\ store' \in [version : Nat, document : Document]
    BY <1>1, <1>5, <2>1
  <2>3. committed \in Seq(Document) /\ Len(committed) = v
    BY DEF CInv, Data
  <2>4. /\ committed' \in Seq(Document) /\ Len(committed') = v + 1
        /\ committed'[v + 1] = Written(o)
        /\ \A n \in 1..v : committed'[n] = committed[n]
    BY <1>5, <2>1, <2>3, OneMoreDocument
  <2>5. Data'
    <3>1. /\ keys \subseteq Key /\ eventLog \in Log
          /\ runtimes \in Seq(Runtime)
      BY DEF CInv, Data
    <3> QED
      BY <1>1, <1>2, <2>2, <2>4, <3>1 DEF Data
  <2>6. Installed'
    BY <1>1, <1>2, <2>2, <2>4 DEF CInv, Installed
  <2>7. command' = [command EXCEPT ![o] = q]
    BY <1>1, <1>5 DEF Ended
  <2>8. /\ q \in CommandState
        /\ q.stage = IF old.attached THEN "done" ELSE "lost"
        /\ q.attached = old.attached /\ q.command = old.command
        /\ q.version = old.version /\ q.wrote = v + 1
        /\ q.audited = old.audited
    <3>1. v + 1 \in Nat
      BY <1>1
    <3> DEFINE w == v + 1
    <3> HIDE DEF w
    <3> DEFINE e == [command[o] EXCEPT
                       !.stage = IF command[o].attached THEN "done" ELSE "lost",
                       !.outcome = "Ok",
                       !.wrote = w]
    <3>2. /\ e \in CommandState
          /\ e.stage = IF old.attached THEN "done" ELSE "lost"
          /\ e.attached = old.attached /\ e.command = old.command
          /\ e.version = old.version /\ e.wrote = w
          /\ e.audited = old.audited
      BY <1>1, <3>1 DEF w, CommandState, Stage
    <3>3. q = e
      BY DEF w
    <3> HIDE DEF e, q
    <3> QED
      BY <3>2, <3>3 DEF w
  <2> HIDE DEF q
  <2>9. Moves(o)
    BY <1>1, <1>2, <1>3, <1>5, <2>2, NobodyFree DEF Moves, Released
  <2>10. lock' \in {lock, "free", o} /\ lock' # o
    BY <1>5, NobodyFree DEF Released
  <2>11. Sound(o, q, lock', store'.version, ~raced'.registry, committed')
    <3>1. q.stage \in {"done", "lost"} /\ (~q.attached => q.stage = "lost")
      BY <2>8
    <3>2. Staging(q)
      BY <3>1 DEF Staging
    <3>3. ~Critical(o, q, lock')
      BY <3>1 DEF Critical, Locked
    <3>4. Exclusive(o, q, lock', ~raced'.registry)
      BY <3>1, <3>3 DEF Exclusive
    <3>5. q.version \in Nat /\ q.version <= v
      BY <1>1, <2>8 DEF Sound, Current, CommandState
    <3>6. Current(o, q, lock', store'.version, ~raced'.registry)
      BY <1>1, <2>2, <3>3, <3>5 DEF Current
    <3>7. /\ Compiled(q, ~raced'.registry, committed')
          /\ Fresh(o, q, lock', store'.version, committed')
      BY <3>1 DEF Compiled, Fresh
    <3>8. ~raced.registry => Critical(o, old, lock)
      BY <1>1, <1>3 DEF Sound, Exclusive, Critical, Locked
    <3>9. ~raced.registry => old.audited = old.version + 1 /\ old.version = v
      BY <1>1, <3>8 DEF Sound, Named, Current
    <3>10. Named(q, ~raced'.registry)
      BY <1>2, <2>8, <3>1, <3>9 DEF Named
    <3> QED
      BY <3>2, <3>4, <3>6, <3>7, <3>10 DEF Sound
  <2> QED
    BY <2>5, <2>6, <2>7, <2>8, <2>9, <2>10, <2>11, StepKeeps
<1> QED
  BY <1>4, <1>5, Zenon DEF Apply

(* What is installed has the version it was compiled from.                 *)
LEMMA InstallKeeps ==
  ASSUME CInv, NEW o \in Operator, Install(o)
  PROVE  CInv'
<1> DEFINE old == command[o]
           v == store.version
           new == Rebuilt(o)
<1>1. /\ old \in CommandState
      /\ Sound(o, old, lock, v, ~raced.registry, committed)
      /\ old.stage = "installing" /\ raced.registry \in BOOLEAN
      /\ v \in Nat
  BY OwnFacts DEF Install
<1>2. /\ UNCHANGED <<store, keys, eventLog, crashes, committed>>
      /\ runtimes' = Append(runtimes, new)
      /\ raced'.registry = raced.registry
  <2>1. raced' = [raced EXCEPT !.channels = raced'.channels, !.keys = raced'.keys]
        \/ raced'.registry = raced.registry
    BY DEF Install
  <2> QED
    BY <2>1 DEF Install
<1>3. new.version = old.version /\ new.document = old.document /\ new \in Runtime
  BY <1>1 DEF Rebuilt, Runtime, CommandState, Logged
<1> HIDE DEF new
<1>4. runtimes \in Seq(Runtime)
  BY DEF CInv, Data
<1>5. /\ runtimes' \in Seq(Runtime) /\ Len(runtimes) \in Nat
      /\ DOMAIN runtimes = 1..Len(runtimes)
      /\ DOMAIN runtimes' = 1..(Len(runtimes) + 1)
      /\ runtimes'[Len(runtimes) + 1] = new
      /\ \A g \in 1..Len(runtimes) : runtimes'[g] = runtimes[g]
  BY <1>2, <1>3, <1>4, AppendProperties, LenProperties
<1>6. Data'
  BY <1>2, <1>5 DEF CInv, Data
<1>7. old.command.kind = "reload"
  BY <1>1 DEF Sound, Staging
<1>8. ~raced.registry => /\ new.version \in 1..v
                         /\ new.document = committed[new.version]
  <2>1. Critical(o, old, lock)
    BY <1>1, <1>7 DEF Sound, Exclusive, Threaded, Critical, Locked, Staged
  <2>2. ~raced.registry =>
          /\ old.version = v /\ old.version >= 1
          /\ old.document = committed[old.version]
    BY <1>1, <1>7, <2>1 DEF Sound, Current, Compiled
  <2> QED
    BY <1>1, <1>3, <2>2
<1>9. Installed'
  BY <1>2, <1>5, <1>8 DEF CInv, Installed
<1> QED
  BY <1>1, <1>2, <1>6, <1>9, EndKeeps DEF Install, End

(* Channel commands and imports hold no lock and read no version.          *)
LEMMA GateKeeps ==
  ASSUME CInv, NEW o \in Operator, Gate(o)
  PROVE  CInv'
<1> DEFINE old == command[o]
           q == [command[o] EXCEPT !.stage = "appending"]
<1>1. /\ old \in CommandState /\ command \in [Operator -> CommandState]
      /\ Sound(o, old, lock, store.version, ~raced.registry, committed)
      /\ old.stage = "gating" /\ raced.registry \in BOOLEAN
  BY OwnFacts DEF Gate
<1>2. command' = [command EXCEPT ![o] = q]
  BY <1>1 DEF Gate, To
<1>3. /\ q \in CommandState
      /\ q.stage = "appending" /\ q.attached = old.attached
      /\ q.command = old.command /\ q.version = old.version
      /\ q.wrote = old.wrote
  BY <1>1 DEF CommandState, Stage
<1> HIDE DEF q
<1>4. Untouched /\ UNCHANGED raced /\ UNCHANGED <<lock, store, committed>>
  BY DEF Gate, Untouched
<1>5. Data' /\ Installed'
  BY <1>1, <1>4, UntouchedData
<1>6. /\ Staging(q) /\ q.wrote = 0
      /\ q.stage \notin Locked \cup {"waiting", "discovering"}
      /\ q.stage \in Threaded /\ old.stage \notin Locked
  BY <1>1, <1>3 DEF Sound, Staging, Named, Locked, Threaded
<1> QED
  BY <1>1, <1>2, <1>3, <1>4, <1>5, <1>6, OutsideKeeps

(* The event of a channel command goes to the log.                         *)
LEMMA AppendEventKeeps ==
  ASSUME CInv, NEW o \in Operator, AppendEvent(o)
  PROVE  CInv'
<1> DEFINE old == command[o]
           q == [command[o] EXCEPT !.stage = "marking"]
<1>1. /\ old \in CommandState /\ command \in [Operator -> CommandState]
      /\ Sound(o, old, lock, store.version, ~raced.registry, committed)
      /\ old.stage = "appending" /\ raced.registry \in BOOLEAN
  BY OwnFacts DEF AppendEvent
<1>2. command' = [command EXCEPT ![o] = q]
  BY <1>1 DEF AppendEvent, To
<1>3. /\ q \in CommandState
      /\ q.stage = "marking" /\ q.attached = old.attached
      /\ q.command = old.command /\ q.version = old.version
      /\ q.wrote = old.wrote
  BY <1>1 DEF CommandState, Stage
<1> HIDE DEF q
<1>4. UNCHANGED <<store, keys, lock, runtimes, committed>>
  BY DEF AppendEvent
<1>5. Data' /\ Installed' /\ raced'.registry = raced.registry
  BY <1>4, AppendLineData DEF AppendEvent
<1>6. /\ Staging(q) /\ q.wrote = 0
      /\ q.stage \notin Locked \cup {"waiting", "discovering"}
      /\ q.stage \in Threaded /\ old.stage \notin Locked
  BY <1>1, <1>3 DEF Sound, Staging, Named, Locked, Threaded
<1> QED
  BY <1>1, <1>2, <1>3, <1>4, <1>5, <1>6, OutsideKeeps

(* A runtime gets other channels or credentials, and stays compiled from   *)
(* its document.                                                           *)
LEMMA RuntimeKeeps ==
  ASSUME CInv, NEW g, NEW new,
         g \in DOMAIN runtimes =>
           /\ new \in Runtime
           /\ new.version = runtimes[g].version
           /\ new.document = runtimes[g].document,
         runtimes' = [runtimes EXCEPT ![g] = new],
         UNCHANGED <<store, keys, eventLog, committed, raced>>
  PROVE  Data' /\ Installed'
<1>1. /\ runtimes \in Seq(Runtime)
      /\ DOMAIN runtimes = 1..Len(runtimes)
      /\ Len(runtimes) \in Nat
      /\ runtimes \in [1..Len(runtimes) -> Runtime]
  BY LenProperties DEF CInv, Data
<1>2. /\ DOMAIN runtimes' = DOMAIN runtimes
      /\ \A h \in DOMAIN runtimes :
           runtimes'[h] = IF h = g THEN new ELSE runtimes[h]
  BY <1>1
<1>3. runtimes' \in [1..Len(runtimes) -> Runtime]
  BY <1>1
<1>4. runtimes' \in Seq(Runtime)
  BY <1>1, <1>3, SeqDef
<1>5. Data'
  BY <1>4 DEF CInv, Data
<1>6. Installed'
  BY <1>2 DEF CInv, Installed
<1> QED
  BY <1>5, <1>6

(* A channel command marks the pool it found, which may be an old one.     *)
LEMMA MarkKeeps ==
  ASSUME CInv, NEW o \in Operator, Mark(o)
  PROVE  CInv'
<1> DEFINE old == command[o]
           g == command[o].runtime
           c == command[o].command.channel
           disabled == IF Kind(o) = "disable" THEN runtimes[g].disabled \cup {c}
                       ELSE runtimes[g].disabled \ {c}
           new == [runtimes[g] EXCEPT !.disabled = disabled]
<1>1. /\ old \in CommandState
      /\ Sound(o, old, lock, store.version, ~raced.registry, committed)
      /\ old.stage = "marking" /\ raced.registry \in BOOLEAN
  BY OwnFacts DEF Mark
<1>2. old.command.kind \in ChannelCommand
  BY <1>1 DEF Sound, Staging
<1>3. c \in Channel
  <2>1. old.command \in Command
    BY <1>1, <1>2 DEF CommandState, NoCommand, ChannelCommand
  <2> QED
    BY <1>2, <2>1, CommandKinds
<1>4. runtimes' = [runtimes EXCEPT ![g] = new]
  BY DEF Mark
<1>5. UNCHANGED <<store, keys, eventLog, lock, crashes, committed, raced>>
  BY DEF Mark
<1>6. ASSUME g \in DOMAIN runtimes
      PROVE  /\ new \in Runtime
             /\ new.version = runtimes[g].version
             /\ new.document = runtimes[g].document
  <2>1. runtimes[g] \in Runtime
    BY <1>6, ElementOfSeq, LenProperties DEF CInv, Data
  <2>2. disabled \in SUBSET Channel
    BY <1>3, <2>1 DEF Runtime
  <2> HIDE DEF disabled
  <2> QED
    BY <2>1, <2>2 DEF Runtime
<1> HIDE DEF new
<1>7. Data' /\ Installed'
  BY <1>4, <1>5, <1>6, RuntimeKeeps
<1>8. lock' = Released(o)
  BY <1>1, <1>5, LockElsewhere DEF Released, Locked
<1> QED
  BY <1>1, <1>5, <1>7, <1>8, EndKeeps DEF Mark

(* An import stores what it accepts.                                       *)
LEMMA PersistKeeps ==
  ASSUME CInv, NEW o \in Operator, Persist(o)
  PROVE  CInv'
<1> DEFINE old == command[o]
           q == [command[o] EXCEPT !.keys = Accepted(o), !.stage = "adding"]
<1>1. /\ old \in CommandState /\ command \in [Operator -> CommandState]
      /\ Sound(o, old, lock, store.version, ~raced.registry, committed)
      /\ old.stage = "persisting" /\ raced.registry \in BOOLEAN
  BY OwnFacts DEF Persist
<1>2. old.command.kind = "import"
  BY <1>1 DEF Sound, Staging
<1>3. Accepted(o) \in SUBSET Key
  <2>1. old.command \in Command
    BY <1>1, <1>2 DEF CommandState, NoCommand
  <2>2. old.command.keys \subseteq Key
    BY <1>2, <2>1, CommandKinds
  <2> QED
    BY <2>2 DEF Accepted
<1>4. UNCHANGED <<store, eventLog, lock, runtimes, crashes, committed, raced>>
  BY DEF Persist
<1>5. Data' /\ Installed'
  BY <1>3, <1>4 DEF Persist, CInv, Data, Installed
<1>6. CASE command' = Ended(o, "Ok")
  <2>1. lock' = Released(o)
    BY <1>1, <1>4, LockElsewhere DEF Released, Locked
  <2> QED
    BY <1>1, <1>4, <1>5, <1>6, <2>1, EndKeeps
<1>7. CASE /\ old.attached
           /\ command' = [command EXCEPT ![o].keys = Accepted(o),
                                         ![o].stage = "adding"]
  <2>1. command' = [command EXCEPT ![o] = q]
    BY <1>1, <1>7
  <2>2. /\ q \in CommandState
        /\ q.stage = "adding" /\ q.attached = old.attached
        /\ q.command = old.command /\ q.version = old.version
        /\ q.wrote = old.wrote
    BY <1>1, <1>3 DEF CommandState, Stage
  <2> HIDE DEF q
  <2>3. /\ Staging(q) /\ q.wrote = 0
        /\ q.stage \notin Locked \cup {"waiting", "discovering"}
        /\ old.stage \notin Locked
    BY <1>1, <1>2, <2>2 DEF Sound, Staging, Named, Locked
  <2> QED
    BY <1>1, <1>4, <1>5, <1>7, <2>1, <2>2, <2>3, OutsideKeeps
<1> QED
  BY <1>6, <1>7, Zenon DEF Persist

(* An import adds to the pool it found, which may be an old one.           *)
LEMMA AddKeeps ==
  ASSUME CInv, NEW o \in Operator, Add(o)
  PROVE  CInv'
<1> DEFINE old == command[o]
           g == command[o].runtime
           new == [runtimes[g] EXCEPT !.keys = @ \cup command[o].keys]
<1>1. /\ old \in CommandState
      /\ old.stage = "adding" /\ raced.registry \in BOOLEAN
  BY OwnFacts DEF Add
<1>2. runtimes' = [runtimes EXCEPT ![g] = new]
  BY DEF Add
<1>3. UNCHANGED <<store, keys, eventLog, lock, crashes, committed, raced>>
  BY DEF Add
<1>4. ASSUME g \in DOMAIN runtimes
      PROVE  /\ new \in Runtime
             /\ new.version = runtimes[g].version
             /\ new.document = runtimes[g].document
  <2>1. runtimes[g] \in Runtime
    BY <1>4, ElementOfSeq, LenProperties DEF CInv, Data
  <2> QED
    BY <1>1, <2>1 DEF Runtime, CommandState
<1> HIDE DEF new
<1>5. Data' /\ Installed'
  BY <1>2, <1>3, <1>4, RuntimeKeeps
<1>6. lock' = Released(o)
  BY <1>1, <1>3, LockElsewhere DEF Released, Locked
<1> QED
  BY <1>1, <1>3, <1>5, <1>6, EndKeeps DEF Add

(* A command that fails ends.                                              *)
LEMMA FailKeeps ==
  ASSUME CInv, NEW o \in Operator, Fail(o)
  PROVE  CInv'
<1>1. Untouched /\ UNCHANGED <<raced, store, committed>>
  BY DEF Fail, Untouched
<1>2. Data' /\ Installed'
  BY <1>1, OwnFacts, UntouchedData
<1>3. command[o].stage # "idle"
  BY DEF Fail
<1> QED
  BY <1>1, <1>2, <1>3, EndKeeps DEF Fail, End

(* So does one whose append fails, whatever it left in the log.            *)
LEMMA FailAppendKeeps ==
  ASSUME CInv, NEW o \in Operator, FailAppend(o)
  PROVE  CInv'
<1>1. /\ command[o].stage # "idle" /\ End(o, "Failed")
      /\ UNCHANGED <<store, keys, runtimes, committed>>
  BY DEF FailAppend
<1>2. Data' /\ Installed' /\ raced'.registry = raced.registry
  <2>1. CASE UNCHANGED <<eventLog, raced>>
    BY <1>1, <2>1, OwnFacts, UntouchedData DEF Untouched
  <2>2. ASSUME NEW extent \in Fragment, AppendLine(PendingEvent(o), extent)
        PROVE  Data' /\ Installed' /\ raced'.registry = raced.registry
    BY <1>1, <2>2, AppendLineData
  <2> QED
    BY <2>1, <2>2 DEF FailAppend
<1> QED
  BY <1>1, <1>2, EndKeeps DEF End

(* A handler that is dropped gives up the lock.  If its write goes on, it  *)
(* is remembered as one that outlives its handler.                         *)
LEMMA DisconnectKeeps ==
  ASSUME CInv, NEW o \in Operator, Disconnect(o)
  PROVE  CInv'
<1> DEFINE old == command[o]
           q == [command[o] EXCEPT
                   !.attached = FALSE,
                   !.stage = IF OnThread(o) THEN @ ELSE "lost"]
<1>1. /\ old \in CommandState /\ command \in [Operator -> CommandState]
      /\ Sound(o, old, lock, store.version, ~raced.registry, committed)
      /\ raced.registry \in BOOLEAN
  BY OwnFacts
<1>2. command' = [command EXCEPT ![o] = q]
  BY <1>1 DEF Disconnect
<1>3. /\ q \in CommandState
      /\ q.stage = IF OnThread(o) THEN old.stage ELSE "lost"
      /\ q.attached = FALSE
      /\ q.command = old.command /\ q.version = old.version
      /\ q.wrote = old.wrote /\ q.audited = old.audited
      /\ q.document = old.document
  BY <1>1 DEF CommandState, Stage
<1> HIDE DEF q
<1>4. /\ Untouched /\ UNCHANGED <<store, committed>>
      /\ lock' = Released(o)
      /\ raced'.registry = (raced.registry \/ old.stage = "applying")
  BY DEF Disconnect, Untouched
<1>5. raced'.registry \in BOOLEAN /\ (raced.registry => raced'.registry)
  BY <1>1, <1>4
<1>6. Data' /\ Installed'
  BY <1>4, <1>5, UntouchedData
<1>7. Moves(o)
  BY <1>4, <1>5, NobodyFree DEF Moves, Released
<1>8. lock' \in {lock, "free", o} /\ lock' # o
  BY <1>4, NobodyFree DEF Released
<1>9. q.stage \in {"lost"} \cup Threaded
  BY <1>3 DEF OnThread, Threaded
<1>10. q.stage = "applying" => old.stage = "applying" /\ raced'.registry
  BY <1>3, <1>4
<1>11. Sound(o, q, lock', store'.version, ~raced'.registry, committed')
  <2>1. Staging(q)
    BY <1>1, <1>3 DEF Sound, Staging
  <2>2. Exclusive(o, q, lock', ~raced'.registry)
    BY <1>3, <1>9, <1>10 DEF Exclusive, Critical
  <2>3. ~Critical(o, q, lock')
    BY <1>3 DEF Critical
  <2>4. Current(o, q, lock', store'.version, ~raced'.registry)
    BY <1>1, <1>3, <1>4, <2>3 DEF Sound, Current
  <2>5. Compiled(q, ~raced'.registry, committed')
    <3>1. q.stage \notin {"resolving", "rebuilding", "installing"}
      BY <1>9 DEF Threaded
    <3>2. q.stage = "auditing" => old.stage = "auditing"
      BY <1>3
    <3> QED
      BY <1>1, <1>3, <1>4, <1>5, <3>1, <3>2 DEF Sound, Compiled
  <2>6. Fresh(o, q, lock', store'.version, committed')
    <3>1. q.stage \notin {"discovering", "waiting", "checking", "loading"}
      BY <1>9 DEF Threaded
    <3> QED
      BY <1>1, <1>3, <1>4, <1>10, <3>1 DEF Sound, Fresh
  <2>7. Named(q, ~raced'.registry)
    <3>1. q.wrote # 0 => q.stage \in {"done", "lost"}
      BY <1>1, <1>3 DEF Sound, Named, Disconnect, UnderWay
    <3> QED
      BY <1>1, <1>3, <1>4, <1>5, <1>10, <3>1 DEF Sound, Named
  <2> QED
    BY <2>1, <2>2, <2>4, <2>5, <2>6, <2>7 DEF Sound
<1> QED
  BY <1>2, <1>3, <1>6, <1>7, <1>8, <1>11, StepKeeps

(* A crash ends all commands, and all runtimes.                            *)
LEMMA CrashKeeps ==
  ASSUME CInv, Crash
  PROVE  CInv'
<1>1. /\ UNCHANGED <<store, keys, committed>>
      /\ lock' = "free" /\ runtimes' = <<>>
      /\ command' = [o \in Operator |->
                       IF UnderWay(o) THEN [command[o] EXCEPT !.stage = "lost"]
                       ELSE command[o]]
  BY DEF Crash
<1>2. raced'.registry = raced.registry
  BY DEF Crash, NothingRaced
<1>3. <<>> \in Seq(Runtime) /\ DOMAIN <<>> = {}
  BY EmptySeq
<1>4. Data'
  <2>1. eventLog \in Log /\ command \in [Operator -> CommandState]
    BY DEF CInv, Data
  <2>2. eventLog' \in Log
    BY <2>1, PendingIsTyped, ExtendedIsLog DEF Crash
  <2> QED
    BY <1>1, <1>2, <1>3, <2>2 DEF CInv, Data
<1>5. Installed'
  BY <1>1, <1>3 DEF Installed
<1>6. Holder'
  BY <1>1 DEF Holder
<1>7. ASSUME NEW o \in Operator
      PROVE  /\ command'[o] \in CommandState
             /\ Sound(o, command'[o], lock', store'.version, ~raced'.registry,
                      committed')
  <2> DEFINE old == command[o]
             q == IF UnderWay(o) THEN [command[o] EXCEPT !.stage = "lost"]
                  ELSE command[o]
  <2>1. /\ old \in CommandState
        /\ Sound(o, old, lock, store.version, ~raced.registry, committed)
    BY OwnFacts
  <2>2. command'[o] = q
    BY <1>1
  <2>3. /\ q \in CommandState
        /\ q.stage = IF UnderWay(o) THEN "lost" ELSE old.stage
        /\ q.command = old.command /\ q.attached = old.attached
        /\ q.version = old.version /\ q.wrote = old.wrote
        /\ q.audited = old.audited
    BY <2>1 DEF CommandState, Stage
  <2> HIDE DEF q
  <2>4. q.stage \in {"idle", "done", "lost"}
    BY <2>3 DEF UnderWay
  <2>5. Staging(q)
    BY <2>4 DEF Staging
  <2>6. ~Critical(o, q, lock')
    BY <2>4 DEF Critical, Locked
  <2>7. Exclusive(o, q, lock', ~raced'.registry)
    BY <2>1, <2>3, <2>4, <2>6 DEF Sound, Exclusive, Threaded
  <2>8. Current(o, q, lock', store'.version, ~raced'.registry)
    BY <1>1, <2>1, <2>3, <2>6 DEF Sound, Current
  <2>9. /\ Compiled(q, ~raced'.registry, committed')
        /\ Fresh(o, q, lock', store'.version, committed')
    BY <2>4 DEF Compiled, Fresh
  <2>10. Named(q, ~raced'.registry)
    BY <1>2, <2>1, <2>3, <2>4 DEF Sound, Named
  <2>11. Sound(o, q, lock', store'.version, ~raced'.registry, committed')
    BY <2>5, <2>7, <2>8, <2>9, <2>10 DEF Sound
  <2> QED
    BY <2>2, <2>3, <2>11
<1>8. command' \in [Operator -> CommandState]
  BY <1>1, <1>7
<1> QED
  BY <1>4, <1>5, <1>6, <1>7, <1>8 DEF CInv

(* A start installs the present document.                                  *)
LEMMA StartKeeps ==
  ASSUME CInv, Start
  PROVE  CInv'
<1> DEFINE new == [version |-> store.version, document |-> store.document,
                   disabled |-> Logged(Replayed, "disabled"), keys |-> keys]
<1>1. /\ runtimes' = <<new>>
      /\ UNCHANGED <<store, keys, eventLog, lock, command, committed, raced>>
  BY DEF Start
<1>2. /\ store.version \in Nat /\ store.version >= 1
      /\ store.document \in Document /\ keys \subseteq Key
      /\ committed[store.version] = store.document
  BY DEF CInv, Data
<1>3. new \in Runtime /\ new.version = store.version /\ new.document = store.document
  BY <1>2 DEF Runtime, Logged
<1> HIDE DEF new
<1>4. runtimes' \in Seq(Runtime) /\ DOMAIN runtimes' = {1} /\ runtimes'[1] = new
  BY <1>1, <1>3
<1>5. Data'
  BY <1>1, <1>4 DEF CInv, Data
<1>6. Installed'
  BY <1>1, <1>2, <1>3, <1>4 DEF Installed
<1>7. Holder'
  BY <1>1 DEF CInv, Holder, Kind
<1> QED
  BY <1>1, <1>5, <1>6, <1>7 DEF CInv

-----------------------------------------------------------------------------
(* Every step keeps the invariant.                                         *)
LEMMA NextKeeps ==
  ASSUME CInv, [Next]_vars
  PROVE  CInv'
<1>1. ASSUME NEW o \in Operator, Step(o)
      PROVE  CInv'
  BY <1>1, SubmitKeeps, ObserveKeeps, LockKeeps, CheckKeeps, LoadKeeps,
     DiscoverKeeps, ResolveKeeps, AuditKeeps, ApplyKeeps, RebuildKeeps,
     InstallKeeps, GateKeeps, AppendEventKeeps, MarkKeeps, PersistKeeps,
     AddKeeps, FailKeeps, FailAppendKeeps, DisconnectKeeps
     DEF Step
<1>2. CASE UNCHANGED vars
  BY <1>2 DEF vars, CInv, Data, Holder, Installed, Kind
<1> QED
  BY <1>1, <1>2, StartKeeps, CrashKeeps DEF Next

(* Initially nobody does anything.                                         *)
LEMMA InitCInv == Init => CInv
<1> SUFFICES ASSUME Init PROVE CInv
  OBVIOUS
<1>1. Bootstrapped \in Document
  BY DEF Bootstrapped, Document
<1>2. Quiet \in CommandState
  BY <1>1 DEF Quiet, CommandState, Stage, Event
<1>3. EmptyLog \in Log
  BY DEF EmptyLog, Log, Silent, Event
<1>4. /\ committed = <<Bootstrapped>>
      /\ store.version = 1 /\ store.document = Bootstrapped
      /\ store \in [version : Nat, document : Document]
      /\ keys = {} /\ eventLog \in Log
      /\ runtimes = <<>> /\ raced.registry = FALSE /\ lock = "free"
      /\ command = [o \in Operator |-> Quiet]
  BY <1>1, <1>3 DEF Init, NothingRaced
<1>5. /\ <<Bootstrapped>> \in Seq(Document)
      /\ Len(<<Bootstrapped>>) = 1 /\ <<Bootstrapped>>[1] = Bootstrapped
  BY <1>1
<1>6. <<>> \in Seq(Runtime) /\ DOMAIN <<>> = {}
  BY EmptySeq
<1>7. Data
  <2>1. /\ committed \in Seq(Document) /\ Len(committed) = 1
        /\ committed[1] = Bootstrapped
    BY <1>4, <1>5
  <2>2. runtimes \in Seq(Runtime)
    BY <1>4, <1>6
  <2>3. raced.registry \in BOOLEAN
    BY <1>4, Zenon
  <2>4. keys \subseteq Key
    BY <1>4
  <2>5. /\ Len(committed) = store.version /\ store.version >= 1
        /\ committed[store.version] = store.document
    BY <1>4, <2>1
  <2> QED
    BY <1>4, <2>1, <2>2, <2>3, <2>4, <2>5, Zenon DEF Data
<1>8. Holder /\ Installed
  BY <1>4, <1>6 DEF Holder, Installed
<1>9. ASSUME NEW o \in Operator
      PROVE  Sound(o, Quiet, "free", 1, TRUE, committed)
  <2>1. /\ Quiet.stage = "idle" /\ Quiet.attached = TRUE
        /\ Quiet.version = 0 /\ Quiet.wrote = 0
        /\ Quiet.command.kind = "none"
    BY DEF Quiet, NoCommand
  <2>2. "none" \notin Staged
    BY DEF Staged, Batch
  <2> QED
    BY <2>1, <2>2 DEF Sound, Staging, Exclusive, Critical, Current, Compiled,
                      Named, Fresh
<1>10. \A o \in Operator :
        Sound(o, command[o], lock, store.version, ~raced.registry, committed)
  BY <1>4, <1>9
<1> QED
  BY <1>2, <1>4, <1>7, <1>8, <1>10 DEF CInv

(* The invariant of every behaviour.                                       *)
LEMMA Controlled == Spec => []CInv
<1>1. CInv /\ [Next]_vars => CInv'
  BY NextKeeps
<1> QED
  BY <1>1, InitCInv, PTL DEF Spec

(* As long as no registry write outlives its handler, every runtime has    *)
(* the document of its version and every write got the version its audit   *)
(* event names (apply_runtime_reload, apply_audited_staged_registry_mutation *)
(* of src/management_registry.rs and src/management_runtime.rs).           *)
THEOREM VersionsHold == Spec => []VersionsAgree
<1>1. CInv => VersionsAgree
  <2> SUFFICES ASSUME CInv, ~raced.registry
               PROVE  RuntimeHasItsVersion /\ AuditNamesVersion
    BY DEF VersionsAgree
  <2>1. RuntimeHasItsVersion
    BY DEF CInv, Installed, RuntimeHasItsVersion
  <2>2. AuditNamesVersion
    BY DEF CInv, Sound, Named, AuditNamesVersion
  <2> QED
    BY <2>1, <2>2
<1> QED
  BY <1>1, Controlled, PTL

-----------------------------------------------------------------------------
(* Nothing but a write of a command sets the version it wrote.             *)
LEMMA OnlyApplyWrites ==
  ASSUME CInv, [Next]_vars, NEW o \in Operator,
         command'[o].wrote # command[o].wrote
  PROVE  Apply(o) /\ ~End(o, "Conflict")
<1>1. command \in [Operator -> CommandState]
  BY DEF CInv
<1>2. \A p \in Operator : \A outcome :
        command' = Ended(p, outcome) => command'[o].wrote = command[o].wrote
  BY <1>1 DEF Ended, CommandState
<1>3. \A p \in Operator : \A stage :
        To(p, stage) => command'[o].wrote = command[o].wrote
  BY <1>1 DEF To, CommandState
<1>4. ASSUME NEW p \in Operator, Step(p)
      PROVE  Apply(p)
  <2>1. CASE Submit(p)
    BY <1>1, <2>1 DEF Submit, CommandState
  <2>2. CASE Observe(p) \/ Resolve(p) \/ Audit(p) \/ Rebuild(p) \/ Disconnect(p)
    BY <1>1, <2>2 DEF Observe, Resolve, Audit, Rebuild, Disconnect, CommandState
  <2>3. CASE Lock(p) \/ Gate(p) \/ AppendEvent(p)
    BY <1>3, <2>3 DEF Lock, Gate, AppendEvent
  <2>4. CASE Check(p)
    <3>1. \/ command' = [command EXCEPT ![p].version = store.version,
                                        ![p].stage = "auditing"]
          \/ End(p, "Conflict")
          \/ To(p, "loading")
      BY <2>4, Zenon DEF Check
    <3> QED
      BY <1>1, <1>2, <1>3, <3>1 DEF End, CommandState
  <2>5. CASE Load(p)
    <3>1. \/ command' = [command EXCEPT ![p].document = store.document,
               ![p].stage = IF Kind(p) = "sync" THEN "discovering"
                            ELSE "resolving"]
          \/ End(p, "Conflict")
          \/ To(p, "auditing")
      BY <2>5, Zenon DEF Load
    <3> QED
      BY <1>1, <1>2, <1>3, <3>1 DEF End, CommandState
  <2>6. CASE Discover(p)
    BY <1>2, <1>3, <2>6 DEF Discover, End
  <2>7. CASE Install(p) \/ Mark(p) \/ Add(p) \/ Fail(p) \/ FailAppend(p)
    BY <1>2, <2>7 DEF Install, Mark, Add, Fail, FailAppend, End
  <2>8. CASE Persist(p)
    BY <1>1, <1>2, <2>8 DEF Persist, CommandState
  <2> QED
    BY <1>4, <2>1, <2>2, <2>3, <2>4, <2>5, <2>6, <2>7, <2>8 DEF Step
<1>5. ~Start /\ ~UNCHANGED vars
  BY DEF Start, vars
<1>6. ~Crash
  <2> SUFFICES ASSUME Crash PROVE FALSE
    OBVIOUS
  <2>1. command'[o] = IF UnderWay(o) THEN [command[o] EXCEPT !.stage = "lost"]
                      ELSE command[o]
    BY DEF Crash
  <2> QED
    BY <1>1, <2>1 DEF CommandState
<1>7. PICK p \in Operator : Apply(p)
  BY <1>4, <1>5, <1>6 DEF Next
<1>8. ~End(p, "Conflict")
  BY <1>2 DEF End
<1>9. p = o
  <2>1. command' = [Ended(p, "Ok") EXCEPT ![p].wrote = store.version + 1]
    BY <1>7, <1>8, Zenon DEF Apply
  <2>2. p # o => command'[o].wrote = command[o].wrote
    BY <1>1, <2>1 DEF Ended, CommandState
  <2> QED
    BY <2>2
<1> QED
  BY <1>7, <1>8, <1>9

(* A synchronisation writes a route that still has every target, although  *)
(* it computed it from a document read before it had the lock, and         *)
(* although other writes may outlive their handlers (UpsertBatch with      *)
(* expected_registry_version in src/registry_store.rs).                    *)
THEOREM SynchronisationKeepsRoutes == Spec => SyncKeepsRoutes
<1>1. ASSUME CInv, [Next]_vars, NEW o \in Operator, Kind(o) = "sync",
             command'[o].wrote # command[o].wrote, NEW m \in Model
      PROVE  store.document.routes[m] \subseteq store'.document.routes[m]
  <2> DEFINE c == command[o].command
  <2>1. Apply(o) /\ ~End(o, "Conflict")
    BY <1>1, OnlyApplyWrites
  <2>2. Acceptable(o) /\ store' = [version |-> store.version + 1,
                                   document |-> Written(o)]
    BY <2>1, Zenon DEF Apply
  <2>3. Kind(o) \in Batch
    BY <1>1 DEF Batch
  <2>4. command[o].version = store.version
    BY <2>2, <2>3 DEF Acceptable
  <2>5. command[o].document = store.document
    BY <1>1, <2>1, <2>4, OwnFacts DEF Sound, Fresh, Kind, Apply
  <2>6. RouteOf(o) = store.document.routes[c.model] \cup {c.channel}
    BY <1>1, <2>5 DEF RouteOf, Kind
  <2>7. store'.document
          = [store.document EXCEPT !.routes[c.model] = RouteOf(o)]
    BY <2>2, <2>3 DEF Written
  <2>8. store.document \in Document
    BY <1>1, OwnFacts
  <2> QED
    BY <2>6, <2>7, <2>8 DEF Document
<1>2. CInv /\ [Next]_vars =>
        [\A o \in Operator :
           Kind(o) = "sync" /\ command'[o].wrote # command[o].wrote =>
             \A m \in Model :
               store.document.routes[m] \subseteq store'.document.routes[m]]_vars
  BY <1>1
<1> QED
  BY <1>2, Controlled, PTL DEF Spec, SyncKeepsRoutes
-----------------------------------------------------------------------------
(* What runtimes serve.                                                    *)

Busy(q) == q.stage \notin {"idle", "done", "lost"}

Pooled == ChannelCommand \cup {"import"}

(* Command q disables or enables channel c.                                *)
Switching(q, c) ==
  Busy(q) /\ q.command.kind \in ChannelCommand /\ q.command.channel = c

Importing(q) == Busy(q) /\ q.command.kind = "import"

EventOf(q) == IF q.command.kind = "disable" THEN "disabled" ELSE "enabled"

(* No command is under way in a process that is down.                      *)
Resting == Up \/ \A o \in Operator : ~Busy(command[o])

(* The pool a command found was installed.                                 *)
Found ==
  \A o \in Operator :
    Busy(command[o]) /\ command[o].command.kind \in Pooled =>
      command[o].runtime \in 1..Serving

(* One command at a time is past the gate of a channel of a pool.          *)
Gated ==
  \A o \in Operator, p \in Operator, c \in Channel :
    /\ o # p
    /\ Switching(command[o], c) /\ command[o].attached
    /\ Switching(command[p], c) /\ command[p].attached
    /\ {command[o].stage, command[p].stage} \subseteq {"appending", "marking"}
    => command[o].runtime # command[p].runtime

(* Commands on a channel that nothing raced with work on the pool that     *)
(* serves, and mark what a replay of the log tells, if one is possible,    *)
InTime(c) ==
  \A p \in Operator :
    Switching(command[p], c) =>
      /\ command[p].attached /\ command[p].runtime = Serving
      /\ command[p].stage = "marking" /\ ~eventLog.fatal =>
           Replayed[c] = EventOf(command[p])

(* ... with which the pool agrees, or will once it is marked.              *)
Agrees(c) ==
  \/ eventLog.fatal
  \/ c \in runtimes[Serving].disabled <=> Replayed[c] = "disabled"
  \/ \E p \in Operator :
       Switching(command[p], c) /\ command[p].stage = "marking"

Switched ==
  Up => \A c \in Channel \ raced.channels : InTime(c) /\ Agrees(c)

(* Imports that nothing raced with work on the pool that serves, which has *)
(* what is stored but for what they have stored and not added yet.  Before *)
(* they store anything they may lose their handler.                        *)
OnPool(q) ==
  Importing(q) => /\ q.attached \/ q.stage = "auditing"
                  /\ q.runtime = Serving
                  /\ q.stage = "adding" => q.keys \subseteq keys

Imported ==
  Up /\ ~raced.keys =>
    /\ \A p \in Operator : OnPool(command[p])
    /\ runtimes[Serving].keys \subseteq keys
    /\ \A k \in keys \ runtimes[Serving].keys :
         \E p \in Operator : /\ Importing(command[p])
                             /\ command[p].stage = "adding"
                             /\ k \in command[p].keys

PInv ==
  /\ raced \in [registry : BOOLEAN, channels : SUBSET Channel, keys : BOOLEAN]
  /\ Resting
  /\ Found
  /\ Gated
  /\ Switched
  /\ Imported

(* What the pool that serves is, and how many runtimes there are.          *)
LEMMA ServingPool ==
  ASSUME CInv
  PROVE  /\ Serving \in Nat /\ DOMAIN runtimes = 1..Serving
         /\ Up <=> Serving >= 1
         /\ Up => /\ Serving \in DOMAIN runtimes
                  /\ runtimes[Serving] \in Runtime
         /\ command \in [Operator -> CommandState]
         /\ keys \subseteq Key /\ eventLog \in Log
         /\ Replayed \in [Channel -> Event]
<1>1. runtimes \in Seq(Runtime)
  BY DEF CInv, Data
<1>2. Serving \in Nat /\ DOMAIN runtimes = 1..Serving
  BY <1>1, LenProperties DEF Serving
<1>3. Up <=> Serving >= 1
  BY <1>1, <1>2, EmptySeq DEF Up, Serving
<1>4. \A g \in 1..Serving : runtimes[g] \in Runtime
  BY <1>1, ElementOfSeq DEF Serving
<1> QED
  BY <1>2, <1>3, <1>4, ReplayedIsTyped DEF CInv, Data

(* What a replay tells of a channel stays what the commands on it were     *)
(* answered, as far as raced does not name the channel.                    *)
LEMMA ReplayedAfter ==
  ASSUME eventLog \in Log, NEW event \in [of : SUBSET Channel, says : Event],
         NEW extent, eventLog' = Extended(event, extent), ~eventLog'.fatal,
         NEW c \in Channel \ Misreported(event, extent)
  PROVE  /\ ~eventLog.fatal
         /\ Replayed'[c] = IF extent = "all" /\ c \in event.of THEN event.says
                           ELSE Replayed[c]
<1> DEFINE begun == eventLog.line = "begun"
<1>1. ~eventLog.fatal /\ eventLog.line # "spoilt"
  BY DEF Extended, Unreadable, EmptyLog
<1>2. /\ eventLog'.said = IF extent = "all" /\ ~begun
                          THEN Overlaid(eventLog.said, event) ELSE eventLog.said
      /\ eventLog'.last = IF extent = "whole" /\ ~begun THEN event ELSE Silent
  BY DEF Extended, Unreadable, EmptyLog
<1>3. /\ c \notin eventLog.last.of
      /\ (extent = "all" /\ begun) \/ (extent = "whole" /\ ~begun) =>
           c \notin event.of
  BY DEF Misreported
<1>4. Replayed[c] = eventLog.said[c]
  BY <1>3 DEF Replayed, Overlaid
<1>5. c \notin eventLog'.last.of
  BY <1>2, <1>3 DEF Silent
<1>6. Replayed'[c] = eventLog'.said[c]
  BY <1>5 DEF Replayed, Overlaid
<1>7. CASE extent = "all" /\ ~begun
  BY <1>1, <1>2, <1>4, <1>6, <1>7 DEF Overlaid
<1>8. CASE ~(extent = "all" /\ ~begun)
  BY <1>1, <1>2, <1>3, <1>4, <1>6, <1>8
<1> QED
  BY <1>7, <1>8

(* What an append may do to the history of what raced.                     *)
LEMMA RacedAfter ==
  ASSUME CInv, PInv, NEW o \in Operator, NEW extent,
         AppendLine(PendingEvent(o), extent)
  PROVE  /\ raced' \in [registry : BOOLEAN, channels : SUBSET Channel,
                         keys : BOOLEAN]
         /\ raced'.keys = raced.keys
         /\ raced'.channels = raced.channels
                                 \cup Misreported(PendingEvent(o), extent)
<1> DEFINE more == Misreported(PendingEvent(o), extent)
<1>1. PendingEvent(o).of \subseteq Channel
  BY PendingIsTyped DEF CInv
<1>2. more \in SUBSET Channel
  BY <1>1 DEF Misreported, CInv, Data, Log
<1>3. raced' = [raced EXCEPT !.channels = @ \cup more]
  BY DEF AppendLine
<1> HIDE DEF more
<1>4. raced \in [registry : BOOLEAN, channels : SUBSET Channel, keys : BOOLEAN]
  BY DEF PInv
<1>5. raced' \in [registry : BOOLEAN, channels : SUBSET Channel, keys : BOOLEAN]
      /\ raced'.keys = raced.keys /\ raced'.channels = raced.channels \cup more
  BY <1>2, <1>3, <1>4
<1> QED
  BY <1>5 DEF more

(* What PInv says of a command on a channel that nothing raced with.       *)
LEMMA SwitchingInTime ==
  ASSUME CInv, PInv, NEW o \in Operator, NEW c \in Channel \ raced.channels,
         Switching(command[o], c)
  PROVE  /\ Up /\ InTime(c) /\ Agrees(c)
         /\ command[o].attached /\ command[o].runtime = Serving
<1>1. Up
  BY DEF PInv, Resting, Switching
<1> QED
  BY <1>1 DEF PInv, Switched, InTime

(* A step that changes nothing in what a replay tells of the channels that *)
(* raced does not name.                                                    *)
Unsaid ==
  /\ raced' \in [registry : BOOLEAN, channels : SUBSET Channel, keys : BOOLEAN]
  /\ raced'.keys = raced.keys
  /\ raced.channels \subseteq raced'.channels
  /\ \A c \in Channel \ raced'.channels :
       ~eventLog'.fatal => ~eventLog.fatal /\ Replayed'[c] = Replayed[c]

(* A step of o that moves its command outside gates and imports, or ends   *)
(* it, and leaves pools and stores alone.                                  *)
Calm(o) ==
  /\ UNCHANGED <<runtimes, keys>>
  /\ \A p \in Operator \ {o} : command'[p] = command[p]
  /\ command'[o].command = command[o].command
  /\ command'[o].attached = command[o].attached
  /\ command'[o].runtime = command[o].runtime
  /\ Busy(command[o])
  /\ command[o].stage \notin {"marking", "adding"}
  /\ command'[o].stage \notin {"appending", "marking", "adding"}
  /\ command[o].attached \/ command[o].stage # "auditing" \/ ~Busy(command'[o])

(* Such a step leaves what runtimes serve as it was.                       *)
LEMMA CalmKeeps ==
  ASSUME CInv, PInv, NEW o \in Operator, Calm(o), Unsaid
  PROVE  PInv'
<1> DEFINE old == command[o]
           q == command'[o]
<1>1. /\ Serving' = Serving /\ Up' = Up
      /\ UNCHANGED <<runtimes, keys>> /\ raced'.keys = raced.keys
  BY DEF Calm, Serving, Up, Unsaid
<1>2. \A p \in Operator : p # o => command'[p] = command[p]
  BY DEF Calm
<1>3. /\ q.command = old.command /\ q.attached = old.attached
      /\ q.runtime = old.runtime
      /\ Busy(old) /\ old.stage \notin {"marking", "adding"}
      /\ q.stage \notin {"appending", "marking", "adding"}
  BY DEF Calm
<1>4. \A p \in Operator :
        /\ command'[p].command = command[p].command
        /\ command'[p].attached = command[p].attached
        /\ command'[p].runtime = command[p].runtime
        /\ Busy(command'[p]) => Busy(command[p])
        /\ command'[p].stage \in {"appending", "marking", "adding"} =>
             command'[p] = command[p]
        /\ command[p].stage \in {"marking", "adding"} => command'[p] = command[p]
  BY <1>2, <1>3
<1>5. Resting'
  BY <1>1, <1>4 DEF PInv, Resting
<1>6. Found'
  BY <1>1, <1>4 DEF PInv, Found
<1>7. Gated'
  BY <1>4 DEF PInv, Gated
<1>8. Switched'
  <2> SUFFICES ASSUME Up, NEW c \in Channel \ raced'.channels
               PROVE  InTime(c)' /\ Agrees(c)'
    BY <1>1 DEF Switched
  <2>1. InTime(c) /\ Agrees(c)
    BY DEF PInv, Switched, Unsaid
  <2>2. ~eventLog'.fatal => ~eventLog.fatal /\ Replayed'[c] = Replayed[c]
    BY DEF Unsaid
  <2>3. InTime(c)'
    BY <1>1, <1>4, <2>1, <2>2 DEF InTime, Switching
  <2>4. Agrees(c)'
    BY <1>1, <1>4, <2>1, <2>2 DEF Agrees
  <2> QED
    BY <2>3, <2>4
<1>9. Imported'
  <2> SUFFICES ASSUME Up, ~raced.keys
               PROVE  Imported'
    BY <1>1 DEF Imported
  <2>1. \A p \in Operator : OnPool(command[p])'
    <3>1. \A p \in Operator : OnPool(command[p])
      BY DEF PInv, Imported
    <3>2. \A p \in Operator :
            command[p].attached \/ command[p].stage # "auditing"
              \/ ~Busy(command'[p]) \/ command'[p] = command[p]
      BY <1>2 DEF Calm
    <3> QED
      BY <1>1, <1>4, <3>1, <3>2 DEF OnPool, Importing
  <2>2. /\ runtimes[Serving].keys \subseteq keys
        /\ \A k \in keys \ runtimes[Serving].keys :
             \E p \in Operator : /\ Importing(command[p])
                                 /\ command[p].stage = "adding"
                                 /\ k \in command[p].keys
    BY DEF PInv, Imported
  <2>3. \A k \in keys \ runtimes[Serving].keys :
          \E p \in Operator : /\ Importing(command'[p])
                              /\ command'[p].stage = "adding"
                              /\ k \in command'[p].keys
    BY <1>4, <2>2
  <2> QED
    BY <1>1, <2>1, <2>2, <2>3 DEF Imported
<1> QED
  BY <1>5, <1>6, <1>7, <1>8, <1>9 DEF PInv, Unsaid

(* What ends a command keeps of it.                                        *)
LEMMA EndedFields ==
  ASSUME CInv, NEW o \in Operator, NEW outcome, command' = Ended(o, outcome)
  PROVE  /\ \A p \in Operator \ {o} : command'[p] = command[p]
         /\ command'[o].command = command[o].command
         /\ command'[o].attached = command[o].attached
         /\ command'[o].runtime = command[o].runtime
         /\ command'[o].stage \in {"done", "lost"}
<1>1. command \in [Operator -> CommandState] /\ command[o] \in CommandState
  BY OwnFacts
<1> QED
  BY <1>1 DEF Ended, CommandState

(* What moves a command on keeps of it.                                    *)
LEMMA ToFields ==
  ASSUME CInv, NEW o \in Operator, NEW stage, To(o, stage)
  PROVE  /\ \A p \in Operator \ {o} : command'[p] = command[p]
         /\ command'[o].command = command[o].command
         /\ command'[o].attached = command[o].attached
         /\ command'[o].runtime = command[o].runtime
         /\ command'[o].stage = stage
<1>1. command \in [Operator -> CommandState] /\ command[o] \in CommandState
  BY OwnFacts
<1> QED
  BY <1>1 DEF To, CommandState

(* Steps of registry commands, of an import before it writes, and failures *)
(* leave pools and stores alone.                                           *)
LEMMA CalmSteps ==
  ASSUME CInv, NEW o \in Operator,
         \/ Observe(o) \/ Lock(o) \/ Check(o) \/ Load(o) \/ Discover(o)
         \/ Resolve(o) \/ Audit(o) \/ Apply(o) \/ Rebuild(o) \/ Fail(o)
         \/ FailAppend(o)
  PROVE  Calm(o)
<1>1. command \in [Operator -> CommandState] /\ command[o] \in CommandState
  BY OwnFacts
<1>2. CASE Observe(o)
  <2>1. command' = [command EXCEPT ![o].version = store.version,
              ![o].stage = IF Kind(o) = "sync" THEN "loading" ELSE "waiting"]
    BY <1>2 DEF Observe
  <2> QED
    BY <1>1, <1>2, <2>1 DEF Observe, Calm, Busy, CommandState
<1>3. CASE Lock(o)
  BY <1>3, ToFields DEF Lock, Calm, Busy
<1>4. CASE Check(o)
  <2>1. CASE command' = [command EXCEPT ![o].version = store.version,
                                        ![o].stage = "auditing"]
    BY <1>1, <1>4, <2>1 DEF Check, Calm, Busy, CommandState
  <2>2. CASE End(o, "Conflict")
    BY <1>4, <2>2, EndedFields DEF Check, End, Calm, Busy
  <2>3. CASE To(o, "loading")
    BY <1>4, <2>3, ToFields DEF Check, Calm, Busy
  <2> QED
    BY <1>4, <2>1, <2>2, <2>3, Zenon DEF Check
<1>5. CASE Load(o)
  <2>1. CASE command' = [command EXCEPT ![o].document = store.document,
               ![o].stage = IF Kind(o) = "sync" THEN "discovering"
                            ELSE "resolving"]
    BY <1>1, <1>5, <2>1 DEF Load, Calm, Busy, CommandState
  <2>2. CASE End(o, "Conflict")
    BY <1>5, <2>2, EndedFields DEF Load, End, Calm, Busy
  <2>3. CASE To(o, "auditing")
    BY <1>5, <2>3, ToFields DEF Load, Calm, Busy
  <2> QED
    BY <1>5, <2>1, <2>2, <2>3, Zenon DEF Load
<1>6. CASE Discover(o)
  <2>1. CASE End(o, "Ok")
    BY <1>6, <2>1, EndedFields DEF Discover, End, Calm, Busy
  <2>2. CASE To(o, "waiting")
    BY <1>6, <2>2, ToFields DEF Discover, Calm, Busy
  <2> QED
    BY <1>6, <2>1, <2>2, Zenon DEF Discover
<1>7. CASE Resolve(o)
  BY <1>1, <1>7 DEF Resolve, Calm, Busy, CommandState
<1>8. CASE Audit(o)
  <2> DEFINE audited == IF Kind(o) = "import" THEN command[o].audited
                        ELSE Generation(o)
             stage == NextStage(o)
  <2>1. command' = [command EXCEPT ![o].audited = audited, ![o].stage = stage]
    BY <1>8 DEF Audit
  <2>2. /\ stage \in {"lost", "rebuilding", "persisting", "applying"}
        /\ command[o].attached \/ stage = "lost"
    BY DEF NextStage
  <2> HIDE DEF audited, stage
  <2> QED
    BY <1>1, <1>8, <2>1, <2>2 DEF Audit, Calm, Busy, CommandState
<1>9. CASE Apply(o)
  <2>1. CASE command' = [Ended(o, "Ok") EXCEPT ![o].wrote = store.version + 1]
    BY <1>1, <1>9, <2>1 DEF Apply, Ended, Calm, Busy, CommandState
  <2>2. CASE End(o, "Conflict")
    BY <1>9, <2>2, EndedFields DEF Apply, End, Calm, Busy
  <2> QED
    BY <1>9, <2>1, <2>2, Zenon DEF Apply
<1>10. CASE Rebuild(o)
  BY <1>1, <1>10 DEF Rebuild, Calm, Busy, CommandState
<1>11. CASE Fail(o)
  BY <1>11, EndedFields DEF Fail, End, Calm, Busy
<1>12. CASE FailAppend(o)
  BY <1>12, EndedFields DEF FailAppend, End, Calm, Busy
<1> QED
  BY <1>2, <1>3, <1>4, <1>5, <1>6, <1>7, <1>8, <1>9, <1>10, <1>11, <1>12

(* What they append is of no channel, or not all of a line.                *)
LEMMA UnsaidSteps ==
  ASSUME CInv, PInv, NEW o \in Operator,
         \/ Observe(o) \/ Lock(o) \/ Check(o) \/ Load(o) \/ Discover(o)
         \/ Resolve(o) \/ Audit(o) \/ Apply(o) \/ Rebuild(o) \/ Fail(o)
         \/ FailAppend(o)
  PROVE  Unsaid
<1>1. CASE UNCHANGED <<eventLog, raced>>
  BY <1>1 DEF PInv, Unsaid, Replayed, Overlaid
<1>2. ASSUME NEW extent, AppendLine(PendingEvent(o), extent),
             extent = "all" => PendingEvent(o).of = {}
      PROVE  Unsaid
  <2>1. /\ eventLog \in Log
        /\ PendingEvent(o) \in [of : SUBSET Channel, says : Event]
    BY PendingIsTyped DEF CInv, Data
  <2>2. /\ raced' \in [registry : BOOLEAN, channels : SUBSET Channel,
                        keys : BOOLEAN]
        /\ raced'.keys = raced.keys
        /\ raced'.channels = raced.channels
                                \cup Misreported(PendingEvent(o), extent)
    BY <1>2, RacedAfter
  <2>3. ASSUME NEW c \in Channel \ raced'.channels, ~eventLog'.fatal
        PROVE  ~eventLog.fatal /\ Replayed'[c] = Replayed[c]
    BY <1>2, <2>1, <2>2, <2>3, ReplayedAfter DEF AppendLine
  <2> QED
    BY <2>2, <2>3 DEF Unsaid
<1>3. CASE Audit(o)
  <2>1. Kind(o) \notin ChannelCommand
    BY <1>3, OwnFacts
       DEF Audit, Sound, Staging, Kind, Staged, Batch, ChannelCommand
  <2>2. PendingEvent(o).of = {}
    BY <2>1 DEF PendingEvent, Silent
  <2> QED
    BY <1>2, <1>3, <2>2 DEF Audit
<1>4. CASE FailAppend(o)
  BY <1>1, <1>2, <1>4 DEF FailAppend, Fragment
<1> QED
  BY <1>1, <1>3, <1>4
     DEF Observe, Lock, Check, Load, Discover, Resolve, Apply, Rebuild, Fail

(* A command finds the pool that serves.                                   *)
LEMMA SubmitKeepsPools ==
  ASSUME CInv, PInv, NEW o \in Operator, Submit(o)
  PROVE  PInv'
<1> DEFINE old == command[o]
           q == command'[o]
<1>1. /\ command \in [Operator -> CommandState] /\ old \in CommandState
      /\ Sound(o, old, lock, store.version, ~raced.registry, committed)
  BY OwnFacts
<1>2. Up /\ old.stage = "idle" /\ UNCHANGED <<runtimes, keys, eventLog, raced>>
  BY DEF Submit
<1>3. /\ \A p \in Operator : p # o => command'[p] = command[p]
      /\ q.attached = old.attached
      /\ q.command.kind \in Pooled => q.runtime = Serving
      /\ q.stage \in {"waiting", "observing", "gating", "auditing"}
  <2>1. PICK c \in Command :
          command' = [command EXCEPT ![o].command = c, ![o].stage = FirstStage(c),
            ![o].runtime = IF c.kind \in ChannelCommand \cup {"import"}
                           THEN Serving ELSE 0,
            ![o].keys = IF c.kind = "import" THEN runtimes[Serving].keys ELSE {}]
    BY Zenon DEF Submit
  <2>2. FirstStage(c) \in {"waiting", "observing", "gating", "auditing"}
    BY CommandKinds DEF FirstStage, Staged, Batch, ChannelCommand
  <2> DEFINE r == IF c.kind \in ChannelCommand \cup {"import"} THEN Serving ELSE 0
             k == IF c.kind = "import" THEN runtimes[Serving].keys ELSE {}
             s == FirstStage(c)
  <2>3. c.kind \in Pooled => r = Serving
    BY DEF Pooled
  <2>4. command' = [command EXCEPT ![o].command = c, ![o].stage = s,
                                   ![o].runtime = r, ![o].keys = k]
    BY <2>1
  <2> HIDE DEF r, k, s
  <2>5. q.command = c /\ q.stage = s /\ q.runtime = r /\ q.attached = old.attached
        /\ \A p \in Operator : p # o => command'[p] = command[p]
    BY <1>1, <2>4 DEF CommandState
  <2> QED
    BY <2>2, <2>3, <2>5 DEF s
<1>4. q.attached
  BY <1>1, <1>2, <1>3 DEF Sound, Exclusive, Threaded, CommandState
<1>5. /\ Serving' = Serving /\ Up' = Up /\ Serving \in 1..Serving
      /\ Replayed' = Replayed /\ eventLog' = eventLog
  BY <1>2, ServingPool DEF Serving, Up, Replayed, Overlaid
<1> HIDE DEF q
<1>6. Resting'
  BY <1>2, <1>5 DEF Resting
<1>7. Found'
  BY <1>3, <1>5 DEF PInv, Found, q
<1>8. Gated'
  <2>1. q.stage \notin {"appending", "marking"}
    BY <1>3
  <2> QED
    BY <1>3, <2>1 DEF PInv, Gated, q
<1>9. Switched'
  <2> SUFFICES ASSUME NEW c \in Channel \ raced.channels
               PROVE  InTime(c)' /\ Agrees(c)'
    BY <1>2 DEF Switched
  <2>1. InTime(c) /\ Agrees(c)
    BY <1>2 DEF PInv, Switched
  <2>2. InTime(c)'
    BY <1>2, <1>3, <1>4, <1>5, <2>1 DEF InTime, Switching, Pooled, q
  <2>3. \A p \in Operator : command[p].stage = "marking" => command'[p] = command[p]
    BY <1>2, <1>3
  <2>4. Agrees(c)'
    BY <1>2, <1>5, <2>1, <2>3 DEF Agrees
  <2> QED
    BY <2>2, <2>4
<1>10. Imported'
  <2> SUFFICES ASSUME ~raced.keys
               PROVE  Imported'
    BY <1>2 DEF Imported
  <2>1. /\ \A p \in Operator : OnPool(command[p])
        /\ runtimes[Serving].keys \subseteq keys
        /\ \A k \in keys \ runtimes[Serving].keys :
             \E p \in Operator : /\ Importing(command[p])
                                 /\ command[p].stage = "adding"
                                 /\ k \in command[p].keys
    BY <1>2 DEF PInv, Imported
  <2>2. (OnPool(command[o]))'
    BY <1>3, <1>4, <1>5 DEF OnPool, Importing, Pooled, q
  <2>3. \A p \in Operator : (OnPool(command[p]))'
    BY <1>2, <1>3, <1>5, <2>1, <2>2 DEF OnPool
  <2>4. \A p \in Operator : command[p].stage = "adding" => command'[p] = command[p]
    BY <1>2, <1>3
  <2> QED
    BY <1>2, <1>5, <2>1, <2>3, <2>4 DEF Imported
<1> QED
  BY <1>2, <1>6, <1>7, <1>8, <1>9, <1>10 DEF PInv

(* A command passes a gate that nobody is past.                            *)
LEMMA GateKeepsPools ==
  ASSUME CInv, PInv, NEW o \in Operator, Gate(o)
  PROVE  PInv'
<1> DEFINE old == command[o]
           q == command'[o]
<1>1. /\ old.stage = "gating" /\ GateFree(o)
      /\ UNCHANGED <<runtimes, keys, eventLog, raced>>
  BY DEF Gate
<1>2. /\ \A p \in Operator : p # o => command'[p] = command[p]
      /\ q.command = old.command /\ q.attached = old.attached
      /\ q.runtime = old.runtime /\ q.stage = "appending"
  BY ToFields DEF Gate
<1>3. Serving' = Serving /\ Up' = Up /\ Replayed' = Replayed
  BY <1>1 DEF Serving, Up, Replayed, Overlaid
<1>4. old.command.kind \in ChannelCommand /\ old.command.kind # "import"
  BY <1>1, OwnFacts DEF Sound, Staging, ChannelCommand
<1>5. Busy(old)
  BY <1>1 DEF Busy
<1> HIDE DEF q
<1>6. Resting'
  BY <1>3, <1>5 DEF PInv, Resting
<1>7. Found'
  BY <1>2, <1>3, <1>5 DEF PInv, Found, q
<1>8. Gated'
  <2> SUFFICES ASSUME NEW p \in Operator, p # o, NEW c \in Channel,
                      Switching(q, c), q.attached,
                      Switching(command[p], c), command[p].attached,
                      command[p].stage \in {"appending", "marking"}
               PROVE  q.runtime # command[p].runtime
    BY <1>2 DEF PInv, Gated, q
  <2> QED
    BY <1>1, <1>2 DEF GateFree, Switching, Kind
<1>9. Switched'
  <2> SUFFICES ASSUME Up, NEW c \in Channel \ raced.channels
               PROVE  InTime(c)' /\ Agrees(c)'
    BY <1>1, <1>3 DEF Switched
  <2>1. InTime(c) /\ Agrees(c)
    BY DEF PInv, Switched
  <2>2. InTime(c)'
    BY <1>1, <1>2, <1>3, <1>5, <2>1 DEF InTime, Switching, q
  <2>3. \A p \in Operator : command[p].stage = "marking" => command'[p] = command[p]
    BY <1>1, <1>2
  <2>4. Agrees(c)'
    BY <1>1, <1>3, <2>1, <2>3 DEF Agrees
  <2> QED
    BY <2>2, <2>4
<1>10. Imported'
  <2> SUFFICES ASSUME Up, ~raced.keys
               PROVE  Imported'
    BY <1>1, <1>3 DEF Imported
  <2>1. \A p \in Operator :
          Importing(command[p]) \/ Importing(command'[p]) => command'[p] = command[p]
    BY <1>2, <1>4 DEF Importing, q
  <2>2. \A p \in Operator : (OnPool(command[p]))'
    BY <1>1, <1>3, <2>1 DEF PInv, Imported, OnPool
  <2> QED
    BY <1>1, <1>3, <2>1, <2>2 DEF PInv, Imported
<1> QED
  BY <1>1, <1>6, <1>7, <1>8, <1>9, <1>10 DEF PInv

(* A logged event is marked next, by the one command past the gate.        *)
LEMMA AppendEventKeepsPools ==
  ASSUME CInv, PInv, NEW o \in Operator, AppendEvent(o)
  PROVE  PInv'
<1> DEFINE old == command[o]
           q == command'[o]
           d == old.command.channel
<1>1. old.stage = "appending" /\ UNCHANGED <<runtimes, keys>>
  BY DEF AppendEvent
<1>2. /\ \A p \in Operator : p # o => command'[p] = command[p]
      /\ q.command = old.command /\ q.attached = old.attached
      /\ q.runtime = old.runtime /\ q.stage = "marking"
  BY ToFields DEF AppendEvent
<1>3. Serving' = Serving /\ Up' = Up
  BY <1>1 DEF Serving, Up
<1>4. old.command.kind \in ChannelCommand /\ old.command.kind # "import"
  BY <1>1, OwnFacts DEF Sound, Staging, ChannelCommand
<1>5. Busy(old) /\ Busy(q)
  BY <1>1, <1>2 DEF Busy
<1>6. /\ eventLog \in Log
      /\ PendingEvent(o) \in [of : SUBSET Channel, says : Event]
      /\ PendingEvent(o).of = {d} /\ PendingEvent(o).says = EventOf(old)
      /\ eventLog' = Extended(PendingEvent(o), "all")
  BY <1>4, PendingIsTyped
     DEF CInv, Data, AppendEvent, AppendLine, PendingEvent, EventOf, Kind
<1>7. /\ raced' \in [registry : BOOLEAN, channels : SUBSET Channel,
                      keys : BOOLEAN]
      /\ raced'.keys = raced.keys
      /\ raced'.channels = raced.channels
                              \cup Misreported(PendingEvent(o), "all")
  BY RacedAfter DEF AppendEvent
<1> HIDE DEF q
<1>8. Resting'
  BY <1>3, <1>5 DEF PInv, Resting
<1>9. Found'
  BY <1>2, <1>3, <1>5 DEF PInv, Found, q
<1>10. Gated'
  <2>1. \A p \in Operator : \A c \in Channel :
          /\ Switching(command'[p], c) <=> Switching(command[p], c)
          /\ command'[p].attached = command[p].attached
          /\ command'[p].runtime = command[p].runtime
          /\ command'[p].stage \in {"appending", "marking"} <=>
               command[p].stage \in {"appending", "marking"}
    BY <1>1, <1>2, <1>5 DEF Switching, q
  <2> QED
    BY <2>1 DEF PInv, Gated
<1>11. Switched'
  <2> SUFFICES ASSUME Up, NEW c \in Channel \ raced'.channels
               PROVE  InTime(c)' /\ Agrees(c)'
    BY <1>3 DEF Switched
  <2>1. InTime(c) /\ Agrees(c)
    BY <1>7 DEF PInv, Switched
  <2>2. ~eventLog'.fatal =>
          /\ ~eventLog.fatal
          /\ Replayed'[c] = IF c = d THEN EventOf(old) ELSE Replayed[c]
    BY <1>6, <1>7, ReplayedAfter
  <2>3. CASE c = d
    <3>1. Switching(q, c) /\ Switching(old, c) /\ q.stage = "marking"
      BY <1>2, <1>4, <1>5, <2>3 DEF Switching
    <3>2. ~eventLog'.fatal => Replayed'[c] = EventOf(q)
      BY <1>2, <2>2, <2>3 DEF EventOf
    <3>3. ASSUME NEW p \in Operator, Switching(command'[p], c),
                 command'[p].stage = "marking"
          PROVE  p = o
      <4> SUFFICES ASSUME p # o PROVE FALSE
        OBVIOUS
      <4>1. Switching(command[p], c) /\ command[p].stage = "marking"
        BY <1>2, <3>3
      <4>2. /\ command[p].attached /\ command[p].runtime = Serving
            /\ old.attached /\ old.runtime = Serving
        BY <2>1, <3>1, <4>1 DEF InTime
      <4> QED
        BY <1>1, <3>1, <4>1, <4>2 DEF PInv, Gated
    <3>4. \A p \in Operator : Switching(command'[p], c) =>
            command'[p].attached /\ command'[p].runtime = Serving'
      BY <1>2, <1>3, <2>1, <3>1 DEF InTime, q
    <3>5. InTime(c)'
      BY <3>2, <3>3, <3>4 DEF InTime, q
    <3> QED
      BY <3>1, <3>5 DEF Agrees, q
  <2>4. CASE c # d
    <3>1. \A p \in Operator : command[p].stage = "marking" => command'[p] = command[p]
      BY <1>1, <1>2
    <3>2. \A p \in Operator : Switching(command'[p], c) => command'[p] = command[p]
      BY <1>2, <2>4 DEF Switching, q
    <3> QED
      BY <1>1, <1>3, <2>1, <2>2, <2>4, <3>1, <3>2 DEF Agrees, InTime
  <2> QED
    BY <2>3, <2>4
<1>12. Imported'
  <2> SUFFICES ASSUME Up, ~raced.keys
               PROVE  Imported'
    BY <1>3, <1>7 DEF Imported
  <2>1. \A p \in Operator :
          Importing(command[p]) \/ Importing(command'[p]) => command'[p] = command[p]
    BY <1>2, <1>4 DEF Importing, q
  <2>2. \A p \in Operator : (OnPool(command[p]))'
    BY <1>1, <1>3, <2>1 DEF PInv, Imported, OnPool
  <2> QED
    BY <1>1, <1>3, <2>1, <2>2 DEF PInv, Imported
<1> QED
  BY <1>7, <1>8, <1>9, <1>10, <1>11, <1>12 DEF PInv

(* What a command marks is the pool that serves, or one that a reload      *)
(* replaced.                                                               *)
LEMMA MarkKeepsPools ==
  ASSUME CInv, PInv, NEW o \in Operator, Mark(o)
  PROVE  PInv'
<1> DEFINE old == command[o]
           q == command'[o]
           d == old.command.channel
           g == old.runtime
           disabled == IF Kind(o) = "disable" THEN runtimes[g].disabled \cup {d}
                       ELSE runtimes[g].disabled \ {d}
           new == [runtimes[g] EXCEPT !.disabled = disabled]
<1>1. old.stage = "marking" /\ UNCHANGED <<keys, eventLog, raced>>
  BY DEF Mark
<1>2. /\ \A p \in Operator : p # o => command'[p] = command[p]
      /\ q.command = old.command /\ q.stage \in {"done", "lost"}
  BY EndedFields DEF Mark
<1>3. old.command.kind \in ChannelCommand /\ old.command.kind # "import"
  BY <1>1, OwnFacts DEF Sound, Staging, ChannelCommand
<1>4. Busy(old) /\ ~Busy(q) /\ Up
  BY <1>1, <1>2 DEF Busy, PInv, Resting
<1>5. g \in 1..Serving
  BY <1>3, <1>4 DEF PInv, Found, Pooled
<1>6. runtimes' = [runtimes EXCEPT ![g] = new]
  BY DEF Mark
<1>7. /\ runtimes[g] \in Runtime
      /\ \A h \in 1..Serving : runtimes[h] \in Runtime
      /\ runtimes \in Seq(Runtime)
  BY <1>5, ElementOfSeq DEF CInv, Data, Serving
<1>8. new.keys = runtimes[g].keys /\ new.disabled = disabled
  BY <1>7 DEF Runtime
<1> HIDE DEF new, q
<1>9. /\ Serving' = Serving /\ Up' /\ Replayed' = Replayed
      /\ \A h \in 1..Serving : runtimes'[h] = IF h = g THEN new ELSE runtimes[h]
  <2>1. Serving \in Nat /\ DOMAIN runtimes = 1..Serving /\ Serving >= 1
    BY <1>4, ServingPool
  <2>2. /\ DOMAIN runtimes' = 1..Serving
        /\ \A h \in 1..Serving : runtimes'[h] = IF h = g THEN new ELSE runtimes[h]
    BY <1>6, <2>1
  <2>3. runtimes' \in Seq(Runtime)
    BY MarkKeeps DEF CInv, Data
  <2>4. Serving' = Serving
    BY <2>1, <2>2, <2>3, LenProperties DEF Serving
  <2>5. runtimes' # <<>>
    BY <2>1, <2>4, EmptySeq DEF Serving
  <2> QED
    BY <1>1, <2>2, <2>4, <2>5 DEF Up, Replayed, Overlaid
<1>10. Resting'
  BY <1>9 DEF Resting
<1>11. Found'
  BY <1>2, <1>4, <1>9 DEF PInv, Found, q
<1>12. Gated'
  <2>1. \A p \in Operator : Busy(command'[p]) => command'[p] = command[p]
    BY <1>2, <1>4 DEF q
  <2> QED
    BY <2>1 DEF PInv, Gated, Switching
<1>13. Switched'
  <2> SUFFICES ASSUME NEW c \in Channel \ raced.channels
               PROVE  InTime(c)' /\ Agrees(c)'
    BY <1>1 DEF Switched
  <2>1. InTime(c) /\ Agrees(c)
    BY <1>4 DEF PInv, Switched
  <2>2. InTime(c)'
    BY <1>1, <1>2, <1>4, <1>9, <2>1 DEF InTime, Switching, q
  <2>3. Serving \in 1..Serving
    BY <1>4, ServingPool
  <2>4. CASE c = d
    <3>1. Switching(old, c)
      BY <1>3, <1>4, <2>4 DEF Switching
    <3>2. old.attached /\ g = Serving
      BY <2>1, <3>1 DEF InTime
    <3>3. runtimes'[Serving].disabled = disabled
      BY <1>8, <1>9, <2>3, <3>2
    <3>4. c \in disabled <=> old.command.kind = "disable"
      BY <2>4 DEF Kind
    <3>5. ~eventLog.fatal => Replayed[c] = EventOf(old)
      BY <1>1, <2>1, <3>1 DEF InTime
    <3>6. ~eventLog.fatal =>
            (Replayed[c] = "disabled" <=> old.command.kind = "disable")
      BY <3>5 DEF EventOf
    <3>7. \/ eventLog'.fatal
          \/ (c \in runtimes[Serving].disabled <=> Replayed[c] = "disabled")'
      BY <1>1, <1>9, <3>3, <3>4, <3>6
    <3> QED
      BY <2>2, <3>7 DEF Agrees
  <2>5. CASE c # d
    <3>1. c \in disabled <=> c \in runtimes[g].disabled
      BY <2>5
    <3>2. c \in runtimes'[Serving].disabled <=> c \in runtimes[Serving].disabled
      BY <1>8, <1>9, <2>3, <3>1
    <3>3. \A p \in Operator : Switching(command[p], c) => command'[p] = command[p]
      BY <1>2, <2>5 DEF Switching
    <3>4. Agrees(c)'
      BY <1>1, <1>9, <2>1, <3>2, <3>3 DEF Agrees
    <3> QED
      BY <2>2, <3>4
  <2> QED
    BY <2>4, <2>5
<1>14. Imported'
  <2> SUFFICES ASSUME ~raced.keys
               PROVE  Imported'
    BY <1>1 DEF Imported
  <2>1. Serving \in 1..Serving
    BY <1>4, ServingPool
  <2>2. runtimes'[Serving].keys = runtimes[Serving].keys
    BY <1>8, <1>9, <2>1
  <2>3. \A p \in Operator :
          Importing(command[p]) \/ Importing(command'[p]) => command'[p] = command[p]
    BY <1>2, <1>3 DEF Importing, q
  <2>4. \A p \in Operator : (OnPool(command[p]))'
    BY <1>1, <1>4, <1>9, <2>3 DEF PInv, Imported, OnPool
  <2> QED
    BY <1>1, <1>4, <1>9, <2>2, <2>3, <2>4 DEF PInv, Imported
<1> QED
  BY <1>1, <1>10, <1>11, <1>12, <1>13, <1>14 DEF PInv

(* An import stores what it will add, or nobody will.                      *)
LEMMA PersistKeepsPools ==
  ASSUME CInv, PInv, NEW o \in Operator, Persist(o)
  PROVE  PInv'
<1> DEFINE old == command[o]
           q == command'[o]
           new == Accepted(o)
<1>1. /\ old.stage = "persisting" /\ UNCHANGED <<runtimes, eventLog, raced>>
      /\ keys' = keys \cup new
  BY DEF Persist
<1>2. old.command.kind = "import" /\ old.command.kind \notin ChannelCommand
  BY <1>1, OwnFacts DEF Sound, Staging, ChannelCommand
<1>3. /\ \A p \in Operator : p # o => command'[p] = command[p]
      /\ q.command = old.command /\ q.attached = old.attached
      /\ q.runtime = old.runtime
      /\ IF old.attached THEN q.stage = "adding" /\ q.keys = new
         ELSE q.stage \in {"done", "lost"}
  <2>1. command \in [Operator -> CommandState] /\ old \in CommandState
    BY OwnFacts
  <2>2. CASE old.attached
    <3>1. command' = [command EXCEPT ![o].keys = new, ![o].stage = "adding"]
      BY <2>2 DEF Persist
    <3> HIDE DEF new
    <3> QED
      BY <2>1, <2>2, <3>1 DEF CommandState
  <2>3. CASE ~old.attached
    <3>1. command' = Ended(o, "Ok")
      BY <2>3 DEF Persist
    <3> QED
      BY <2>3, <3>1, EndedFields
  <2> QED
    BY <2>2, <2>3
<1>4. Serving' = Serving /\ Up' = Up /\ Replayed' = Replayed
  BY <1>1 DEF Serving, Up, Replayed, Overlaid
<1>5. Busy(old) /\ Up
  BY <1>1 DEF Busy, PInv, Resting
<1>6. new \cap keys = {}
  BY DEF Accepted
<1> HIDE DEF q, new
<1>7. Resting'
  BY <1>4, <1>5 DEF Resting
<1>8. Found'
  BY <1>3, <1>4, <1>5 DEF PInv, Found, q
<1>9. \A p \in Operator : \A c \in Channel :
        Switching(command[p], c) \/ Switching(command'[p], c) =>
          command'[p] = command[p]
  BY <1>2, <1>3 DEF Switching, q
<1>10. Gated'
  BY <1>9 DEF PInv, Gated
<1>11. Switched'
  <2> SUFFICES ASSUME NEW c \in Channel \ raced.channels
               PROVE  InTime(c)' /\ Agrees(c)'
    BY <1>1 DEF Switched
  <2> QED
    BY <1>1, <1>4, <1>5, <1>9 DEF PInv, Switched, InTime, Agrees
<1>12. Imported'
  <2> SUFFICES ASSUME ~raced.keys
               PROVE  Imported'
    BY <1>1 DEF Imported
  <2>1. /\ \A p \in Operator : OnPool(command[p])
        /\ runtimes[Serving].keys \subseteq keys
        /\ \A k \in keys \ runtimes[Serving].keys :
             \E p \in Operator : /\ Importing(command[p])
                                 /\ command[p].stage = "adding"
                                 /\ k \in command[p].keys
    BY <1>5 DEF PInv, Imported
  <2>2. old.attached /\ old.runtime = Serving
    BY <1>1, <1>2, <1>5, <2>1 DEF OnPool, Importing
  <2>3. Importing(q) /\ q.stage = "adding" /\ q.keys = new
    BY <1>2, <1>3, <2>2 DEF Importing, Busy
  <2>4. \A p \in Operator : (OnPool(command[p]))'
    BY <1>1, <1>3, <1>4, <2>1, <2>2, <2>3 DEF OnPool, q
  <2>5. ASSUME NEW k \in keys' \ runtimes[Serving].keys
        PROVE  \E p \in Operator : /\ Importing(command'[p])
                                   /\ command'[p].stage = "adding"
                                   /\ k \in command'[p].keys
    <3>1. CASE k \in new
      BY <2>3, <3>1 DEF q
    <3>2. CASE k \notin new
      <4>1. PICK p \in Operator : /\ Importing(command[p])
                                  /\ command[p].stage = "adding"
                                  /\ k \in command[p].keys
        BY <1>1, <2>1, <2>5, <3>2
      <4>2. command'[p] = command[p]
        BY <1>1, <1>3, <4>1
      <4> QED
        BY <4>1, <4>2
    <3> QED
      BY <3>1, <3>2
  <2> QED
    BY <1>1, <1>4, <2>1, <2>4, <2>5 DEF Imported
<1> QED
  BY <1>1, <1>7, <1>8, <1>10, <1>11, <1>12 DEF PInv

(* What an import adds is stored already.                                  *)
LEMMA AddKeepsPools ==
  ASSUME CInv, PInv, NEW o \in Operator, Add(o)
  PROVE  PInv'
<1> DEFINE old == command[o]
           q == command'[o]
           g == old.runtime
           new == [runtimes[g] EXCEPT !.keys = @ \cup old.keys]
<1>1. old.stage = "adding" /\ UNCHANGED <<keys, eventLog, raced>>
  BY DEF Add
<1>2. /\ \A p \in Operator : p # o => command'[p] = command[p]
      /\ q.command = old.command /\ q.stage \in {"done", "lost"}
  BY EndedFields DEF Add
<1>3. old.command.kind = "import" /\ old.command.kind \notin ChannelCommand
  BY <1>1, OwnFacts DEF Sound, Staging, ChannelCommand
<1>4. Busy(old) /\ ~Busy(q) /\ Up /\ Replayed' = Replayed
  BY <1>1, <1>2 DEF Busy, PInv, Resting, Replayed, Overlaid
<1>5. g \in 1..Serving
  BY <1>3, <1>4 DEF PInv, Found, Pooled
<1>6. runtimes' = [runtimes EXCEPT ![g] = new]
  BY DEF Add
<1>7. /\ runtimes[g] \in Runtime
      /\ \A h \in 1..Serving : runtimes[h] \in Runtime
      /\ runtimes \in Seq(Runtime)
  BY <1>5, ElementOfSeq DEF CInv, Data, Serving
<1>8. /\ new.keys = runtimes[g].keys \cup old.keys
      /\ new.disabled = runtimes[g].disabled
  BY <1>7 DEF Runtime
<1> HIDE DEF new, q
<1>9. /\ Serving' = Serving /\ Up' /\ Serving \in 1..Serving
      /\ \A h \in 1..Serving : runtimes'[h] = IF h = g THEN new ELSE runtimes[h]
  <2>1. Serving \in Nat /\ DOMAIN runtimes = 1..Serving /\ Serving >= 1
    BY <1>4, ServingPool
  <2>2. /\ DOMAIN runtimes' = 1..Serving
        /\ \A h \in 1..Serving : runtimes'[h] = IF h = g THEN new ELSE runtimes[h]
    BY <1>6, <2>1
  <2>3. runtimes' \in Seq(Runtime)
    BY AddKeeps DEF CInv, Data
  <2>4. Serving' = Serving
    BY <2>1, <2>2, <2>3, LenProperties DEF Serving
  <2>5. runtimes' # <<>>
    BY <2>1, <2>4, EmptySeq DEF Serving
  <2> QED
    BY <2>1, <2>2, <2>4, <2>5 DEF Up
<1>10. Resting'
  BY <1>9 DEF Resting
<1>11. Found'
  BY <1>2, <1>4, <1>9 DEF PInv, Found, q
<1>12. \A p \in Operator : \A c \in Channel :
         Switching(command[p], c) \/ Switching(command'[p], c) =>
           command'[p] = command[p]
  BY <1>2, <1>3 DEF Switching, q
<1>13. Gated'
  BY <1>12 DEF PInv, Gated
<1>14. Switched'
  <2> SUFFICES ASSUME NEW c \in Channel \ raced.channels
               PROVE  InTime(c)' /\ Agrees(c)'
    BY <1>1 DEF Switched
  <2>1. runtimes'[Serving].disabled = runtimes[Serving].disabled
    BY <1>8, <1>9
  <2> QED
    BY <1>1, <1>4, <1>9, <1>12, <2>1 DEF PInv, Switched, InTime, Agrees
<1>15. Imported'
  <2> SUFFICES ASSUME ~raced.keys
               PROVE  Imported'
    BY <1>1 DEF Imported
  <2>1. /\ \A p \in Operator : OnPool(command[p])
        /\ runtimes[Serving].keys \subseteq keys
        /\ \A k \in keys \ runtimes[Serving].keys :
             \E p \in Operator : /\ Importing(command[p])
                                 /\ command[p].stage = "adding"
                                 /\ k \in command[p].keys
    BY <1>4 DEF PInv, Imported
  <2>2. g = Serving /\ old.keys \subseteq keys
    BY <1>1, <1>3, <1>4, <2>1 DEF OnPool, Importing
  <2>3. runtimes'[Serving].keys = runtimes[Serving].keys \cup old.keys
    BY <1>8, <1>9, <2>2
  <2>4. \A p \in Operator : (OnPool(command[p]))'
    BY <1>1, <1>2, <1>4, <1>9, <2>1 DEF OnPool, Importing, q
  <2>5. ASSUME NEW k \in keys \ runtimes'[Serving].keys
        PROVE  \E p \in Operator : /\ Importing(command'[p])
                                   /\ command'[p].stage = "adding"
                                   /\ k \in command'[p].keys
    <3>1. PICK p \in Operator : /\ Importing(command[p])
                                /\ command[p].stage = "adding"
                                /\ k \in command[p].keys
      BY <2>1, <2>3, <2>5
    <3>2. p # o
      BY <2>3, <2>5, <3>1
    <3> QED
      BY <1>2, <3>1, <3>2
  <2> QED
    BY <1>1, <1>9, <2>1, <2>2, <2>3, <2>4, <2>5 DEF Imported
<1> QED
  BY <1>1, <1>10, <1>11, <1>13, <1>14, <1>15 DEF PInv

(* An installed runtime has the channels and keys of what was read, but    *)
(* for those that a command races with.                                    *)
LEMMA InstallKeepsPools ==
  ASSUME CInv, PInv, NEW o \in Operator, Install(o)
  PROVE  PInv'
<1> DEFINE old == command[o]
           q == command'[o]
           new == Rebuilt(o)
           switching == {c \in Channel :
                           \/ old.log[c] # Replayed[c]
                           \/ \E p \in Operator :
                                /\ UnderWay(p) /\ Kind(p) \in ChannelCommand
                                /\ command[p].command.channel = c}
           importing == \/ old.keys # keys
                        \/ \E p \in Operator : UnderWay(p) /\ Kind(p) = "import"
<1>1. /\ old.stage = "installing" /\ UNCHANGED <<keys, eventLog>>
      /\ raced' = [raced EXCEPT !.channels = switching, !.keys = importing]
  BY DEF Install
<1>2. /\ \A p \in Operator : p # o => command'[p] = command[p]
      /\ q.command = old.command /\ q.stage \in {"done", "lost"}
  BY EndedFields DEF Install, End
<1>3. old.command.kind = "reload"
  BY <1>1, OwnFacts DEF Sound, Staging
<1>4. old.command.kind \notin ChannelCommand /\ old.command.kind \notin Pooled
  BY <1>3 DEF ChannelCommand, Pooled
<1>5. Busy(old) /\ ~Busy(q) /\ Up
  BY <1>1, <1>2 DEF Busy, PInv, Resting
<1>6. /\ runtimes' = Append(runtimes, new)
      /\ new.disabled = Logged(old.log, "disabled") /\ new.keys = old.keys
  BY DEF Install, Rebuilt
<1>7. raced'.channels = switching /\ raced'.keys = importing
      /\ raced' \in [registry : BOOLEAN, channels : SUBSET Channel, keys : BOOLEAN]
  <2>1. switching \in SUBSET Channel /\ importing \in BOOLEAN
    OBVIOUS
  <2> HIDE DEF switching, importing
  <2> QED
    BY <1>1, <2>1 DEF PInv
<1> HIDE DEF new, q
<1>8. /\ Serving' = Serving + 1 /\ Serving \in Nat /\ Up'
      /\ runtimes'[Serving'] = new
  <2>1. runtimes \in Seq(Runtime)
    BY DEF CInv, Data
  <2>2. runtimes' \in Seq(Runtime)
    BY InstallKeeps DEF CInv, Data
  <2>3. \A s \in Seq(Runtime) : \A e :
          /\ Len(Append(s, e)) = Len(s) + 1
          /\ Append(s, e)[Len(s) + 1] = e
    OBVIOUS
  <2>4. Len(runtimes') = Len(runtimes) + 1 /\ runtimes'[Len(runtimes) + 1] = new
    BY <1>6, <2>1, <2>3
  <2>5. Len(runtimes) \in Nat
    BY <2>1, LenProperties
  <2>6. runtimes' # <<>>
    BY <2>2, <2>4, <2>5, EmptySeq
  <2> QED
    BY <2>4, <2>5, <2>6 DEF Serving, Up
<1>9. Resting'
  BY <1>8 DEF Resting
<1>10. Found'
  BY <1>2, <1>5, <1>8 DEF PInv, Found, q
<1>11. \A p \in Operator : \A c \in Channel :
         Switching(command'[p], c) => Switching(command[p], c) /\ command'[p] = command[p]
  BY <1>2, <1>4 DEF Switching, q
<1>12. Gated'
  BY <1>11 DEF PInv, Gated
<1>13. Switched'
  <2> SUFFICES ASSUME NEW c \in Channel \ switching
               PROVE  InTime(c)' /\ Agrees(c)'
    BY <1>7, Zenon DEF Switched
  <2>1. old.log[c] = Replayed[c] /\ Replayed' = Replayed
    BY <1>1 DEF Replayed, Overlaid
  <2>2. \A p \in Operator : ~Switching(command'[p], c)
    BY <1>11 DEF Switching, Busy, UnderWay, Kind
  <2>3. c \in new.disabled <=> Replayed'[c] = "disabled"
    BY <1>1, <1>6, <2>1 DEF Logged
  <2> QED
    BY <1>8, <2>2, <2>3 DEF InTime, Agrees
<1>14. Imported'
  <2> SUFFICES ASSUME ~importing
               PROVE  Imported'
    BY <1>7, Zenon DEF Imported
  <2>1. old.keys = keys
    OBVIOUS
  <2>2. \A p \in Operator : ~Importing(command'[p])
    <3>1. \A p \in Operator : Importing(command'[p]) => command'[p] = command[p]
      BY <1>2, <1>3 DEF Importing, q
    <3> QED
      BY <3>1 DEF Importing, Busy, UnderWay, Kind
  <2> QED
    BY <1>1, <1>6, <1>8, <2>1, <2>2 DEF Imported, OnPool
<1> QED
  BY <1>7, <1>9, <1>10, <1>12, <1>13, <1>14 DEF PInv

(* A handler that is dropped leaves a thread behind, which is remembered,  *)
(* or nothing at all.                                                      *)
LEMMA DisconnectKeepsPools ==
  ASSUME CInv, PInv, NEW o \in Operator, Disconnect(o)
  PROVE  PInv'
<1> DEFINE old == command[o]
           q == command'[o]
           channels == raced.channels \cup
                         IF Kind(o) \in ChannelCommand /\ OnThread(o)
                         THEN {old.command.channel} ELSE {}
           importing == raced.keys \/ old.stage \in {"persisting", "adding"}
           writing == raced.registry \/ old.stage = "applying"
<1>1. /\ Busy(old) /\ UNCHANGED <<runtimes, keys, eventLog>>
      /\ raced' = [registry |-> writing, channels |-> channels,
                   keys |-> importing]
  BY DEF Disconnect, UnderWay, Busy
<1>2. /\ \A p \in Operator : p # o => command'[p] = command[p]
      /\ q.command = old.command /\ ~q.attached /\ q.runtime = old.runtime
      /\ q.stage = IF OnThread(o) THEN old.stage ELSE "lost"
  <2>1. command \in [Operator -> CommandState] /\ old \in CommandState
    BY OwnFacts
  <2>2. command' = [command EXCEPT ![o].attached = FALSE,
                      ![o].stage = IF OnThread(o) THEN old.stage ELSE "lost"]
    BY DEF Disconnect
  <2> QED
    BY <2>1, <2>2 DEF CommandState
<1>3. Serving' = Serving /\ Up' = Up /\ Up /\ Replayed' = Replayed
  BY <1>1 DEF Serving, Up, PInv, Resting, Replayed, Overlaid
<1>4. /\ Busy(q) => OnThread(o) /\ q.stage = old.stage
      /\ q.stage = "lost" \/ q.stage = old.stage
  BY <1>2 DEF Busy
<1>5. raced' \in [registry : BOOLEAN, channels : SUBSET Channel, keys : BOOLEAN]
  <2>1. raced.channels \in SUBSET Channel /\ raced.keys \in BOOLEAN
        /\ raced.registry \in BOOLEAN
    BY DEF PInv
  <2>2. Kind(o) \in ChannelCommand /\ OnThread(o) => old.command.channel \in Channel
    <3>1. old.command \in Command \cup {NoCommand}
      BY OwnFacts DEF CommandState
    <3> QED
      BY <3>1, CommandKinds DEF Kind, NoCommand, ChannelCommand
  <2>3. channels \in SUBSET Channel
    BY <2>1, <2>2
  <2>4. importing \in BOOLEAN /\ writing \in BOOLEAN
    BY <2>1
  <2> HIDE DEF channels, importing, writing
  <2> QED
    BY <1>1, <2>3, <2>4
<1> HIDE DEF q
<1>6. raced'.channels = channels /\ raced'.keys = importing
  BY <1>1
<1>7. Resting'
  BY <1>3 DEF Resting
<1>8. Found'
  BY <1>1, <1>2, <1>3 DEF PInv, Found, q
<1>9. Gated'
  BY <1>2 DEF PInv, Gated, q
<1>10. Switched'
  <2> SUFFICES ASSUME NEW c \in Channel \ channels
               PROVE  InTime(c)' /\ Agrees(c)'
    BY <1>6, Zenon DEF Switched
  <2>1. InTime(c) /\ Agrees(c)
    BY <1>3 DEF PInv, Switched
  <2>2. ~Switching(q, c)
    BY <1>2, <1>4 DEF Switching, Kind
  <2>3. Switching(old, c) => old.stage # "marking"
    BY DEF Switching, Kind, OnThread
  <2>4. InTime(c)'
    BY <1>1, <1>2, <1>3, <2>1, <2>2 DEF InTime, q
  <2>5. Agrees(c)'
    BY <1>1, <1>2, <1>3, <2>1, <2>3 DEF Agrees
  <2> QED
    BY <2>4, <2>5
<1>11. Imported'
  <2> SUFFICES ASSUME ~importing
               PROVE  Imported'
    BY <1>6, Zenon DEF Imported
  <2>1. ~raced.keys /\ old.stage \notin {"persisting", "adding"}
    OBVIOUS
  <2>2. Importing(q) => Importing(old) /\ q.stage = "auditing"
    <3>1. SUFFICES ASSUME Importing(q), q.stage # "auditing" PROVE FALSE
      BY <1>1, <1>2 DEF Importing
    <3>2. old.stage \in {"applying", "appending", "marking"}
      BY <1>4, <2>1, <3>1 DEF Importing, OnThread
    <3>3. old.command.kind \in Staged \cup ChannelCommand
      BY <3>2, OwnFacts DEF Sound, Staging
    <3> QED
      BY <1>2, <3>1, <3>3 DEF Importing, Staged, Batch, ChannelCommand
  <2>3. \A p \in Operator :
          command[p].stage = "adding" => command'[p] = command[p]
    BY <1>2, <2>1 DEF q
  <2>4. \A p \in Operator : OnPool(command[p])
    BY <1>3, <2>1 DEF PInv, Imported
  <2>5. (OnPool(command[o]))'
    BY <1>2, <1>3, <2>2, <2>4 DEF OnPool, q
  <2>6. \A p \in Operator : (OnPool(command[p]))'
    BY <1>1, <1>2, <1>3, <2>4, <2>5 DEF OnPool
  <2> QED
    BY <1>1, <1>3, <2>1, <2>3, <2>6 DEF PInv, Imported
<1> QED
  BY <1>5, <1>7, <1>8, <1>9, <1>10, <1>11 DEF PInv

(* A crash leaves no command and no pool.                                  *)
LEMMA CrashKeepsPools ==
  ASSUME CInv, PInv, Crash
  PROVE  PInv'
<1>1. /\ runtimes' = <<>>
      /\ raced' = [NothingRaced EXCEPT !.registry = raced.registry]
      /\ command' = [o \in Operator |->
                       IF UnderWay(o) THEN [command[o] EXCEPT !.stage = "lost"]
                       ELSE command[o]]
  BY DEF Crash
<1>2. ~Up'
  BY <1>1 DEF Up
<1>3. ASSUME NEW o \in Operator
      PROVE  ~Busy(command'[o])
  <2>1. command[o] \in CommandState
    BY OwnFacts
  <2>2. command'[o] = IF UnderWay(o) THEN [command[o] EXCEPT !.stage = "lost"]
                      ELSE command[o]
    BY <1>1
  <2> QED
    BY <2>1, <2>2 DEF Busy, UnderWay, CommandState
<1>4. raced' \in [registry : BOOLEAN, channels : SUBSET Channel, keys : BOOLEAN]
  <2>1. raced.registry \in BOOLEAN
    BY DEF PInv
  <2>2. {} \in SUBSET Channel
    OBVIOUS
  <2> QED
    BY <1>1, <2>1, <2>2 DEF NothingRaced
<1> QED
  BY <1>2, <1>3, <1>4 DEF PInv, Resting, Found, Gated, Switching, Switched, Imported

(* A start installs what the log and the credential store have.            *)
LEMMA StartKeepsPools ==
  ASSUME CInv, PInv, Start
  PROVE  PInv'
<1> DEFINE new == [version |-> store.version, document |-> store.document,
                   disabled |-> Logged(Replayed, "disabled"), keys |-> keys]
<1>1. /\ runtimes' = <<new>> /\ ~Up
      /\ UNCHANGED <<keys, eventLog, command, raced>>
  BY DEF Start
<1>2. \A o \in Operator : ~Busy(command'[o])
  BY <1>1 DEF PInv, Resting
<1>3. /\ new.disabled = Logged(Replayed, "disabled") /\ new.keys = keys
      /\ Replayed' = Replayed
  BY <1>1 DEF Replayed, Overlaid
<1> HIDE DEF new
<1>4. Serving' = 1 /\ runtimes'[1] = new /\ Up'
  BY <1>1 DEF Serving, Up
<1>5. Switched'
  BY <1>1, <1>2, <1>3, <1>4 DEF Switched, InTime, Agrees, Switching, Logged
<1>6. Imported'
  BY <1>1, <1>2, <1>3, <1>4 DEF Imported, OnPool, Importing
<1> QED
  BY <1>1, <1>2, <1>4, <1>5, <1>6 DEF PInv, Resting, Found, Gated, Switching

(* Every step keeps what runtimes serve.                                   *)
LEMMA NextKeepsPools ==
  ASSUME CInv, PInv, [Next]_vars
  PROVE  PInv'
<1>1. ASSUME NEW o \in Operator, Step(o)
      PROVE  PInv'
  BY <1>1, SubmitKeepsPools, CalmSteps, UnsaidSteps, CalmKeeps, InstallKeepsPools,
     GateKeepsPools, AppendEventKeepsPools, MarkKeepsPools, PersistKeepsPools,
     AddKeepsPools, DisconnectKeepsPools
     DEF Step
<1>2. CASE UNCHANGED vars
  BY <1>2 DEF vars, PInv, Resting, Found, Gated, Switching, Switched, InTime,
              Agrees, Imported, OnPool, Importing, Serving, Up, Replayed,
              Overlaid
<1> QED
  BY <1>1, <1>2, StartKeepsPools, CrashKeepsPools DEF Next

(* The invariant of every behaviour.                                       *)
LEMMA Served == Spec => []PInv
<1>1. Init => PInv
  <2> SUFFICES ASSUME Init PROVE PInv
    OBVIOUS
  <2>1. /\ runtimes = <<>> /\ raced = NothingRaced
        /\ command = [o \in Operator |-> Quiet]
    BY DEF Init
  <2>2. \A o \in Operator : ~Busy(command[o])
    BY <2>1 DEF Quiet, Busy
  <2>3. ~Up
    BY <2>1 DEF Up
  <2>4. raced \in [registry : BOOLEAN, channels : SUBSET Channel, keys : BOOLEAN]
    <3>1. {} \in SUBSET Channel
      OBVIOUS
    <3> QED
      BY <2>1, <3>1 DEF NothingRaced
  <2> QED
    BY <2>2, <2>3, <2>4 DEF PInv, Resting, Found, Gated, Switching, Switched, Imported
<1>2. CInv /\ PInv /\ [Next]_vars => PInv'
  BY NextKeepsPools
<1> QED
  BY <1>1, <1>2, Controlled, PTL DEF Spec

(* Whatever else was reloaded, failed or restarted, the runtime that serves *)
(* has the channels disabled that a replay of the event log disables, as   *)
(* long as the log can be replayed; but for channels with a command under  *)
(* way, or one that ran across a reload or outlived its handler, and those *)
(* whose command the log has otherwise than it was answered: a failed one  *)
(* whose event lacks only its newline, or one whose event is behind what   *)
(* is left of a failed append (disable_channel_resource of                 *)
(* src/management_resources.rs, record_audit_event_now of src/events.rs,   *)
(* apply_persisted_channel_events of src/state.rs).                        *)
THEOREM LogIsServed == Spec => []DisabledAsLogged
<1>1. PInv => DisabledAsLogged
  BY DEF PInv, Switched, Agrees, DisabledAsLogged, Switching, Busy, UnderWay, Kind
<1> QED
  BY <1>1, Served, PTL

(* The runtime that serves has the credentials of the store, but for an    *)
(* import under way or one that ran across a reload or lost its handler    *)
(* (append_credentials_excluding_secrets,                                  *)
(* apply_credential_import_to_runtime of src/management_credentials.rs).   *)
THEOREM ImportsAreServed == Spec => []ImportedServed
<1>1. PInv => ImportedServed
  BY DEF PInv, Imported, ImportedServed, Importing, Busy, UnderWay, Kind
<1> QED
  BY <1>1, Served, PTL

(* The mutation lock is with a handler that runs, inside the critical      *)
(* section of a reload or of a staged write, and the pool that a command   *)
(* under way keeps was installed since the start (the guards of            *)
(* src/management_registry.rs and of apply_runtime_reload).                *)
THEOREM ControlTypes == Spec => []TypeOK
<1>1. CInv /\ PInv => TypeOK
  <2> SUFFICES ASSUME CInv, PInv PROVE TypeOK
    OBVIOUS
  <2>1. /\ store.version \in Nat /\ store.document \in Document
        /\ keys \subseteq Key
        /\ Replayed \in [Channel -> {"none", "disabled", "enabled"}]
        /\ eventLog.line \in {"ended", "begun", "spoilt"}
    BY ReplayedIsTyped DEF CInv, Data, Log, Event
  <2>2. \A g \in DOMAIN runtimes : runtimes[g] \in Runtime
    BY ElementOfSeq, ServingPool DEF CInv, Data, Serving
  <2>3. ASSUME NEW o \in Operator
        PROVE  /\ command[o].stage \in Stage
               /\ command[o].document \in Document
               /\ command[o].keys \subseteq Key
    BY OwnFacts DEF CommandState
  <2>4. ASSUME NEW o \in Operator, UnderWay(o),
               Kind(o) \in ChannelCommand \cup {"import"}
        PROVE  command[o].runtime \in 1..Serving
    BY <2>4 DEF PInv, Found, Pooled, Busy, UnderWay, Kind
  <2>5. lock # "free" =>
          /\ command[lock].attached /\ command[lock].stage \in Locked
          /\ Kind(lock) \in Batch \cup {"configure", "reload"}
    BY DEF CInv, Holder, Staged
  <2> QED
    BY <2>1, <2>2, <2>3, <2>4, <2>5 DEF TypeOK
<1> QED
  BY <1>1, Controlled, Served, PTL
=============================================================================
