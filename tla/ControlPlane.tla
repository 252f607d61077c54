---------------------------- MODULE ControlPlane ----------------------------
(***************************************************************************)
(* The control plane: the registry store (src/registry_store.rs), staged   *)
(* writes to it (src/management_registry.rs), the synchronisation of model *)
(* routes with what channels offer (src/model_discovery.rs), the reload    *)
(* that compiles the stored document into the running one                  *)
(* (src/management_runtime.rs, src/state.rs), and what operators do to the *)
(* running one meanwhile: disable and enable channels                      *)
(* (src/management_resources.rs), import credentials                       *)
(* (src/management_credentials.rs).                                        *)
(*                                                                         *)
(* Reloads and staged writes hold the registry mutation lock; channel      *)
(* commands and imports do not, and keep the pool they found.  A           *)
(* management client that goes away takes its handler, and the lock with   *)
(* it, but not the blocking thread that writes.                            *)
(*                                                                         *)
(* A document is the routes of the models, which discovery and route       *)
(* upserts change against an expected version, and one resource in one of  *)
(* two states, standing for those that single writes change without one;   *)
(* every channel is in every document.  All channels share one             *)
(* credential set.  A request sees the runtimes one at a time, so that     *)
(* what a reload replaces is replaced in one step here.                    *)
(*                                                                         *)
(* Of the event log (src/events.rs, modelled line by line in EventLog) it  *)
(* keeps what a replay makes of it: an append is a document in pieces and  *)
(* then a newline, and one that fails or is cut by a crash leaves any part *)
(* of that.  The log has the events of these commands only.                *)
(***************************************************************************)
EXTENDS Integers, FiniteSets, SequencesExt

CONSTANTS
  Model,      \* public models
  Channel,    \* channels: targets of routes
  Key,        \* secrets that can be imported
  Operator,   \* management clients; each issues one command
  MaxCrashes, \* bound: crashes of the process
  MaxTorn     \* bound: appends that leave an incomplete line

ASSUME ControlPlaneAssumption ==
  {MaxCrashes, MaxTorn} \subseteq Nat /\ "free" \notin Operator

VARIABLES
  store,      \* registry store: the version and the document of that version
  keys,       \* credentials in the credential store
  eventLog,   \* the event log, as a replay reads it
  lock,       \* who holds the registry mutation lock
  runtimes,   \* the runtimes installed since the start; the last one serves
  command,    \* the command of each operator
  crashes,    \* crashes so far
  committed,  \* history: the document of each version
  raced       \* history: what ran across something it does not wait for, and
              \* the channels whose events were not recorded as answered

vars == <<store, keys, eventLog, lock, runtimes, command, crashes, committed,
          raced>>

-----------------------------------------------------------------------------
(* A model without a route has no targets; a route without targets does    *)
(* not compile.                                                            *)
Document == [routes : [Model -> SUBSET Channel], resource : BOOLEAN]
Bootstrapped == [routes |-> [m \in Model |-> {}], resource |-> TRUE]

Runtime == [version : Nat, document : Document, disabled : SUBSET Channel,
            keys : SUBSET Key]
Serving == Len(runtimes)
Up == runtimes # <<>>

Command ==
       [kind : {"configure"}, resource : BOOLEAN]
  \cup [kind : {"route"}, model : Model, targets : SUBSET Channel]
  \cup [kind : {"sync"}, model : Model, channel : Channel]
  \cup [kind : {"reload"}]
  \cup [kind : {"disable", "enable"}, channel : Channel]
  \cup [kind : {"import"}, keys : (SUBSET Key) \ {{}}]

Batch == {"sync", "route"}     \* writes that expect a version
ChannelCommand == {"disable", "enable"}

NoCommand == [kind |-> "none"]
Quiet == [stage |-> "idle", command |-> NoCommand, attached |-> TRUE,
          outcome |-> "none",
          version |-> 0,           \* the version read, observed or expected
          document |-> Bootstrapped,   \* the document read
          audited |-> 0,           \* generation of its audit event
          wrote |-> 0,             \* version it committed
          runtime |-> 0,           \* the runtime whose pool it found
          keys |-> {},             \* credentials read, or accepted
          log |-> [c \in Channel |-> "none"]] \* channel events read

Stage == {"idle", "observing", "discovering", "waiting", "checking", "loading",
          "resolving", "auditing", "applying", "rebuilding", "installing",
          "gating", "appending", "marking", "persisting", "adding", "done",
          "lost"}

Kind(o) == command[o].command.kind
UnderWay(o) == command[o].stage \notin {"idle", "done", "lost"}

(* Stages in which a blocking thread writes: it goes on without a handler. *)
OnThread(o) == command[o].stage \in
  {"auditing", "applying", "appending", "marking", "persisting"}

Ended(o, outcome) ==
  [command EXCEPT ![o].stage = IF command[o].attached THEN "done" ELSE "lost",
                  ![o].outcome = outcome]

(* Mutant: the guard outlives the command. *)
ReleasedNever(o) == lock

Released(o) == IF lock = o THEN "free" ELSE lock

(* A command ends, and the guard it holds is dropped.                      *)
End(o, outcome) == command' = Ended(o, outcome) /\ lock' = Released(o)

To(o, stage) == command' = [command EXCEPT ![o].stage = stage]

-----------------------------------------------------------------------------
(* The event log.                                                          *)

(* What its parts are: said is the last event of each channel in the lines *)
(* that are complete, line how the last line is, last the event it has if  *)
(* it is a whole document without its newline.  No replay gets over a line *)
(* cut within a character, or one that does not parse and is not the last: *)
(* nothing else is kept of a log that has one.                             *)
Silent == [of |-> {}, says |-> "none"]   \* an audit event: of no channel
EmptyLog == [said |-> [c \in Channel |-> "none"], line |-> "ended",
             last |-> Silent, fatal |-> FALSE, torn |-> 0]
Unreadable == [EmptyLog EXCEPT !.fatal = TRUE]

PendingEvent(o) ==
  IF Kind(o) \in ChannelCommand
  THEN [of |-> {command[o].command.channel},
        says |-> IF Kind(o) = "disable" THEN "disabled" ELSE "enabled"]
  ELSE Silent

Overlaid(said, event) ==
  [c \in Channel |-> IF c \in event.of THEN event.says ELSE said[c]]

(* read_events_from_path takes a last line without its newline as well.    *)
Replayed == Overlaid(eventLog.said, eventLog.last)

(* How much of a line an append wrote before it failed: a part, a part cut *)
(* within a character, the whole document but no newline.                  *)
Fragment == {"part", "cut", "whole"}

(* record_audit_event_now: the file is opened for appending, and the line  *)
(* goes behind what is there; two documents on one line do not parse.      *)
Extended(event, extent) ==
  LET begun == eventLog.line = "begun"
  IN IF eventLog.fatal \/ extent = "cut" \/ eventLog.line = "spoilt"
     THEN Unreadable
     ELSE [said |-> IF extent = "all" /\ ~begun
                    THEN Overlaid(eventLog.said, event) ELSE eventLog.said,
           line |-> IF extent # "all" THEN "begun"
                    ELSE IF begun THEN "spoilt" ELSE "ended",
           last |-> IF extent = "whole" /\ ~begun THEN event ELSE Silent,
           fatal |-> FALSE,
           torn |-> eventLog.torn + IF extent = "all" THEN 0 ELSE 1]

(* The channels of which a replay now tells something else than what their *)
(* commands were answered: an event without its newline is read although   *)
(* its append failed, until the next append makes it unreadable; an event  *)
(* behind an incomplete line is not read although its append succeeded.    *)
Misreported(event, extent) ==
  LET begun == eventLog.line = "begun"
  IN eventLog.last.of \cup
     IF (extent = "all" /\ begun) \/ (extent = "whole" /\ ~begun) THEN event.of
     ELSE {}

AppendLine(event, extent) ==
  /\ extent \in Fragment => eventLog.torn < MaxTorn
  /\ eventLog' = Extended(event, extent)
  /\ raced' = [raced EXCEPT !.channels = @ \cup Misreported(event, extent)]

-----------------------------------------------------------------------------
(* Start and crash.                                                        *)

NothingRaced == [registry |-> FALSE, channels |-> {}, keys |-> FALSE]

Logged(said, event) == {c \in Channel : said[c] = event}

Init ==
  /\ store = [version |-> 1, document |-> Bootstrapped]
  /\ keys = {}
  /\ eventLog = EmptyLog
  /\ lock = "free"
  /\ runtimes = <<>>
  /\ command = [o \in Operator |-> Quiet]
  /\ crashes = 0
  /\ committed = <<Bootstrapped>>
  /\ raced = NothingRaced

(* load_or_bootstrap_startup_document, AppState::new: the stored document, *)
(* the stored credentials, and the channel events of the log; a log that   *)
(* cannot be replayed refuses the start.                                   *)
Start ==
  /\ ~Up /\ ~eventLog.fatal
  /\ runtimes' = <<[version |-> store.version, document |-> store.document,
                    disabled |-> Logged(Replayed, "disabled"),
                    keys |-> keys]>>
  /\ UNCHANGED <<store, keys, eventLog, lock, command, crashes, committed,
                 raced>>

(* An append under way leaves what it had written.                         *)
Crash ==
  /\ Up /\ crashes < MaxCrashes
  /\ crashes' = crashes + 1
  /\ runtimes' = <<>> /\ lock' = "free"
  /\ raced' = [NothingRaced EXCEPT !.registry = raced.registry]
  /\ command' = [o \in Operator |->
                   IF UnderWay(o) THEN [command[o] EXCEPT !.stage = "lost"]
                   ELSE command[o]]
  /\ \/ UNCHANGED eventLog
     \/ \E o \in Operator, extent \in Fragment :
          /\ command[o].stage \in {"auditing", "appending"}
          /\ eventLog.torn < MaxTorn
          /\ eventLog' = Extended(PendingEvent(o), extent)
  /\ UNCHANGED <<store, keys, committed>>

-----------------------------------------------------------------------------
(* A command arrives.  A reload names a version that was observed; channel *)
(* commands and imports find the pool of the runtime that serves.          *)

FirstStage(c) ==
  CASE c.kind = "configure" -> "waiting"
    [] c.kind \in Batch \cup {"reload"} -> "observing"
    [] c.kind \in ChannelCommand -> "gating"
    [] c.kind = "import" -> "auditing"

Submit(o) ==
  /\ Up /\ command[o].stage = "idle"
  /\ \E c \in Command :
       command' = [command EXCEPT ![o].command = c, ![o].stage = FirstStage(c),
         ![o].runtime = IF c.kind \in ChannelCommand \cup {"import"}
                        THEN Serving ELSE 0,
         ![o].keys = IF c.kind = "import" THEN runtimes[Serving].keys ELSE {}]
  /\ UNCHANGED <<store, keys, eventLog, lock, runtimes, crashes, committed,
                 raced>>

(* Mutant: single writes do not wait. *)
LockFreeForSingle(o) == lock = "free" \/ Kind(o) = "configure"

LockFree(o) == lock = "free"

(* The registry mutation lock.                                             *)
Lock(o) ==
  /\ command[o].stage = "waiting"
  /\ LockFree(o)
  /\ lock' = o
  /\ To(o, "checking")
  /\ UNCHANGED <<store, keys, eventLog, runtimes, crashes, committed, raced>>

(* The version that a synchronisation begins with, and that the operator   *)
(* of a route or of a reload was shown.                                    *)
Observe(o) ==
  /\ command[o].stage = "observing"
  /\ command' = [command EXCEPT ![o].version = store.version,
       ![o].stage = IF Kind(o) = "sync" THEN "loading" ELSE "waiting"]
  /\ UNCHANGED <<store, keys, eventLog, lock, runtimes, crashes, committed,
                 raced>>

-----------------------------------------------------------------------------
(* Under the lock: the current version is read, and compared with the one  *)
(* expected, but for a single write, which expects none.                   *)
Check(o) ==
  /\ command[o].stage = "checking"
  /\ CASE Kind(o) = "configure" ->
            /\ command' = [command EXCEPT ![o].version = store.version,
                                          ![o].stage = "auditing"]
            /\ UNCHANGED lock
       [] command[o].version # store.version -> End(o, "Conflict")
       [] OTHER -> To(o, "loading") /\ UNCHANGED lock
  /\ UNCHANGED <<store, keys, eventLog, runtimes, crashes, committed, raced>>

(* The route of a batch: its targets, or the targets read with the one     *)
(* discovered, appended or alone.                                          *)
RouteOf(o) ==
  LET c == command[o].command
  IN IF c.kind = "route" THEN c.targets
     ELSE command[o].document.routes[c.model] \cup {c.channel}

(* load_registry_for_validation: of a synchronisation the first time before *)
(* the channels are asked; of a batch, under the lock, for its preflight,   *)
(* which compiles the document with the routes in it.                      *)
Load(o) ==
  /\ command[o].stage = "loading"
  /\ IF lock = o /\ Kind(o) \in Batch
     THEN IF RouteOf(o) = {} THEN End(o, "Conflict")
          ELSE To(o, "auditing") /\ UNCHANGED lock
     ELSE /\ command' = [command EXCEPT ![o].document = store.document,
               ![o].stage = IF Kind(o) = "sync" THEN "discovering" ELSE "resolving"]
          /\ UNCHANGED lock
  /\ UNCHANGED <<store, keys, eventLog, runtimes, crashes, committed, raced>>

(* model_discovery_sync_apply: what the channel offers may be routed to it *)
(* already.                                                                *)
Discover(o) ==
  /\ command[o].stage = "discovering"
  /\ LET c == command[o].command
     IN IF c.channel \in command[o].document.routes[c.model] THEN End(o, "Ok")
        ELSE To(o, "waiting") /\ UNCHANGED lock
  /\ UNCHANGED <<store, keys, eventLog, runtimes, crashes, committed, raced>>

(* Resolving the document reads the credential set from the store.         *)
Resolve(o) ==
  /\ command[o].stage = "resolving"
  /\ command' = [command EXCEPT ![o].keys = keys, ![o].stage = "auditing"]
  /\ UNCHANGED <<store, keys, eventLog, lock, runtimes, crashes, committed,
                 raced>>

(* The audit event: of a staged write with the version it will have.       *)
Generation(o) == IF Kind(o) = "reload" THEN command[o].version
                 ELSE command[o].version + 1

NextStage(o) ==
  IF ~command[o].attached THEN "lost"
  ELSE CASE Kind(o) = "reload" -> "rebuilding"
         [] Kind(o) = "import" -> "persisting"
         [] OTHER -> "applying"

Audit(o) ==
  /\ command[o].stage = "auditing"
  /\ AppendLine(PendingEvent(o), "all")
  /\ command' =
       [command EXCEPT
          ![o].audited = IF Kind(o) = "import" THEN @ ELSE Generation(o),
          ![o].stage = NextStage(o)]
  /\ UNCHANGED <<store, keys, lock, runtimes, crashes, committed>>

(* Mutant: the batch is not compared with the version it was made for. *)
AcceptableUnversioned(o) == TRUE

(* Inside the transaction: a batch is for the version it was made from.    *)
Acceptable(o) == Kind(o) \in Batch => command[o].version = store.version

(* The rows a write changes, in the document of the time.                  *)
Written(o) ==
  LET c == command[o].command
  IN IF Kind(o) \in Batch
     THEN [store.document EXCEPT !.routes[c.model] = RouteOf(o)]
     ELSE [store.document EXCEPT !.resource = c.resource]

Apply(o) ==
  /\ command[o].stage = "applying"
  /\ IF Acceptable(o)
     THEN /\ store' = [version |-> store.version + 1, document |-> Written(o)]
          /\ committed' = Append(committed, Written(o))
          /\ command' = [Ended(o, "Ok") EXCEPT ![o].wrote = store.version + 1]
          /\ lock' = Released(o)
     ELSE End(o, "Conflict") /\ UNCHANGED <<store, committed>>
  /\ UNCHANGED <<keys, eventLog, runtimes, crashes, raced>>

-----------------------------------------------------------------------------
(* rebuild_runtime_from_resolved_config.                                   *)

(* The event log is read, which fails as in Start, pools are built ...     *)
Rebuild(o) ==
  /\ command[o].stage = "rebuilding" /\ ~eventLog.fatal
  /\ command' = [command EXCEPT ![o].log = Replayed, ![o].stage = "installing"]
  /\ UNCHANGED <<store, keys, eventLog, lock, runtimes, crashes, committed,
                 raced>>

(* Mutant: channel events are not replayed. *)
RebuiltHealthy(o) ==
  [version |-> command[o].version, document |-> command[o].document,
   disabled |-> {}, keys |-> command[o].keys]

(* Mutant: the credentials of the runtime are taken over. *)
RebuiltFromRuntime(o) ==
  [version |-> command[o].version, document |-> command[o].document,
   disabled |-> Logged(command[o].log, "disabled"), keys |-> runtimes[1].keys]

Rebuilt(o) ==
  [version |-> command[o].version, document |-> command[o].document,
   disabled |-> Logged(command[o].log, "disabled"), keys |-> command[o].keys]

(* ... and installed.                                                      *)
Install(o) ==
  /\ command[o].stage = "installing"
  /\ runtimes' = Append(runtimes, Rebuilt(o))
  /\ End(o, "Ok")
  /\ raced' =
       [raced EXCEPT
          !.channels =
            {c \in Channel :
               \/ command[o].log[c] # Replayed[c]
               \/ \E p \in Operator : /\ UnderWay(p)
                                      /\ Kind(p) \in ChannelCommand
                                      /\ command[p].command.channel = c},
          !.keys = \/ command[o].keys # keys
                   \/ \E p \in Operator : UnderWay(p) /\ Kind(p) = "import"]
  /\ UNCHANGED <<store, keys, eventLog, crashes, committed>>

-----------------------------------------------------------------------------
(* disable_channel_resource and enable_channel_resource.                   *)

(* The gates of the pool it found.                                         *)
GateFree(o) ==
  ~\E p \in Operator \ {o} :
     /\ Kind(p) \in ChannelCommand /\ command[p].attached
     /\ command[p].stage \in {"appending", "marking"}
     /\ command[p].runtime = command[o].runtime
     /\ command[p].command.channel = command[o].command.channel

Gate(o) ==
  /\ command[o].stage = "gating"
  /\ GateFree(o)
  /\ To(o, "appending")
  /\ UNCHANGED <<store, keys, eventLog, lock, runtimes, crashes, committed,
                 raced>>

AppendEvent(o) ==
  /\ command[o].stage = "appending"
  /\ AppendLine(PendingEvent(o), "all")
  /\ To(o, "marking")
  /\ UNCHANGED <<store, keys, lock, runtimes, crashes, committed>>

(* The health of the pool it found, which may not serve any more.          *)
Mark(o) ==
  /\ command[o].stage = "marking"
  /\ LET c == command[o].command.channel
         g == command[o].runtime
     IN runtimes' = [runtimes EXCEPT ![g].disabled =
                       IF Kind(o) = "disable" THEN @ \cup {c} ELSE @ \ {c}]
  /\ command' = Ended(o, "Ok")
  /\ UNCHANGED <<store, keys, eventLog, lock, crashes, committed, raced>>

-----------------------------------------------------------------------------
(* credential_import_response_for_set.                                     *)

(* append_credentials_excluding_secrets, one transaction: keys the store   *)
(* has, and those the pool had, are duplicates.                            *)
Accepted(o) == (command[o].command.keys \ keys) \ command[o].keys

Persist(o) ==
  /\ command[o].stage = "persisting"
  /\ keys' = keys \cup Accepted(o)
  /\ command' = IF command[o].attached
                THEN [command EXCEPT ![o].keys = Accepted(o),
                                     ![o].stage = "adding"]
                ELSE Ended(o, "Ok")
  /\ UNCHANGED <<store, eventLog, lock, runtimes, crashes, committed, raced>>

(* apply_credential_import_to_runtime: the pool it found.                  *)
Add(o) ==
  /\ command[o].stage = "adding"
  /\ runtimes' = [runtimes EXCEPT ![command[o].runtime].keys =
                    @ \cup command[o].keys]
  /\ command' = Ended(o, "Ok")
  /\ UNCHANGED <<store, keys, eventLog, lock, crashes, committed, raced>>

-----------------------------------------------------------------------------
(* Storage or a channel does not answer: nothing of the step happened.     *)
Fail(o) ==
  /\ command[o].stage \in {"checking", "loading", "discovering", "resolving",
                           "applying", "rebuilding", "persisting"}
  /\ End(o, "Failed")
  /\ UNCHANGED <<store, keys, eventLog, runtimes, crashes, committed, raced>>

(* An append fails, at its first write or at a later one.                  *)
FailAppend(o) ==
  /\ command[o].stage \in {"auditing", "appending"}
  /\ \/ UNCHANGED <<eventLog, raced>>
     \/ \E extent \in Fragment : AppendLine(PendingEvent(o), extent)
  /\ End(o, "Failed")
  /\ UNCHANGED <<store, keys, runtimes, crashes, committed>>

(* The management client goes away.  A rebuild does not yield to notice.   *)
Disconnect(o) ==
  /\ UnderWay(o) /\ command[o].attached
  /\ command[o].stage \notin {"rebuilding", "installing"}
  /\ command' = [command EXCEPT ![o].attached = FALSE,
                   ![o].stage = IF OnThread(o) THEN @ ELSE "lost"]
  /\ lock' = Released(o)
  /\ raced' =
       [registry |-> raced.registry \/ command[o].stage = "applying",
        channels |-> raced.channels \cup
          IF Kind(o) \in ChannelCommand /\ OnThread(o)
          THEN {command[o].command.channel} ELSE {},
        keys |-> raced.keys \/ command[o].stage \in {"persisting", "adding"}]
  /\ UNCHANGED <<store, keys, eventLog, runtimes, crashes, committed>>

Step(o) ==
  \/ Submit(o) \/ Observe(o) \/ Lock(o) \/ Check(o) \/ Load(o) \/ Discover(o)
  \/ Resolve(o) \/ Audit(o) \/ Apply(o) \/ Rebuild(o) \/ Install(o)
  \/ Gate(o) \/ AppendEvent(o) \/ Mark(o) \/ Persist(o) \/ Add(o)
  \/ Fail(o) \/ FailAppend(o) \/ Disconnect(o)

Next == Start \/ Crash \/ \E o \in Operator : Step(o)

Spec == Init /\ [][Next]_vars

-----------------------------------------------------------------------------
(* Properties.                                                             *)

Locked == {"checking", "loading", "resolving", "auditing", "applying",
           "rebuilding", "installing"}

(* Stores, runtimes and commands are well-formed, the pool that a command  *)
(* under way keeps is one that was installed since the start, and the      *)
(* mutation lock is with a handler that still runs, in the critical        *)
(* section of a reload or of a staged write (the guards of                 *)
(* management_registry.rs and apply_runtime_reload).                       *)
TypeOK ==
  /\ store.version \in Nat /\ store.document \in Document
  /\ keys \subseteq Key
  /\ Replayed \in [Channel -> {"none", "disabled", "enabled"}]
  /\ eventLog.line \in {"ended", "begun", "spoilt"}
  /\ \A g \in DOMAIN runtimes : runtimes[g] \in Runtime
  /\ \A o \in Operator :
       /\ command[o].stage \in Stage
       /\ command[o].document \in Document
       /\ command[o].keys \subseteq Key
       /\ UnderWay(o) /\ Kind(o) \in ChannelCommand \cup {"import"} =>
            command[o].runtime \in 1..Serving
  /\ lock # "free" =>
       /\ command[lock].attached /\ command[lock].stage \in Locked
       /\ Kind(lock) \in Batch \cup {"configure", "reload"}

RuntimeHasItsVersion ==
  \A g \in DOMAIN runtimes :
    runtimes[g].document = committed[runtimes[g].version]

AuditNamesVersion ==
  \A o \in Operator :
    command[o].wrote # 0 => command[o].audited = command[o].wrote

(* Versions are read in one step and used in another, and agree: a runtime *)
(* has the document of the version it is said to have, and the audit event *)
(* appended before a staged write names the version the write gets; unless *)
(* a write outlived its handler (apply_runtime_reload,                     *)
(* apply_audited_staged_registry_mutation and its batch).                  *)
VersionsAgree ==
  ~raced.registry => RuntimeHasItsVersion /\ AuditNamesVersion

(* A synchronisation takes no target from any route: what was written since *)
(* it read the routes stays, even by a write that outlived its handler     *)
(* (UpsertBatch with expected_registry_version).                           *)
SyncKeepsRoutes ==
  [][\A o \in Operator :
       Kind(o) = "sync" /\ command'[o].wrote # command[o].wrote =>
         \A m \in Model :
           store.document.routes[m] \subseteq store'.document.routes[m]]_vars

(* The runtime that serves has the channels disabled that a replay of the  *)
(* event log disables, as long as the log can be replayed, whatever else   *)
(* was reloaded, failed or restarted.                                      *)
(* Until the next reload or start this leaves out the channels of commands *)
(* that ran across a reload or outlived their handler, and of those that   *)
(* the log does not have as they were answered: that failed with the event *)
(* in the file but for its newline, or succeeded with the event on the     *)
(* line of an append that had failed (disable_channel_resource,            *)
(* record_audit_event_now, apply_persisted_channel_events).                *)
DisabledAsLogged ==
  Up /\ ~eventLog.fatal => \A c \in Channel \ raced.channels :
    \/ \E o \in Operator : /\ UnderWay(o) /\ Kind(o) \in ChannelCommand
                           /\ command[o].command.channel = c
    \/ c \in runtimes[Serving].disabled <=> Replayed[c] = "disabled"

(* The runtime that serves has the credentials of the store, but for an    *)
(* import that ran across a reload or lost its handler                     *)
(* (append_credentials_excluding_secrets,                                  *)
(* apply_credential_import_to_runtime).                                    *)
ImportedServed ==
  Up /\ ~raced.keys =>
    \/ \E o \in Operator : UnderWay(o) /\ Kind(o) = "import"
    \/ runtimes[Serving].keys = keys

(* As src/docs/architecture.md:357 has it, a runtime disable removes a    *)
(* running channel from selection: one that was acknowledged holds as long *)
(* as nobody enables the channel.                                          *)
AcknowledgedDisableServed ==
  \A o \in Operator :
    LET c == command[o].command.channel
    IN /\ Up /\ Kind(o) = "disable" /\ command[o].outcome = "Ok"
       /\ ~\E p \in Operator : Kind(p) = "enable"
       => c \in runtimes[Serving].disabled
=============================================================================
