---------------------------- MODULE ClientTokens ----------------------------
(***************************************************************************)
(* Client tokens: the table of src/client_token_store.rs, the registry in  *)
(* memory that src/auth.rs authenticates by, and the commands of           *)
(* src/management_client_tokens.rs that change both.                       *)
(*                                                                         *)
(* A command checks the registry, appends its audit event, changes the     *)
(* table on a blocking thread and puts the row it read back in the         *)
(* registry.  Nothing is held from one step to the next, the statements on *)
(* the table are not one transaction, and a client that goes away takes    *)
(* the handler with it but not the thread.                                 *)
(*                                                                         *)
(* The store is the writable one.  Names, ids and hashes are members of    *)
(* small sets; a scope is a value for each of its two columns.             *)
(***************************************************************************)
EXTENDS Integers, FiniteSets

CONSTANTS
  Token,      \* token ids; an id is derived from the name, and as unique
  Hash,       \* hashes of secrets
  Groups,     \* values of allowed_model_groups
  Channels,   \* values of allowed_channels
  Operator,   \* management clients; each issues one command
  Absent,     \* no row
  Unchanged,  \* a column a scope update leaves alone
  Bootstrap   \* the configured client_tokens of a start: a set of tables

Row == [hash : Hash, enabled : BOOLEAN, groups : Groups, channels : Channels]
Table == [Token -> Row \cup {Absent}]

Known(table) == {t \in Token : table[t] # Absent}

(* UNIQUE (token_hash) of the schema, and of a valid configuration.        *)
HashesDistinct(table) ==
  \A t, u \in Known(table) : table[t].hash = table[u].hash => t = u

ASSUME TokensAssumption ==
  /\ Absent \notin Row /\ Unchanged \notin Groups \cup Channels
  /\ Bootstrap \subseteq Table
  /\ \A table \in Bootstrap : HashesDistinct(table)

VARIABLES
  process,   \* whether the service runs
  store,     \* the table client_tokens
  runtime,   \* AppState::client_tokens
  command,   \* the command of each operator
  disturbed, \* history: tokens a command was disturbed on
  unread     \* history: tokens with a committed update nobody read back

vars == <<process, store, runtime, command, disturbed, unread>>

-----------------------------------------------------------------------------
Stage == {"idle", "auditing", "storing", "updating", "reading", "replacing",
          "done", "lost"}

Command ==
       [kind : {"create"}, token : Token, row : Row]
  \cup [kind : {"set_enabled"}, token : Token, enabled : BOOLEAN]
  \cup [kind : {"update_scope"}, token : Token,
        groups : Groups \cup {Unchanged}, channels : Channels \cup {Unchanged}]

NoCommand == [kind |-> "none"]
Quiet == [stage |-> "idle", command |-> NoCommand, row |-> Absent,
          attached |-> TRUE, outcome |-> "none"]

UnderWay(o) == command[o].stage \notin {"idle", "done", "lost"}
Issued(o) == command[o].stage # "idle"
TokenOf(o) == command[o].command.token
OnThread(o) == command[o].stage \in {"storing", "updating", "reading"}

To(o, stage) == [command EXCEPT ![o].stage = stage]
Answered(o, outcome) ==
  [command EXCEPT ![o].stage = IF command[o].attached THEN "done" ELSE "lost",
                  ![o].outcome = outcome]

(* The thread has its row; without a handler nobody takes it.              *)
Stored(o, row) ==
  [command EXCEPT
     ![o].stage = IF command[o].attached THEN "replacing" ELSE "lost",
     ![o].row = row]

Init ==
  /\ process = "down"
  /\ store = [t \in Token |-> Absent]
  /\ runtime = [t \in Token |-> Absent]
  /\ command = [o \in Operator |-> Quiet]
  /\ disturbed = {} /\ unread = {}

(* AppState::new and load_or_bootstrap: the configured tokens fill an      *)
(* empty table, and whatever the table has is served.                      *)
Start ==
  /\ process = "down"
  /\ process' = "up"
  /\ \E configured \in Bootstrap :
       store' = IF Known(store) = {} THEN configured ELSE store
  /\ runtime' = store'
  /\ UNCHANGED <<command, disturbed, unread>>

(* Handlers and threads are gone, whatever they had committed stays.       *)
Crash ==
  /\ process = "up"
  /\ process' = "down"
  /\ runtime' = [t \in Token |-> Absent]
  /\ command' = [o \in Operator |->
                   IF UnderWay(o) THEN [command[o] EXCEPT !.stage = "lost"]
                   ELSE command[o]]
  /\ disturbed' = {} /\ unread' = {}
  /\ UNCHANGED store

-----------------------------------------------------------------------------
(* Before the store: the checks on the registry, and the audit event.      *)

(* Mutant: only a creation is checked. *)
AcceptableUnchecked(c) ==
  c.kind = "create" => /\ c.token \notin Known(runtime)
                       /\ \A t \in Known(runtime) : runtime[t].hash # c.row.hash

Acceptable(c) ==
  CASE c.kind = "create" ->
         /\ c.token \notin Known(runtime)
         /\ \A t \in Known(runtime) : runtime[t].hash # c.row.hash
    [] c.kind = "set_enabled" -> c.token \in Known(runtime)
    [] c.kind = "update_scope" ->
         /\ c.token \in Known(runtime)
         /\ c.groups # Unchanged \/ c.channels # Unchanged

Submit(o) ==
  /\ process = "up" /\ command[o].stage = "idle"
  /\ \E c \in Command :
       /\ c.kind = "create" => c.row.enabled
       /\ command' = [command EXCEPT ![o].command = c,
            ![o].stage = IF Acceptable(c) THEN "auditing" ELSE "done",
            ![o].outcome = IF Acceptable(c) THEN "none" ELSE "Rejected"]
       /\ disturbed' = IF \E p \in Operator : UnderWay(p) /\ TokenOf(p) = c.token
                       THEN disturbed \cup {c.token} ELSE disturbed
  /\ UNCHANGED <<process, store, runtime, unread>>

Audit(o) ==
  /\ command[o].stage = "auditing"
  /\ \/ command' = To(o, "storing")
     \/ command' = Answered(o, "EventAppendFailed")
  /\ UNCHANGED <<process, store, runtime, disturbed, unread>>

-----------------------------------------------------------------------------
(* On the thread: one action per statement.                                *)

(* Mutant: without the constraints of the schema. *)
InsertUnchecked(o) ==
  LET c == command[o].command
  IN /\ store' = [store EXCEPT ![c.token] = c.row]
     /\ command' = Stored(o, c.row)

(* The constraints of the schema refuse a name or a hash that is taken.    *)
Insert(o) ==
  LET c == command[o].command
      after == [store EXCEPT ![c.token] = c.row]
  IN IF c.token \notin Known(store) /\ HashesDistinct(after)
     THEN /\ store' = after
          /\ command' = Stored(o, c.row)
     ELSE /\ command' = Answered(o, "Duplicate")
          /\ UNCHANGED store

CreateToken(o) ==
  /\ command[o].stage = "storing" /\ command[o].command.kind = "create"
  /\ Insert(o)
  /\ UNCHANGED <<process, runtime, disturbed, unread>>

(* Mutant: the row of the registry is written back with the flag changed. *)
EnabledRowFromRegistry(o) ==
  [runtime[TokenOf(o)] EXCEPT !.enabled = command[o].command.enabled]

(* The row after UPDATE ... SET enabled: its other columns are kept.       *)
EnabledRow(o) ==
  [store[TokenOf(o)] EXCEPT !.enabled = command[o].command.enabled]

SetEnabled(o) ==
  /\ command[o].stage = "storing" /\ command[o].command.kind = "set_enabled"
  /\ IF TokenOf(o) \in Known(store)
     THEN /\ store' = [store EXCEPT ![TokenOf(o)] = EnabledRow(o)]
          /\ command' = To(o, "reading")
     ELSE command' = Answered(o, "NotFound") /\ UNCHANGED store
  /\ UNCHANGED <<process, runtime, disturbed, unread>>

(* update_scope reads the row and puts the requested columns in it ...     *)
ReadScope(o) ==
  /\ command[o].stage = "storing" /\ command[o].command.kind = "update_scope"
  /\ LET c == command[o].command
         row == store[c.token]
     IN command' =
          IF row = Absent THEN Answered(o, "NotFound")
          ELSE [command EXCEPT ![o].stage = "updating",
            ![o].row = [row EXCEPT
               !.groups = IF c.groups = Unchanged THEN @ ELSE c.groups,
               !.channels = IF c.channels = Unchanged THEN @ ELSE c.channels]]
  /\ UNCHANGED <<process, store, runtime, disturbed, unread>>

(* ... and writes both columns of the scope.                               *)
ScopedRow(o) ==
  [store[TokenOf(o)] EXCEPT !.groups = command[o].row.groups,
                            !.channels = command[o].row.channels]

UpdateScope(o) ==
  /\ command[o].stage = "updating"
  /\ store' = [store EXCEPT ![TokenOf(o)] = ScopedRow(o)]
  /\ command' = To(o, "reading")
  /\ UNCHANGED <<process, runtime, disturbed, unread>>

(* load_token_by_id, after either update.                                  *)
ReadBack(o) ==
  /\ command[o].stage = "reading"
  /\ command' = Stored(o, store[TokenOf(o)])
  /\ UNCHANGED <<process, store, runtime, disturbed, unread>>

(* A statement fails; those before it are committed.  If it is the one     *)
(* that reads the row back, the update stays in the table alone.           *)
FailStatement(o) ==
  /\ OnThread(o)
  /\ command' = Answered(o, "Persistence")
  /\ unread' = IF command[o].stage = "reading"
               THEN unread \cup {TokenOf(o)} ELSE unread
  /\ UNCHANGED <<process, store, runtime, disturbed>>

-----------------------------------------------------------------------------
(* Back in the handler.                                                    *)

(* Mutant: a token the registry knows already is left as it is. *)
ReplaceRuntimeClientTokenNew(o) ==
  IF TokenOf(o) \in Known(runtime) THEN runtime
  ELSE [runtime EXCEPT ![TokenOf(o)] = command[o].row]

ReplaceRuntimeClientToken(o) == [runtime EXCEPT ![TokenOf(o)] = command[o].row]

Replace(o) ==
  /\ command[o].stage = "replacing"
  /\ runtime' = ReplaceRuntimeClientToken(o)
  /\ command' = Answered(o, "Ok")
  /\ unread' = unread \ {TokenOf(o)}
  /\ UNCHANGED <<process, store, disturbed>>

(* The management client goes away, and its handler is dropped.            *)
Disconnect(o) ==
  /\ UnderWay(o) /\ command[o].attached
  /\ command' = [command EXCEPT ![o].attached = FALSE,
                   ![o].stage = IF OnThread(o) THEN @ ELSE "lost"]
  /\ disturbed' = IF command[o].stage = "auditing" THEN disturbed
                  ELSE disturbed \cup {TokenOf(o)}
  /\ UNCHANGED <<process, store, runtime, unread>>

Step(o) ==
  \/ Submit(o) \/ Audit(o)
  \/ CreateToken(o) \/ SetEnabled(o) \/ ReadScope(o) \/ UpdateScope(o)
  \/ ReadBack(o) \/ FailStatement(o) \/ Replace(o) \/ Disconnect(o)

Next == Start \/ Crash \/ \E o \in Operator : Step(o)

Spec == Init /\ [][Next]_vars

-----------------------------------------------------------------------------
(* authorize_client: the enabled tokens a secret authenticates.            *)
Authorized(hash) ==
  {t \in Known(runtime) : runtime[t].enabled /\ runtime[t].hash = hash}

-----------------------------------------------------------------------------
(* Properties.                                                             *)

(* Tables, registry and commands are well-formed, and a command that       *)
(* works on a row works on one the table has.                              *)
TypeOK ==
  /\ process \in {"up", "down"}
  /\ store \in Table /\ runtime \in Table
  /\ \A o \in Operator :
       /\ command[o].stage \in Stage
       /\ command[o].row \in Row \cup {Absent}
       /\ command[o].attached \in BOOLEAN
       /\ Issued(o) => command[o].command \in Command
       /\ OnThread(o) /\ command[o].command.kind # "create"
            => TokenOf(o) \in Known(store)
  /\ disturbed \subseteq Token /\ unread \subseteq Token

(* A secret authenticates at most one client, and the identity it has in   *)
(* the registry is the one in the table: creations of one name or one      *)
(* secret that race past the checks on the registry meet in the schema     *)
(* (create_client_token_response_for_state, UNIQUE of the table).          *)
IdentitiesAgree ==
  /\ HashesDistinct(store)
  /\ \A t \in Known(runtime) :
       t \in Known(store) /\ runtime[t].hash = store[t].hash
  /\ \A hash \in Hash : Cardinality(Authorized(hash)) =< 1

(* A token whose commands ran one at a time, to their end, is served as    *)
(* the table has it, wherever a crash fell and whichever of them failed    *)
(* before its update (replace_runtime_client_token, load_or_bootstrap).    *)
(* One failure does not keep this, and its tokens are unread: the update   *)
(* is committed and the SELECT behind it fails (set_enabled and            *)
(* update_scope of the store), so the command is answered as failed, the   *)
(* table has the change and the registry has not, until a later command    *)
(* on the token succeeds or the service starts again.                      *)
UndisturbedTokenServedAsStored ==
  process = "up" =>
    \A t \in Token \ (disturbed \cup unread) :
      (\A o \in Operator : UnderWay(o) => TokenOf(o) # t)
        => runtime[t] = store[t]

(* The columns of an acknowledged scope update stay in the table unless    *)
(* another scope update was issued, whatever is enabled or disabled in     *)
(* between (the columns of the UPDATE in set_enabled).                     *)
AcknowledgedScopeStored ==
  \A o \in Operator :
    LET c == command[o].command
        alone == \A p \in Operator \ {o} :
                   command[p].command.kind = "update_scope" => TokenOf(p) # c.token
    IN c.kind = "update_scope" /\ command[o].outcome = "Ok" /\ alone =>
         /\ c.groups \in {Unchanged, store[c.token].groups}
         /\ c.channels \in {Unchanged, store[c.token].channels}

(* As src/docs/architecture.md:206 has it, a command persists first and    *)
(* then updates the registry: a token whose disable was acknowledged       *)
(* authenticates nobody as long as nobody enables it.                      *)
AcknowledgedDisableHolds ==
  \A o \in Operator :
    LET c == command[o].command
        nobodyEnables == \A p \in Operator :
                           command[p].command.kind = "set_enabled" =>
                             ~command[p].command.enabled
    IN c.kind = "set_enabled" /\ command[o].outcome = "Ok" /\ nobodyEnables =>
         c.token \notin UNION {Authorized(hash) : hash \in Hash}
=============================================================================
