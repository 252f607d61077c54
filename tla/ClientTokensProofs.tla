------------------------- MODULE ClientTokensProofs -------------------------
(***************************************************************************)
(* Proofs about ClientTokens, for every set of tokens, secrets, scopes and *)
(* management clients, and every configured table.                         *)
(*                                                                         *)
(* Identities are safe because the hash of a token in the table never      *)
(* changes: a row is inserted once, under the constraints of the schema,   *)
(* and the updates rewrite its other columns.  So a row that a command     *)
(* read, however long ago, carries the hash the table still has, and       *)
(* putting it in the registry late can make the flag and the scope stale,  *)
(* never the identity.  Inv says this of the registry and of each command. *)
(*                                                                         *)
(* What a token is besides its identity needs more care: UInv follows the  *)
(* one command on an undisturbed token from its first statement to the     *)
(* registry, SInv the columns of a scope from the read to the answer.      *)
(***************************************************************************)
EXTENDS ClientTokens, FiniteSetTheorems, TLAPS

-----------------------------------------------------------------------------
(* The inductive invariant.                                                 *)

Outcome == {"none", "Rejected", "EventAppendFailed", "Duplicate", "NotFound",
            "Persistence", "Ok"}

State == [stage : Stage, command : Command \cup {NoCommand},
          row : Row \cup {Absent}, attached : BOOLEAN, outcome : Outcome]

Shape ==
  /\ process \in {"up", "down"}
  /\ store \in Table /\ runtime \in Table
  /\ command \in [Operator -> State]
  /\ disturbed \subseteq Token /\ unread \subseteq Token

(* Token t of table is a token of the store, with the same hash.            *)
SameIdentity(old, new, t) ==
  old[t] # Absent => new[t] # Absent /\ new[t].hash = old[t].hash

(* What a command under way in state c has established, by its stage.       *)
Works(c, table) ==
  /\ c.stage # "idle" => c.command \in Command
  /\ c.stage \in {"auditing", "storing"} /\ c.command.kind # "create"
       => table[c.command.token] # Absent
  /\ c.stage \in {"updating", "reading", "replacing"}
       => table[c.command.token] # Absent
  /\ c.stage = "updating" => c.row # Absent
  /\ c.stage = "replacing"
       => c.row # Absent /\ c.row.hash = table[c.command.token].hash

Inv ==
  /\ Shape
  /\ HashesDistinct(store)
  /\ \A t \in Token : SameIdentity(runtime, store, t)
  /\ \A o \in Operator : Works(command[o], store)

-----------------------------------------------------------------------------
(* What the invariant gives.                                                *)

(* At most one enabled token has a given hash.                              *)
LEMMA OneIdentity ==
  ASSUME Inv, NEW hash \in Hash
  PROVE  Cardinality(Authorized(hash)) =< 1
<1>1. \A t, u \in Authorized(hash) : t = u
  <2> SUFFICES ASSUME NEW t \in Authorized(hash), NEW u \in Authorized(hash)
               PROVE  t = u
    OBVIOUS
  <2>1. /\ t \in Token /\ runtime[t] # Absent /\ runtime[t].hash = hash
        /\ u \in Token /\ runtime[u] # Absent /\ runtime[u].hash = hash
    BY DEF Authorized, Known
  <2>2. /\ t \in Known(store) /\ u \in Known(store)
        /\ store[t].hash = store[u].hash
    BY <2>1 DEF Inv, SameIdentity, Known
  <2> QED
    BY <2>2 DEF Inv, HashesDistinct
<1>2. CASE Authorized(hash) = {}
  BY <1>2, FS_EmptySet
<1>3. CASE Authorized(hash) # {}
  <2>1. PICK t : Authorized(hash) = {t}
    BY <1>1, <1>3
  <2> QED
    BY <2>1, FS_Singleton
<1> QED
  BY <1>2, <1>3

(* The invariant implies the properties TLC checks.                         *)
LEMMA InvImplies ==
  ASSUME Inv
  PROVE  TypeOK /\ IdentitiesAgree
<1>1. TypeOK
  <2>1. ASSUME NEW o \in Operator
        PROVE  /\ command[o].stage \in Stage
               /\ command[o].row \in Row \cup {Absent}
               /\ command[o].attached \in BOOLEAN
               /\ Issued(o) => command[o].command \in Command
    BY DEF Inv, Shape, State, Works, Issued
  <2>2. ASSUME NEW o \in Operator,
               OnThread(o), command[o].command.kind # "create"
        PROVE  TokenOf(o) \in Known(store)
    <3>1. command[o].command \in Command
      BY <2>1, <2>2 DEF OnThread, Issued
    <3>2. TokenOf(o) \in Token
      BY <3>1 DEF TokenOf, Command
    <3>3. store[TokenOf(o)] # Absent
      BY <2>2 DEF Inv, Works, OnThread, TokenOf
    <3> QED
      BY <3>2, <3>3 DEF Known
  <2> QED
    BY <2>1, <2>2 DEF TypeOK, Inv, Shape
<1>2. IdentitiesAgree
  BY OneIdentity DEF IdentitiesAgree, Inv, SameIdentity, Known
<1> QED
  BY <1>1, <1>2

-----------------------------------------------------------------------------
(* The steps.                                                               *)

(* A change of the table that keeps every identity keeps what the other    *)
(* commands have established.                                              *)
LEMMA OthersWork ==
  ASSUME NEW c \in State, NEW old \in Table, NEW new \in Table,
         Works(c, old), \A t \in Token : SameIdentity(old, new, t)
  PROVE  Works(c, new)
<1>1. CASE c.stage = "idle"
  BY <1>1 DEF Works
<1>2. CASE c.stage # "idle"
  <2>1. c.command.token \in Token
    BY <1>2 DEF Works, Command
  <2> QED
    BY <2>1 DEF Works, SameIdentity
<1> QED
  BY <1>1, <1>2

(* A command that changes neither table nor registry, and goes on with     *)
(* what it has to have established.                                        *)
LEMMA CommandStep ==
  ASSUME Inv, NEW o \in Operator, NEW c \in State, Works(c, store),
         command' = [command EXCEPT ![o] = c],
         UNCHANGED <<process, store, runtime>>,
         disturbed' \subseteq Token, unread' \subseteq Token
  PROVE  Inv'
<1>1. Shape'
  BY DEF Inv, Shape
<1>2. \A p \in Operator : Works(command[p], store)'
  BY DEF Inv, Shape
<1> QED
  BY <1>1, <1>2 DEF Inv, SameIdentity, HashesDistinct, Known

(* A command that changes the table keeps every identity in it.            *)
LEMMA TableStep ==
  ASSUME Inv, NEW o \in Operator, NEW c \in State, Works(c, store'),
         command' = [command EXCEPT ![o] = c],
         store' \in Table, HashesDistinct(store'),
         \A t \in Token : SameIdentity(store, store', t),
         UNCHANGED <<process, runtime, disturbed, unread>>
  PROVE  Inv'
<1>1. Shape'
  BY DEF Inv, Shape
<1>2. \A p \in Operator : Works(command[p], store)'
  BY OthersWork DEF Inv, Shape
<1>3. \A t \in Token : SameIdentity(runtime, store, t)'
  BY DEF Inv, SameIdentity
<1> QED
  BY <1>1, <1>2, <1>3 DEF Inv, HashesDistinct, Known

(* An update of a row that keeps its hash keeps every identity.             *)
LEMMA UpdateKeepsIdentities ==
  ASSUME Inv, NEW token \in Token, store[token] # Absent,
         NEW row \in Row, row.hash = store[token].hash,
         store' = [store EXCEPT ![token] = row]
  PROVE  /\ store' \in Table /\ HashesDistinct(store')
         /\ \A t \in Token : SameIdentity(store, store', t)
<1>1. store' \in Table
  BY DEF Inv, Shape, Table
<1>2. \A t \in Token : /\ store'[t] # Absent <=> store[t] # Absent
                       /\ store[t] # Absent => store'[t].hash = store[t].hash
  BY TokensAssumption DEF Inv, Shape, Table
<1>3. HashesDistinct(store')
  BY <1>2 DEF Inv, HashesDistinct, Known
<1> QED
  BY <1>1, <1>2, <1>3 DEF SameIdentity

(* Nothing is known and nothing is under way before the first start.        *)
LEMMA InitInv ==
  ASSUME Init
  PROVE  Inv
<1>1. Quiet \in State
  BY DEF Quiet, State, Stage, Outcome, NoCommand
<1>2. Shape
  BY <1>1 DEF Init, Shape, Table
<1>3. \A o \in Operator : Works(command[o], store)
  BY DEF Init, Works, Quiet
<1> QED
  BY <1>2, <1>3 DEF Init, Inv, HashesDistinct, Known, SameIdentity

(* A start serves the table, which is the configured one if it was empty.   *)
LEMMA StartInv ==
  ASSUME Inv, Start
  PROVE  Inv'
<1>1. /\ store' \in Table /\ HashesDistinct(store')
      /\ \A t \in Token : SameIdentity(store, store', t)
  BY TokensAssumption DEF Start, Inv, Shape, SameIdentity, Known
<1>2. \A o \in Operator : Works(command[o], store')
  BY <1>1, OthersWork DEF Inv, Shape
<1>3. Shape'
  BY <1>1 DEF Start, Inv, Shape
<1> QED
  BY <1>1, <1>2, <1>3 DEF Start, Inv, HashesDistinct, Known, SameIdentity

(* A crash leaves the table, and commands that claim nothing any more.      *)
LEMMA CrashInv ==
  ASSUME Inv, Crash
  PROVE  Inv'
<1>1. ASSUME NEW o \in Operator
      PROVE  command'[o] \in State /\ Works(command'[o], store')
  <2>1. CASE UnderWay(o)
    <3>1. command'[o] = [command[o] EXCEPT !.stage = "lost"]
      BY <2>1 DEF Crash
    <3>2. command[o].stage # "idle"
      BY <2>1 DEF UnderWay
    <3> QED
      BY <3>1, <3>2 DEF Inv, Shape, State, Stage, Works
  <2>2. CASE ~UnderWay(o)
    BY <2>2 DEF Crash, Inv, Shape
  <2> QED
    BY <2>1, <2>2
<1>2. Shape'
  BY <1>1 DEF Crash, Inv, Shape, Table
<1>3. \A t \in Token : SameIdentity(runtime', store', t)
  BY DEF Crash, SameIdentity
<1> QED
  BY <1>1, <1>2, <1>3 DEF Crash, Inv, HashesDistinct, Known

(* A submission that is acceptable concerns a token the table has.          *)
LEMMA SubmitInv ==
  ASSUME Inv, NEW o \in Operator, Submit(o)
  PROVE  Inv'
<1>1. PICK c \in Command :
        command' = [command EXCEPT ![o].command = c,
          ![o].stage = IF Acceptable(c) THEN "auditing" ELSE "done",
          ![o].outcome = IF Acceptable(c) THEN "none" ELSE "Rejected"]
  BY DEF Submit
<1> DEFINE next == [command[o] EXCEPT !.command = c,
          !.stage = IF Acceptable(c) THEN "auditing" ELSE "done",
          !.outcome = IF Acceptable(c) THEN "none" ELSE "Rejected"]
<1>2. command' = [command EXCEPT ![o] = next]
  BY <1>1 DEF Inv, Shape
<1>3. next \in State
  BY DEF Inv, Shape, State, Stage, Outcome
<1>4. c.token \in Token
  BY DEF Command
<1>5. Acceptable(c) /\ c.kind # "create" => store[c.token] # Absent
  <2>1. Acceptable(c) /\ c.kind # "create" => c.token \in Known(runtime)
    BY DEF Acceptable, Command
  <2> QED
    BY <1>4, <2>1 DEF Inv, SameIdentity, Known
<1>6. Works(next, store)
  BY <1>5 DEF Works, Inv, Shape, State
<1>7. disturbed' \subseteq Token /\ unread' \subseteq Token
  <2>1. PICK d \in Command : disturbed' \subseteq disturbed \cup {d.token}
    BY DEF Submit
  <2>2. d.token \in Token
    BY DEF Command
  <2> QED
    BY <2>1, <2>2 DEF Submit, Inv, Shape
<1> HIDE DEF next
<1> QED
  BY <1>2, <1>3, <1>6, <1>7, CommandStep DEF Submit

(* An answer ends the command, whatever it had established.                 *)
LEMMA AnswerEnds ==
  ASSUME Inv, NEW o \in Operator, command[o].stage # "idle",
         NEW outcome \in Outcome, NEW table
  PROVE  \E c \in State : /\ Answered(o, outcome) = [command EXCEPT ![o] = c]
                          /\ Works(c, table)
<1> DEFINE c == [command[o] EXCEPT
              !.stage = IF command[o].attached THEN "done" ELSE "lost",
              !.outcome = outcome]
<1>1. Answered(o, outcome) = [command EXCEPT ![o] = c]
  BY DEF Answered, Inv, Shape
<1>2. c \in State
  BY DEF Inv, Shape, State, Stage
<1>3. Works(c, table)
  BY DEF Inv, Shape, State, Works
<1> QED
  BY <1>1, <1>2, <1>3

(* A command that read its row back has the identity of the table.          *)
LEMMA StoredWorks ==
  ASSUME Inv, NEW o \in Operator, command[o].stage # "idle",
         NEW row \in Row, NEW table, table[TokenOf(o)] # Absent,
         row.hash = table[TokenOf(o)].hash
  PROVE  \E c \in State : /\ Stored(o, row) = [command EXCEPT ![o] = c]
                          /\ Works(c, table)
<1> DEFINE c == [command[o] EXCEPT
              !.stage = IF command[o].attached THEN "replacing" ELSE "lost",
              !.row = row]
<1>1. Stored(o, row) = [command EXCEPT ![o] = c]
  BY DEF Stored, Inv, Shape
<1>2. c \in State
  BY DEF Inv, Shape, State, Stage
<1>3. Works(c, table)
  BY TokensAssumption DEF Inv, Shape, State, Works, TokenOf
<1> QED
  BY <1>1, <1>2, <1>3

(* The audit event changes nothing else.                                    *)
LEMMA AuditInv ==
  ASSUME Inv, NEW o \in Operator, Audit(o)
  PROVE  Inv'
<1>1. CASE command' = To(o, "storing")
  <2> DEFINE c == [command[o] EXCEPT !.stage = "storing"]
  <2>1. command' = [command EXCEPT ![o] = c]
    BY <1>1 DEF To, Inv, Shape
  <2>2. c \in State
    BY DEF Inv, Shape, State, Stage
  <2>3. Works(c, store)
    BY DEF Audit, Inv, Shape, State, Works
  <2> HIDE DEF c
  <2> QED
    BY <2>1, <2>2, <2>3, CommandStep DEF Audit, Inv, Shape
<1>2. CASE command' = Answered(o, "EventAppendFailed")
  BY <1>2, AnswerEnds, CommandStep DEF Audit, Outcome, Inv, Shape
<1> QED
  BY <1>1, <1>2 DEF Audit

-----------------------------------------------------------------------------
(* The statements on the thread.                                            *)

(* A command past its submission names a token.                             *)
LEMMA NamesToken ==
  ASSUME Inv, NEW o \in Operator, command[o].stage # "idle"
  PROVE  command[o].command \in Command /\ TokenOf(o) \in Token
<1>1. command[o].command \in Command
  BY DEF Inv, Works
<1> QED
  BY <1>1 DEF Command, TokenOf

(* A creation adds an identity that the constraints of the schema allow.    *)
LEMMA CreateTokenInv ==
  ASSUME Inv, NEW o \in Operator, CreateToken(o)
  PROVE  Inv'
<1> DEFINE row == command[o].command.row
           token == TokenOf(o)
           after == [store EXCEPT ![token] = row]
<1>1. /\ command[o].stage # "idle" /\ token \in Token
      /\ row \in Row /\ row # Absent
  <2>1. command[o].command \in Command /\ command[o].command.kind = "create"
    BY NamesToken DEF CreateToken
  <2>2. row \in Row
    BY <2>1 DEF Command
  <2> QED
    BY <2>2, NamesToken, TokensAssumption DEF CreateToken
<1>2. CASE token \notin Known(store) /\ HashesDistinct(after)
  <2>1. store' = after /\ command' = Stored(o, row)
    BY <1>2 DEF CreateToken, Insert, TokenOf
  <2>2. store' \in Table /\ HashesDistinct(store')
    BY <1>1, <1>2, <2>1 DEF Inv, Shape, Table
  <2>3. store'[token] = row
    BY <1>1, <2>1 DEF Inv, Shape, Table
  <2>4. \A t \in Token : SameIdentity(store, store', t)
    BY <1>2, <2>1, <1>1 DEF Inv, Shape, Table, SameIdentity, Known
  <2>5. PICK c \in State : command' = [command EXCEPT ![o] = c] /\ Works(c, store')
    BY <1>1, <2>1, <2>3, StoredWorks
  <2> QED
    BY <2>2, <2>4, <2>5, TableStep DEF CreateToken
<1>3. CASE ~(token \notin Known(store) /\ HashesDistinct(after))
  <2>1. command' = Answered(o, "Duplicate") /\ store' = store
    BY <1>3 DEF CreateToken, Insert, TokenOf
  <2> QED
    BY <1>1, <2>1, AnswerEnds, CommandStep DEF CreateToken, Outcome, Inv, Shape
<1> QED
  BY <1>2, <1>3

(* A command that goes on to read its row back.                             *)
LEMMA ToReadingWorks ==
  ASSUME Inv, NEW o \in Operator, command[o].stage # "idle",
         NEW table, table[TokenOf(o)] # Absent
  PROVE  \E c \in State : /\ To(o, "reading") = [command EXCEPT ![o] = c]
                          /\ Works(c, table)
<1> DEFINE c == [command[o] EXCEPT !.stage = "reading"]
<1>1. To(o, "reading") = [command EXCEPT ![o] = c]
  BY DEF To, Inv, Shape
<1>2. c \in State
  BY DEF Inv, Shape, State, Stage
<1>3. Works(c, table)
  BY DEF Inv, Shape, State, Works, TokenOf
<1> QED
  BY <1>1, <1>2, <1>3

(* An update that keeps the hash of a row the table has.                    *)
LEMMA UpdateStep ==
  ASSUME Inv, NEW o \in Operator, command[o].stage # "idle",
         store[TokenOf(o)] # Absent,
         NEW row \in Row, row.hash = store[TokenOf(o)].hash,
         store' = [store EXCEPT ![TokenOf(o)] = row],
         command' = To(o, "reading"),
         UNCHANGED <<process, runtime, disturbed, unread>>
  PROVE  Inv'
<1>1. TokenOf(o) \in Token
  BY NamesToken
<1>2. /\ store' \in Table /\ HashesDistinct(store')
      /\ \A t \in Token : SameIdentity(store, store', t)
  BY <1>1, UpdateKeepsIdentities
<1>3. store'[TokenOf(o)] # Absent
  BY <1>1, <1>2 DEF SameIdentity
<1>4. PICK c \in State : command' = [command EXCEPT ![o] = c] /\ Works(c, store')
  BY <1>3, ToReadingWorks
<1> QED
  BY <1>2, <1>4, TableStep

(* The flag is not part of the identity.                                    *)
LEMMA SetEnabledInv ==
  ASSUME Inv, NEW o \in Operator, SetEnabled(o)
  PROVE  Inv'
<1>1. /\ command[o].stage # "idle" /\ TokenOf(o) \in Token
      /\ command[o].command.enabled \in BOOLEAN
  <2>1. command[o].command \in Command /\ command[o].command.kind = "set_enabled"
    BY NamesToken DEF SetEnabled
  <2> QED
    BY <2>1, NamesToken DEF SetEnabled, Command
<1>2. CASE TokenOf(o) \in Known(store)
  <2>1. store[TokenOf(o)] \in Row /\ store[TokenOf(o)] # Absent
    BY <1>1, <1>2 DEF Inv, Shape, Table, Known
  <2>2. /\ EnabledRow(o) \in Row
        /\ EnabledRow(o).hash = store[TokenOf(o)].hash
    BY <1>1, <2>1 DEF EnabledRow, Row
  <2> QED
    BY <1>1, <1>2, <2>1, <2>2, UpdateStep DEF SetEnabled
<1>3. CASE TokenOf(o) \notin Known(store)
  BY <1>1, <1>3, AnswerEnds, CommandStep DEF SetEnabled, Outcome, Inv, Shape
<1> QED
  BY <1>2, <1>3

(* Reading the scope prepares a row for the token that was read.            *)
LEMMA ReadScopeInv ==
  ASSUME Inv, NEW o \in Operator, ReadScope(o)
  PROVE  Inv'
<1> DEFINE request == command[o].command
           found == store[TokenOf(o)]
           row == [found EXCEPT
             !.groups = IF request.groups = Unchanged THEN @ ELSE request.groups,
             !.channels = IF request.channels = Unchanged THEN @
                          ELSE request.channels]
           c == [command[o] EXCEPT !.stage = "updating", !.row = row]
<1>1. /\ command[o].stage # "idle" /\ TokenOf(o) \in Token
      /\ request.groups \in Groups \cup {Unchanged}
      /\ request.channels \in Channels \cup {Unchanged}
  <2>1. request \in Command /\ request.kind = "update_scope"
    BY NamesToken DEF ReadScope
  <2> QED
    BY <2>1, NamesToken DEF ReadScope, Command
<1>2. CASE found = Absent
  <2>1. command' = Answered(o, "NotFound")
    BY <1>2 DEF ReadScope, TokenOf
  <2> QED
    BY <1>1, <2>1, AnswerEnds, CommandStep DEF ReadScope, Outcome, Inv, Shape
<1>3. CASE found # Absent
  <2>1. found \in Row
    BY <1>1, <1>3 DEF Inv, Shape, Table
  <2>2. row \in Row /\ row # Absent
    <3>1. row \in Row
      BY <1>1, <2>1 DEF Row
    <3> QED
      BY <3>1, TokensAssumption
  <2>3. command' = [command EXCEPT ![o] = c]
    BY <1>3 DEF ReadScope, TokenOf, Inv, Shape
  <2> HIDE DEF row
  <2>4. c \in State
    BY <2>2 DEF Inv, Shape, State, Stage
  <2>5. Works(c, store)
    BY <1>1, <1>3, <2>2 DEF Inv, Shape, State, Works, TokenOf
  <2> HIDE DEF c
  <2> QED
    BY <2>3, <2>4, <2>5, CommandStep DEF ReadScope, Inv, Shape
<1> QED
  BY <1>2, <1>3

(* The scope is not part of the identity.                                   *)
LEMMA UpdateScopeInv ==
  ASSUME Inv, NEW o \in Operator, UpdateScope(o)
  PROVE  Inv'
<1>1. command[o].stage # "idle" /\ TokenOf(o) \in Token
  BY NamesToken DEF UpdateScope
<1>2. store[TokenOf(o)] # Absent /\ command[o].row \in Row
  BY DEF UpdateScope, Inv, Works, TokenOf, Shape, State
<1>3. store[TokenOf(o)] \in Row
  BY <1>1, <1>2 DEF Inv, Shape, Table
<1>4. ScopedRow(o) \in Row /\ ScopedRow(o).hash = store[TokenOf(o)].hash
  BY <1>2, <1>3 DEF ScopedRow, Row
<1> QED
  BY <1>1, <1>2, <1>4, UpdateStep DEF UpdateScope

(* The row read back is the row of the table.                               *)
LEMMA ReadBackInv ==
  ASSUME Inv, NEW o \in Operator, ReadBack(o)
  PROVE  Inv'
<1>1. command[o].stage # "idle" /\ TokenOf(o) \in Token
  BY NamesToken DEF ReadBack
<1>2. store[TokenOf(o)] # Absent
  BY DEF ReadBack, Inv, Works, TokenOf
<1>3. store[TokenOf(o)] \in Row
  BY <1>1, <1>2 DEF Inv, Shape, Table
<1> QED
  BY <1>1, <1>2, <1>3, StoredWorks, CommandStep DEF ReadBack, Inv, Shape

(* A statement that fails ends its command.                                 *)
LEMMA FailStatementInv ==
  ASSUME Inv, NEW o \in Operator, FailStatement(o)
  PROVE  Inv'
<1>1. command[o].stage # "idle"
  BY DEF FailStatement, OnThread
<1>2. disturbed' \subseteq Token /\ unread' \subseteq Token
  BY <1>1, NamesToken DEF FailStatement, Inv, Shape
<1> QED
  BY <1>1, <1>2, AnswerEnds, CommandStep DEF FailStatement, Outcome

-----------------------------------------------------------------------------
(* Back in the handler.                                                     *)

(* The row of a replacement is that of a token the table has.               *)
LEMMA ReplaceInv ==
  ASSUME Inv, NEW o \in Operator, Replace(o)
  PROVE  Inv'
<1>1. command[o].stage # "idle" /\ TokenOf(o) \in Token
  BY NamesToken DEF Replace
<1>2. /\ command[o].row \in Row /\ store[TokenOf(o)] # Absent
      /\ command[o].row.hash = store[TokenOf(o)].hash
  BY DEF Replace, Inv, Works, TokenOf, Shape, State
<1>3. runtime' \in Table
  BY <1>1, <1>2 DEF Replace, ReplaceRuntimeClientToken, Inv, Shape, Table
<1>4. \A t \in Token : SameIdentity(runtime', store, t)
  BY <1>1, <1>2
     DEF Replace, ReplaceRuntimeClientToken, Inv, Shape, Table, SameIdentity
<1>5. PICK c \in State : command' = [command EXCEPT ![o] = c] /\ Works(c, store)
  BY <1>1, AnswerEnds DEF Replace, Outcome
<1>6. Shape'
  BY <1>3, <1>5 DEF Replace, Inv, Shape
<1>7. \A p \in Operator : Works(command[p], store)'
  BY <1>5 DEF Replace, Inv, Shape
<1> QED
  BY <1>4, <1>6, <1>7 DEF Replace, Inv, HashesDistinct, Known, SameIdentity

(* A handler that is dropped leaves its thread to its statements.           *)
LEMMA DisconnectInv ==
  ASSUME Inv, NEW o \in Operator, Disconnect(o)
  PROVE  Inv'
<1> DEFINE c == [command[o] EXCEPT !.attached = FALSE,
                   !.stage = IF OnThread(o) THEN @ ELSE "lost"]
<1>1. command[o].stage # "idle"
  BY DEF Disconnect, UnderWay
<1>2. command' = [command EXCEPT ![o] = c]
  BY DEF Disconnect, Inv, Shape
<1>3. c \in State
  BY DEF Inv, Shape, State, Stage
<1>4. Works(c, store)
  BY <1>1 DEF Inv, Shape, State, Works, OnThread
<1>5. disturbed' \subseteq Token /\ unread' \subseteq Token
  BY <1>1, NamesToken DEF Disconnect, Inv, Shape
<1> HIDE DEF c
<1> QED
  BY <1>2, <1>3, <1>4, <1>5, CommandStep DEF Disconnect

-----------------------------------------------------------------------------
(* The theorems.                                                            *)

(* Every step keeps the invariant.                                          *)
LEMMA NextInv ==
  ASSUME Inv, [Next]_vars
  PROVE  Inv'
<1>1. CASE Start
  BY <1>1, StartInv
<1>2. CASE Crash
  BY <1>2, CrashInv
<1>3. ASSUME NEW o \in Operator, Step(o)
      PROVE  Inv'
  BY <1>3, SubmitInv, AuditInv, CreateTokenInv, SetEnabledInv, ReadScopeInv,
     UpdateScopeInv, ReadBackInv, FailStatementInv, ReplaceInv, DisconnectInv
     DEF Step
<1>4. CASE UNCHANGED vars
  BY <1>4 DEF vars, Inv, Shape, HashesDistinct, Known, SameIdentity
<1> QED
  BY <1>1, <1>2, <1>3, <1>4 DEF Next

(* The invariant holds in every reachable state.                            *)
LEMMA SpecInv == Spec => []Inv
<1>1. Init => Inv
  BY InitInv
<1>2. Inv /\ [Next]_vars => Inv'
  BY NextInv
<1> QED
  BY <1>1, <1>2, PTL DEF Spec

(* Tables, registry and commands keep their shape, and a statement that    *)
(* updates or reads a row back finds it: nothing deletes a token between   *)
(* the steps of a command (client_token_store.rs has no DELETE).           *)
THEOREM TokenTypes == Spec => []TypeOK
<1>1. Inv => TypeOK
  BY InvImplies
<1> QED
  BY <1>1, SpecInv, PTL

(* However creations, updates, crashes and abandoned handlers interleave,  *)
(* a secret authenticates at most one client, and a token the registry     *)
(* knows is a token of the table with the same hash                        *)
(* (create_client_token_response_for_state, UNIQUE of the table,           *)
(* replace_runtime_client_token).                                          *)
THEOREM SecretsIdentify == Spec => []IdentitiesAgree
<1>1. Inv => IdentitiesAgree
  BY InvImplies
<1> QED
  BY <1>1, SpecInv, PTL
-----------------------------------------------------------------------------
(* What is served of a token, and what stays of a scope.                    *)

Busy(q) == q.stage \notin {"idle", "done", "lost"}

On(q, t) == Busy(q) /\ q.command.token = t

(* The one command on a token has changed nothing yet, or will put what    *)
(* the table has in the registry; an update that nobody read back excuses  *)
(* the difference it left.                                                 *)
Serves(q, stored, served, excused) ==
  IF Busy(q)
  THEN /\ q.attached
       /\ q.stage \in {"auditing", "storing", "updating"}
            => excused \/ served = stored
       /\ q.stage = "replacing" => q.row = stored
  ELSE excused \/ served = stored

Undisturbed(t) ==
  /\ \A o, p \in Operator : On(command[o], t) /\ On(command[p], t) => o = p
  /\ \A o \in Operator :
       On(command[o], t)
         => Serves(command[o], store[t], runtime[t], t \in unread)
  /\ (\A o \in Operator : ~On(command[o], t))
       => t \in unread \/ runtime[t] = store[t]

UInv ==
  /\ \A o \in Operator : command[o].stage = "idle" => command[o].attached
  /\ process = "down" => \A o \in Operator : ~Busy(command[o])
  /\ process = "up" => \A t \in Token \ disturbed : Undisturbed(t)

(* No other scope update was issued for the token of o.                    *)
Alone(o) ==
  \A p \in Operator \ {o} :
    command[p].command.kind = "update_scope" => TokenOf(p) # TokenOf(o)

(* Row has the columns that c asks for.                                    *)
HasScope(c, row) ==
  /\ c.groups \in {Unchanged, row.groups}
  /\ c.channels \in {Unchanged, row.channels}

(* What a scope update has read and written.                               *)
Scopes(o) ==
  LET q == command[o]
      c == command[o].command
  IN /\ q.stage = "idle" => q.outcome = "none" /\ c = NoCommand
     /\ q.outcome = "Ok" => q.stage \in {"done", "lost"}
     /\ q.stage = "updating" =>
          c.kind = "update_scope" /\ HasScope(c, q.row)
     /\ /\ c.kind = "update_scope"
        /\ q.stage \in {"reading", "replacing"} \/ q.outcome = "Ok"
        => /\ c.token \in Token /\ store[c.token] # Absent
           /\ Alone(o) => HasScope(c, store[c.token])

SInv == \A o \in Operator : Scopes(o)

(* A working command is alone on an undisturbed token, in a process that   *)
(* runs.                                                                   *)
LEMMA Working ==
  ASSUME Inv, UInv, NEW o \in Operator, Busy(command[o])
  PROVE  /\ process = "up"
         /\ TokenOf(o) \in Token
         /\ command \in [Operator -> State] /\ command[o] \in State
         /\ TokenOf(o) \notin disturbed =>
              /\ \A p \in Operator \ {o} : ~On(command[p], TokenOf(o))
              /\ Serves(command[o], store[TokenOf(o)], runtime[TokenOf(o)],
                        TokenOf(o) \in unread)
<1>1. process = "up"
  BY DEF Inv, Shape, UInv
<1>2. TokenOf(o) \in Token
  BY NamesToken DEF Busy
<1>3. ASSUME TokenOf(o) \notin disturbed
      PROVE  /\ \A p \in Operator \ {o} : ~On(command[p], TokenOf(o))
             /\ Serves(command[o], store[TokenOf(o)], runtime[TokenOf(o)],
                       TokenOf(o) \in unread)
  <2>1. Undisturbed(TokenOf(o))
    BY <1>1, <1>2, <1>3 DEF UInv
  <2>2. On(command[o], TokenOf(o))
    BY DEF On, TokenOf
  <2> QED
    BY <2>1, <2>2 DEF Undisturbed
<1> QED
  BY <1>1, <1>2, <1>3 DEF Inv, Shape

(* A step of a command concerns its token only.                            *)
LEMMA WorkingStep ==
  ASSUME Inv, UInv, NEW o \in Operator, Busy(command[o]),
         \A p \in Operator \ {o} : command'[p] = command[p],
         command'[o].command = command[o].command,
         command'[o].stage # "idle",
         process' = process, disturbed \subseteq disturbed',
         \A t \in Token : t # TokenOf(o) =>
           /\ store'[t] = store[t] /\ runtime'[t] = runtime[t]
           /\ t \in unread' <=> t \in unread,
         /\ TokenOf(o) \notin disturbed'
         /\ Serves(command[o], store[TokenOf(o)], runtime[TokenOf(o)],
                   TokenOf(o) \in unread)
         => Serves(command'[o], store'[TokenOf(o)], runtime'[TokenOf(o)],
                   TokenOf(o) \in unread')
  PROVE  UInv'
<1>1. process = "up" /\ TokenOf(o) \in Token
  BY Working
<1>2. PICK t0 \in Token : t0 = TokenOf(o)
  BY <1>1
<1>3. \A t \in Token \ disturbed : Undisturbed(t)
  BY <1>1 DEF UInv
<1>4. ASSUME NEW t \in Token \ disturbed', t # t0
      PROVE  Undisturbed(t)'
  <2>1. Undisturbed(t)
    BY <1>3, <1>4
  <2>2. ~On(command[o], t) /\ ~On(command'[o], t)
    BY <1>4, <1>2 DEF On, TokenOf
  <2>3. /\ store'[t] = store[t] /\ runtime'[t] = runtime[t]
        /\ t \in unread' <=> t \in unread
    BY <1>4, <1>2
  <2>4. \A p \in Operator : On(command'[p], t) => command'[p] = command[p]
    BY <2>2
  <2>5. \A p \in Operator : On(command[p], t) => command'[p] = command[p]
    BY <2>2
  <2> QED
    BY <2>1, <2>3, <2>4, <2>5 DEF Undisturbed
<1>5. ASSUME t0 \notin disturbed'
      PROVE  Undisturbed(t0)'
  <2>1. /\ \A p \in Operator \ {o} : ~On(command[p], t0)
        /\ Serves(command[o], store[t0], runtime[t0], t0 \in unread)
    BY <1>5, <1>2, Working
  <2>2. \A p \in Operator : On(command'[p], t0) => p = o
    BY <2>1
  <2>3. Serves(command'[o], store'[t0], runtime'[t0], t0 \in unread')
    BY <1>5, <1>2, <2>1
  <2>4. ~On(command'[o], t0) => ~Busy(command'[o])
    BY <1>2 DEF On, TokenOf
  <2>5. ~On(command'[o], t0)
         => t0 \in unread' \/ runtime'[t0] = store'[t0]
    BY <2>3, <2>4 DEF Serves
  <2> QED
    BY <2>2, <2>3, <2>5 DEF Undisturbed
<1>6. \A t \in Token \ disturbed' : Undisturbed(t)'
  BY <1>4, <1>5
<1>7. \A p \in Operator : command'[p].stage = "idle" => command'[p].attached
  BY DEF UInv
<1> QED
  BY <1>1, <1>6, <1>7 DEF UInv

(* What an answer keeps of a command.                                      *)
LEMMA AnsweredFields ==
  ASSUME Inv, NEW o \in Operator, NEW outcome, command' = Answered(o, outcome)
  PROVE  /\ \A p \in Operator \ {o} : command'[p] = command[p]
         /\ command'[o].command = command[o].command
         /\ command'[o].outcome = outcome
         /\ command'[o].stage \in {"done", "lost"}
         /\ ~Busy(command'[o])
BY DEF Answered, Inv, Shape, State, Busy

(* What a stage keeps of a command.                                        *)
LEMMA ToFields ==
  ASSUME Inv, NEW o \in Operator, NEW stage, command' = To(o, stage)
  PROVE  /\ \A p \in Operator \ {o} : command'[p] = command[p]
         /\ command'[o].command = command[o].command
         /\ command'[o].outcome = command[o].outcome
         /\ command'[o].attached = command[o].attached
         /\ command'[o].row = command[o].row
         /\ command'[o].stage = stage
BY DEF To, Inv, Shape, State

(* What a thread that ends hands to its handler.                           *)
LEMMA StoredFields ==
  ASSUME Inv, NEW o \in Operator, NEW row, command' = Stored(o, row)
  PROVE  /\ \A p \in Operator \ {o} : command'[p] = command[p]
         /\ command'[o].command = command[o].command
         /\ command'[o].outcome = command[o].outcome
         /\ command'[o].attached = command[o].attached
         /\ command'[o].row = row
         /\ command'[o].stage = IF command[o].attached THEN "replacing" ELSE "lost"
BY DEF Stored, Inv, Shape, State

(* A command is checked, and nothing is changed yet.                       *)
LEMMA SubmitServes ==
  ASSUME Inv, UInv, NEW o \in Operator, Submit(o)
  PROVE  UInv'
<1>1. PICK c \in Command :
        /\ command' = [command EXCEPT ![o].command = c,
             ![o].stage = IF Acceptable(c) THEN "auditing" ELSE "done",
             ![o].outcome = IF Acceptable(c) THEN "none" ELSE "Rejected"]
        /\ disturbed' = IF \E p \in Operator : UnderWay(p) /\ TokenOf(p) = c.token
                        THEN disturbed \cup {c.token} ELSE disturbed
  BY DEF Submit
<1> DEFINE q == command'[o]
<1>2. /\ process = "up" /\ process' = "up" /\ UNCHANGED <<store, runtime, unread>>
      /\ command[o].attached /\ ~Busy(command[o])
  BY DEF Submit, Busy, UInv
<1>3. /\ \A p \in Operator : p # o => command'[p] = command[p]
      /\ q.command = c /\ q.attached
      /\ q.stage \in {"auditing", "done"}
  BY <1>1, <1>2 DEF Inv, Shape, State
<1>4. c.token \in Token
  BY DEF Command
<1> HIDE DEF q
<1>5. ASSUME NEW t \in Token \ disturbed'
      PROVE  Undisturbed(t)'
  <2>1. Undisturbed(t)
    BY <1>1, <1>2, <1>5 DEF UInv
  <2>2. ~On(command[o], t)
    BY <1>2 DEF On
  <2>3. CASE t = c.token
    <3>1. \A p \in Operator : ~On(command[p], t)
      BY <1>1, <1>5, <2>3 DEF On, Busy, UnderWay, TokenOf
    <3>2. t \in unread \/ runtime[t] = store[t]
      BY <2>1, <3>1 DEF Undisturbed
    <3>3. Serves(q, store[t], runtime[t], t \in unread)
      BY <1>3, <3>2 DEF Serves
    <3> QED
      BY <1>2, <1>3, <3>1, <3>2, <3>3 DEF Undisturbed, q
  <2>4. CASE t # c.token
    <3>1. ~On(q, t)
      BY <1>3, <2>4 DEF On
    <3>2. \A p \in Operator : On(command'[p], t) => command'[p] = command[p]
      BY <1>3, <3>1 DEF q
    <3>3. \A p \in Operator : On(command[p], t) => command'[p] = command[p]
      BY <1>3, <2>2
    <3> QED
      BY <1>2, <2>1, <3>2, <3>3 DEF Undisturbed
  <2> QED
    BY <2>3, <2>4
<1>6. \A p \in Operator : command'[p].stage = "idle" => command'[p].attached
  BY <1>3 DEF UInv, q
<1> QED
  BY <1>2, <1>5, <1>6 DEF UInv

(* The steps of a handler and of its thread leave the registry with what   *)
(* the table has, or with what the command will put there.                 *)
LEMMA WorkServes ==
  ASSUME Inv, UInv, NEW o \in Operator,
         \/ Audit(o) \/ CreateToken(o) \/ SetEnabled(o) \/ ReadScope(o)
         \/ UpdateScope(o) \/ ReadBack(o) \/ FailStatement(o)
  PROVE  UInv'
<1> DEFINE old == command[o]
           q == command'[o]
<1>1. /\ Busy(old)
      /\ process' = process /\ disturbed \subseteq disturbed'
      /\ UNCHANGED runtime
      /\ \A t : t \in unread => t \in unread'
      /\ \A t : t # TokenOf(o) => (t \in unread' <=> t \in unread)
  BY DEF Busy, Audit, CreateToken, SetEnabled, ReadScope, UpdateScope, ReadBack,
         FailStatement, OnThread
<1>2. TokenOf(o) \in Token /\ command \in [Operator -> State] /\ old \in State
  BY <1>1, Working
<1>3. store \in Table
  BY DEF Inv, Shape
<1>4. ASSUME NEW outcome, command' = Answered(o, outcome), UNCHANGED store,
             old.stage # "reading" \/ TokenOf(o) \in unread'
      PROVE  UInv'
  <2>1. /\ \A p \in Operator \ {o} : command'[p] = command[p]
        /\ q.command = old.command
        /\ q.stage \in {"done", "lost"} /\ ~Busy(q)
    BY <1>4, AnsweredFields
  <2>2. old.stage # "replacing"
    BY DEF Audit, CreateToken, SetEnabled, ReadScope, UpdateScope, ReadBack,
           FailStatement, OnThread
  <2>3. Serves(old, store[TokenOf(o)], runtime[TokenOf(o)],
               TokenOf(o) \in unread)
        /\ TokenOf(o) \notin disturbed'
        => Serves(q, store[TokenOf(o)], runtime[TokenOf(o)],
                  TokenOf(o) \in unread')
    BY <1>1, <1>2, <1>4, <2>1, <2>2 DEF Serves, Busy, State, Stage
  <2> QED
    BY <1>1, <1>4, <2>1, <2>3, WorkingStep
<1>5. CASE Audit(o)
  <2>1. CASE command' = To(o, "storing")
    <3>1. /\ \A p \in Operator \ {o} : command'[p] = command[p]
          /\ q.command = old.command /\ q.attached = old.attached
          /\ q.stage = "storing"
      BY <2>1, ToFields
    <3>2. Serves(old, store[TokenOf(o)], runtime[TokenOf(o)],
                 TokenOf(o) \in unread)
          => Serves(q, store[TokenOf(o)], runtime[TokenOf(o)],
                    TokenOf(o) \in unread')
      BY <1>1, <1>5, <3>1 DEF Serves, Busy, Audit
    <3> QED
      BY <1>1, <1>5, <3>1, <3>2, WorkingStep DEF Audit
  <2>2. CASE command' = Answered(o, "EventAppendFailed")
    BY <1>4, <1>5, <2>2 DEF Audit
  <2> QED
    BY <1>5, <2>1, <2>2 DEF Audit
<1>6. CASE CreateToken(o)
  <2> DEFINE row == command[o].command.row
             after == [store EXCEPT ![TokenOf(o)] = row]
  <2>1. CASE TokenOf(o) \notin Known(store) /\ HashesDistinct(after)
    <3>1. store' = after /\ command' = Stored(o, row)
      BY <1>6, <2>1 DEF CreateToken, Insert, TokenOf
    <3>2. /\ \A p \in Operator \ {o} : command'[p] = command[p]
          /\ q.command = old.command /\ q.attached = old.attached
          /\ q.row = row
          /\ q.stage = IF old.attached THEN "replacing" ELSE "lost"
      BY <3>1, StoredFields
    <3>3. /\ \A t \in Token : t # TokenOf(o) => store'[t] = store[t]
          /\ store'[TokenOf(o)] = row
      BY <1>2, <1>3, <3>1 DEF Table
    <3>4. Serves(old, store[TokenOf(o)], runtime[TokenOf(o)],
                 TokenOf(o) \in unread)
          => Serves(q, store'[TokenOf(o)], runtime[TokenOf(o)],
                    TokenOf(o) \in unread')
      BY <1>1, <3>2, <3>3 DEF Serves, Busy
    <3> QED
      BY <1>1, <3>2, <3>3, <3>4, WorkingStep
  <2>2. CASE ~(TokenOf(o) \notin Known(store) /\ HashesDistinct(after))
    <3>1. command' = Answered(o, "Duplicate") /\ UNCHANGED store
      BY <1>6, <2>2 DEF CreateToken, Insert, TokenOf
    <3> QED
      BY <1>4, <1>6, <3>1 DEF CreateToken
  <2> QED
    BY <2>1, <2>2
<1>7. ASSUME NEW row, store' = [store EXCEPT ![TokenOf(o)] = row],
             command' = To(o, "reading")
      PROVE  UInv'
  <2>1. /\ \A p \in Operator \ {o} : command'[p] = command[p]
        /\ q.command = old.command /\ q.attached = old.attached
        /\ q.stage = "reading"
    BY <1>7, ToFields
  <2>2. \A t \in Token : t # TokenOf(o) => store'[t] = store[t]
    BY <1>3, <1>7 DEF Table
  <2>3. Serves(old, store[TokenOf(o)], runtime[TokenOf(o)],
               TokenOf(o) \in unread)
        => Serves(q, store'[TokenOf(o)], runtime[TokenOf(o)],
                  TokenOf(o) \in unread')
    BY <1>1, <2>1 DEF Serves, Busy
  <2> QED
    BY <1>1, <2>1, <2>2, <2>3, WorkingStep
<1>8. CASE SetEnabled(o)
  <2>1. CASE TokenOf(o) \in Known(store)
    BY <1>7, <1>8, <2>1 DEF SetEnabled
  <2>2. CASE TokenOf(o) \notin Known(store)
    BY <1>4, <1>8, <2>2 DEF SetEnabled
  <2> QED
    BY <2>1, <2>2
<1>9. CASE UpdateScope(o)
  BY <1>7, <1>9 DEF UpdateScope
<1>10. CASE ReadScope(o)
  <2>1. CASE store[TokenOf(o)] = Absent
    <3>1. command' = Answered(o, "NotFound")
      BY <1>10, <2>1 DEF ReadScope, TokenOf
    <3> QED
      BY <1>4, <1>10, <3>1 DEF ReadScope
  <2>2. CASE store[TokenOf(o)] # Absent
    <3>1. PICK row : command' = [command EXCEPT ![o].stage = "updating",
                                                ![o].row = row]
      BY <1>10, <2>2 DEF ReadScope, TokenOf
    <3>2. /\ \A p \in Operator \ {o} : command'[p] = command[p]
          /\ q.command = old.command /\ q.attached = old.attached
          /\ q.stage = "updating"
      BY <1>2, <3>1 DEF State
    <3>3. UNCHANGED store
      BY <1>10 DEF ReadScope
    <3>4. Serves(old, store[TokenOf(o)], runtime[TokenOf(o)],
                 TokenOf(o) \in unread)
          => Serves(q, store[TokenOf(o)], runtime[TokenOf(o)],
                    TokenOf(o) \in unread')
      BY <1>1, <1>10, <3>2 DEF Serves, Busy, ReadScope
    <3> QED
      BY <1>1, <3>2, <3>3, <3>4, WorkingStep
  <2> QED
    BY <2>1, <2>2
<1>11. CASE ReadBack(o)
  <2>1. /\ \A p \in Operator \ {o} : command'[p] = command[p]
        /\ q.command = old.command /\ q.attached = old.attached
        /\ q.row = store[TokenOf(o)]
        /\ q.stage = IF old.attached THEN "replacing" ELSE "lost"
    BY <1>11, StoredFields DEF ReadBack
  <2>2. UNCHANGED store
    BY <1>11 DEF ReadBack
  <2>3. Serves(old, store[TokenOf(o)], runtime[TokenOf(o)],
               TokenOf(o) \in unread)
        => Serves(q, store[TokenOf(o)], runtime[TokenOf(o)],
                  TokenOf(o) \in unread')
    BY <1>1, <2>1 DEF Serves, Busy
  <2> QED
    BY <1>1, <2>1, <2>2, <2>3, WorkingStep
<1>12. CASE FailStatement(o)
  BY <1>4, <1>12 DEF FailStatement
<1> QED
  BY <1>5, <1>6, <1>8, <1>9, <1>10, <1>11, <1>12

(* The registry gets the row that the table has.                           *)
LEMMA ReplaceServes ==
  ASSUME Inv, UInv, NEW o \in Operator, Replace(o)
  PROVE  UInv'
<1> DEFINE old == command[o]
           q == command'[o]
<1>1. /\ Busy(old) /\ old.stage = "replacing"
      /\ UNCHANGED <<process, store, disturbed>>
      /\ runtime' = [runtime EXCEPT ![TokenOf(o)] = old.row]
      /\ \A t : t # TokenOf(o) => (t \in unread' <=> t \in unread)
  BY DEF Busy, Replace, ReplaceRuntimeClientToken
<1>2. TokenOf(o) \in Token /\ runtime \in Table
  BY <1>1, Working DEF Inv, Shape
<1>3. /\ \A p \in Operator \ {o} : command'[p] = command[p]
      /\ q.command = old.command /\ q.stage # "idle" /\ ~Busy(q)
  BY AnsweredFields DEF Replace
<1>4. /\ runtime'[TokenOf(o)] = old.row
      /\ \A t \in Token : t # TokenOf(o) => runtime'[t] = runtime[t]
  BY <1>1, <1>2 DEF Table
<1>5. Serves(old, store[TokenOf(o)], runtime[TokenOf(o)],
             TokenOf(o) \in unread)
      => Serves(q, store[TokenOf(o)], runtime'[TokenOf(o)],
                TokenOf(o) \in unread')
  BY <1>1, <1>3, <1>4 DEF Serves
<1> QED
  BY <1>1, <1>3, <1>4, <1>5, WorkingStep

(* A handler is dropped before it could change anything, or the token is   *)
(* disturbed.                                                              *)
LEMMA DisconnectServes ==
  ASSUME Inv, UInv, NEW o \in Operator, Disconnect(o)
  PROVE  UInv'
<1> DEFINE old == command[o]
           q == command'[o]
<1>1. /\ Busy(old)
      /\ UNCHANGED <<process, store, runtime, unread>>
      /\ disturbed \subseteq disturbed'
      /\ old.stage # "auditing" => TokenOf(o) \in disturbed'
  BY DEF Busy, Disconnect, UnderWay
<1>2. command \in [Operator -> State] /\ old \in State
  BY <1>1, Working
<1>3. /\ \A p \in Operator \ {o} : command'[p] = command[p]
      /\ q.command = old.command
      /\ q.stage = IF OnThread(o) THEN old.stage ELSE "lost"
  BY <1>2 DEF Disconnect, State
<1>4. q.stage # "idle"
  BY <1>3 DEF OnThread
<1>5. Serves(old, store[TokenOf(o)], runtime[TokenOf(o)],
             TokenOf(o) \in unread)
      /\ TokenOf(o) \notin disturbed'
      => Serves(q, store[TokenOf(o)], runtime[TokenOf(o)],
                TokenOf(o) \in unread')
  BY <1>1, <1>3 DEF Serves, Busy, OnThread
<1> QED
  BY <1>1, <1>3, <1>4, <1>5, WorkingStep

(* A crash ends every command.                                             *)
LEMMA CrashServes ==
  ASSUME Inv, UInv, Crash
  PROVE  UInv'
<1>1. ASSUME NEW o \in Operator
      PROVE  /\ ~Busy(command'[o])
             /\ command'[o].stage = "idle" => command'[o].attached
  <2>1. command[o] \in State
    BY DEF Inv, Shape
  <2>2. command'[o] = IF UnderWay(o) THEN [command[o] EXCEPT !.stage = "lost"]
                      ELSE command[o]
    BY DEF Crash
  <2> QED
    BY <2>1, <2>2 DEF Busy, UnderWay, State, UInv
<1>2. process' = "down"
  BY DEF Crash
<1> QED
  BY <1>1, <1>2 DEF UInv

(* A start serves the table.                                               *)
LEMMA StartServes ==
  ASSUME Inv, UInv, Start
  PROVE  UInv'
<1>1. /\ process = "down" /\ process' = "up"
      /\ runtime' = store' /\ UNCHANGED <<command, disturbed>>
  BY DEF Start
<1>2. \A o \in Operator : ~Busy(command'[o])
  BY <1>1 DEF UInv
<1>3. \A t \in Token : Undisturbed(t)'
  BY <1>1, <1>2 DEF Undisturbed, On
<1> QED
  BY <1>1, <1>3 DEF UInv

(* Undisturbed tokens are served as stored in every behaviour.             *)
LEMMA SpecServes == Spec => []UInv
<1>1. Init => UInv
  BY DEF Init, Quiet, UInv, Busy
<1>2. ASSUME Inv, UInv, [Next]_vars
      PROVE  UInv'
  <2>1. ASSUME NEW o \in Operator, Step(o)
        PROVE  UInv'
    BY <1>2, <2>1, SubmitServes, WorkServes, ReplaceServes, DisconnectServes
       DEF Step
  <2>2. CASE UNCHANGED vars
    BY <1>2, <2>2 DEF vars, UInv, Undisturbed
  <2> QED
    BY <1>2, <2>1, <2>2, StartServes, CrashServes DEF Next
<1> QED
  BY <1>1, <1>2, SpecInv, PTL DEF Spec

-----------------------------------------------------------------------------
(* Scopes.                                                                  *)

(* What the other commands know of their scopes stays true when a step of  *)
(* o writes no row, a new one, or one whose scope it keeps; or when o is   *)
(* itself a scope update of the token, with which they are not alone.      *)
LEMMA OtherScopes ==
  ASSUME Inv, SInv, NEW o \in Operator,
         \A p \in Operator \ {o} : command'[p] = command[p],
         command'[o].command = command[o].command \/ command[o].stage = "idle",
         NEW row,
         \/ store' = store
         \/ /\ store' = [store EXCEPT ![TokenOf(o)] = row] /\ row # Absent
            /\ command'[o].command = command[o].command
            /\ \/ store[TokenOf(o)] = Absent
               \/ /\ row.groups = store[TokenOf(o)].groups
                  /\ row.channels = store[TokenOf(o)].channels
               \/ command[o].command.kind = "update_scope",
         Scopes(o)'
  PROVE  SInv'
<1> SUFFICES ASSUME NEW p \in Operator, p # o
             PROVE  Scopes(p)'
  BY DEF SInv
<1> DEFINE q == command[p]
           c == command[p].command
<1>1. command'[p] = q /\ Scopes(p)
  BY DEF SInv
<1>2. command[o].stage = "idle" => command[o].command.kind # "update_scope"
  BY DEF SInv, Scopes, NoCommand
<1>3. Alone(p)' => Alone(p)
  BY <1>1, <1>2 DEF Alone, TokenOf
<1> SUFFICES ASSUME c.kind = "update_scope",
                    q.stage \in {"reading", "replacing"} \/ q.outcome = "Ok"
             PROVE  /\ store'[c.token] # Absent
                    /\ Alone(p)' => HasScope(c, store'[c.token])
  BY <1>1 DEF Scopes
<1>4. /\ c.token \in Token /\ store[c.token] # Absent
      /\ Alone(p) => HasScope(c, store[c.token])
  BY <1>1 DEF Scopes
<1>5. CASE store' = store
  BY <1>3, <1>4, <1>5
<1>6. CASE c.token # TokenOf(o)
  <2>1. store'[c.token] = store[c.token]
    BY <1>4, <1>6 DEF Inv, Shape, Table
  <2> QED
    BY <1>3, <1>4, <2>1
<1>7. CASE c.token = TokenOf(o) /\ store' # store
  <2>1. store'[c.token] = row /\ row # Absent
    BY <1>4, <1>7 DEF Inv, Shape, Table
  <2>2. CASE /\ row.groups = store[TokenOf(o)].groups
             /\ row.channels = store[TokenOf(o)].channels
    BY <1>3, <1>4, <1>7, <2>1, <2>2 DEF HasScope
  <2>3. CASE command[o].command.kind = "update_scope"
    <3>1. ~Alone(p)
      BY <1>7, <2>3 DEF Alone, TokenOf
    <3> QED
      BY <1>3, <2>1, <3>1
  <2> QED
    BY <1>4, <1>7, <2>2, <2>3
<1> QED
  BY <1>5, <1>6, <1>7

(* A command that answers anything but success knows nothing.              *)
LEMMA AnsweredScopes ==
  ASSUME Inv, SInv, NEW o \in Operator, command[o].stage # "idle",
         NEW outcome, outcome # "Ok", command' = Answered(o, outcome),
         UNCHANGED store
  PROVE  SInv'
<1>1. /\ \A p \in Operator \ {o} : command'[p] = command[p]
      /\ command'[o].command = command[o].command
      /\ command'[o].outcome = outcome
      /\ command'[o].stage \in {"done", "lost"}
  BY AnsweredFields
<1>2. Scopes(o)'
  BY <1>1 DEF Scopes
<1> QED
  BY <1>1, <1>2, OtherScopes

(* Whether a command is alone does not change with its own steps.          *)
LEMMA StillAlone ==
  ASSUME NEW o \in Operator,
         \A p \in Operator \ {o} : command'[p] = command[p],
         command'[o].command = command[o].command
  PROVE  Alone(o)' <=> Alone(o)
BY DEF Alone, TokenOf

(* A command that arrives knows nothing of its scope.                      *)
LEMMA SubmitScopes ==
  ASSUME Inv, SInv, NEW o \in Operator, Submit(o)
  PROVE  SInv'
<1>1. PICK c \in Command :
        command' = [command EXCEPT ![o].command = c,
          ![o].stage = IF Acceptable(c) THEN "auditing" ELSE "done",
          ![o].outcome = IF Acceptable(c) THEN "none" ELSE "Rejected"]
  BY DEF Submit
<1>2. /\ \A p \in Operator \ {o} : command'[p] = command[p]
      /\ command'[o].stage \in {"auditing", "done"}
      /\ command'[o].outcome # "Ok"
  BY <1>1 DEF Inv, Shape, State
<1>3. Scopes(o)'
  BY <1>2 DEF Scopes
<1> QED
  BY <1>2, <1>3, OtherScopes DEF Submit

(* Steps that leave the table alone.                                       *)
LEMMA QuietScopes ==
  ASSUME Inv, SInv, NEW o \in Operator,
         \/ Audit(o) \/ ReadScope(o) \/ ReadBack(o) \/ FailStatement(o)
         \/ Replace(o) \/ Disconnect(o)
  PROVE  SInv'
<1> DEFINE old == command[o]
           q == command'[o]
           c == command[o].command
<1>1. UNCHANGED store /\ old.stage # "idle"
  BY DEF Audit, ReadScope, ReadBack, FailStatement, OnThread, Replace,
         Disconnect, UnderWay
<1>2. /\ command \in [Operator -> State] /\ old \in State /\ Scopes(o)
      /\ TokenOf(o) \in Token
  BY <1>1, NamesToken DEF Inv, Shape, SInv
<1>3. CASE \E outcome \in {"EventAppendFailed", "NotFound", "Persistence"} :
             command' = Answered(o, outcome)
  BY <1>1, <1>3, AnsweredScopes
<1>4. CASE Audit(o)
  <2>1. CASE command' = To(o, "storing")
    <3>1. /\ \A p \in Operator \ {o} : command'[p] = command[p]
          /\ q.command = c /\ q.outcome = old.outcome
          /\ q.stage = "storing"
      BY <2>1, ToFields
    <3>2. Scopes(o)'
      BY <1>2, <1>4, <3>1 DEF Scopes, Audit
    <3> QED
      BY <1>1, <3>1, <3>2, OtherScopes
  <2> QED
    BY <1>3, <1>4, <2>1 DEF Audit
<1>5. CASE ReadScope(o)
  <2>1. CASE store[TokenOf(o)] = Absent
    BY <1>3, <1>5, <2>1 DEF ReadScope, TokenOf
  <2>2. CASE store[TokenOf(o)] # Absent
    <3> DEFINE found == store[TokenOf(o)]
               row == [found EXCEPT
                         !.groups = IF c.groups = Unchanged THEN @ ELSE c.groups,
                         !.channels = IF c.channels = Unchanged THEN @
                                      ELSE c.channels]
    <3>1. found \in Row
      BY <1>2, <2>2 DEF Inv, Shape, Table
    <3>2. HasScope(c, row)
      BY <3>1 DEF HasScope, Row
    <3>3. command' = [command EXCEPT ![o].stage = "updating", ![o].row = row]
      BY <1>5, <2>2 DEF ReadScope, TokenOf
    <3> HIDE DEF row
    <3>4. /\ \A p \in Operator \ {o} : command'[p] = command[p]
          /\ q.command = c /\ q.outcome = old.outcome
          /\ q.stage = "updating" /\ q.row = row
      BY <1>2, <3>3 DEF State
    <3>5. c.kind = "update_scope" /\ old.stage = "storing"
      BY <1>5 DEF ReadScope
    <3>6. Scopes(o)'
      BY <1>2, <3>2, <3>4, <3>5 DEF Scopes
    <3> QED
      BY <1>1, <3>4, <3>6, OtherScopes
  <2> QED
    BY <2>1, <2>2
<1>6. CASE ReadBack(o)
  <2>1. /\ \A p \in Operator \ {o} : command'[p] = command[p]
        /\ q.command = c /\ q.outcome = old.outcome
        /\ q.stage \in {"replacing", "lost"}
    BY <1>6, StoredFields DEF ReadBack
  <2>2. old.stage = "reading"
    BY <1>6 DEF ReadBack
  <2>3. Scopes(o)'
    BY <1>1, <1>2, <2>1, <2>2, StillAlone DEF Scopes
  <2> QED
    BY <1>1, <2>1, <2>3, OtherScopes
<1>7. CASE Replace(o)
  <2>1. /\ \A p \in Operator \ {o} : command'[p] = command[p]
        /\ q.command = c /\ q.outcome = "Ok"
        /\ q.stage \in {"done", "lost"}
    BY <1>7, AnsweredFields DEF Replace
  <2>2. old.stage = "replacing"
    BY <1>7 DEF Replace
  <2>3. Scopes(o)'
    BY <1>1, <1>2, <2>1, <2>2, StillAlone DEF Scopes
  <2> QED
    BY <1>1, <2>1, <2>3, OtherScopes
<1>8. CASE FailStatement(o)
  BY <1>3, <1>8 DEF FailStatement
<1>9. CASE Disconnect(o)
  <2>1. /\ \A p \in Operator \ {o} : command'[p] = command[p]
        /\ q.command = c /\ q.outcome = old.outcome /\ q.row = old.row
        /\ q.stage = "lost" \/ q.stage = old.stage
    BY <1>2, <1>9 DEF Disconnect, State
  <2>2. Scopes(o)'
    BY <1>1, <1>2, <1>9, <2>1, StillAlone DEF Scopes, Disconnect, UnderWay
  <2> QED
    BY <1>1, <2>1, <2>2, OtherScopes
<1> QED
  BY <1>4, <1>5, <1>6, <1>7, <1>8, <1>9

(* A creation writes a row where there was none.                           *)
LEMMA CreateTokenScopes ==
  ASSUME Inv, SInv, NEW o \in Operator, CreateToken(o)
  PROVE  SInv'
<1> DEFINE row == command[o].command.row
           after == [store EXCEPT ![TokenOf(o)] = row]
<1>1. /\ command[o].stage # "idle" /\ TokenOf(o) \in Token
      /\ command[o].command.kind = "create" /\ row # Absent
      /\ Scopes(o) /\ command[o].stage = "storing"
  <2>1. command[o].command \in Command /\ command[o].command.kind = "create"
    BY NamesToken DEF CreateToken
  <2>2. row \in Row
    BY <2>1 DEF Command
  <2> QED
    BY <2>1, <2>2, NamesToken, TokensAssumption DEF CreateToken, SInv
<1>2. CASE TokenOf(o) \notin Known(store) /\ HashesDistinct(after)
  <2>1. store' = after /\ command' = Stored(o, row)
    BY <1>2 DEF CreateToken, Insert, TokenOf
  <2>2. /\ \A p \in Operator \ {o} : command'[p] = command[p]
        /\ command'[o].command = command[o].command
        /\ command'[o].outcome = command[o].outcome
        /\ command'[o].stage \in {"replacing", "lost"}
    BY <2>1, StoredFields
  <2>3. Scopes(o)'
    BY <1>1, <2>2 DEF Scopes
  <2>4. store[TokenOf(o)] = Absent
    BY <1>1, <1>2 DEF Known
  <2> HIDE DEF row
  <2> QED
    BY <1>1, <2>1, <2>2, <2>3, <2>4, OtherScopes
<1>3. CASE ~(TokenOf(o) \notin Known(store) /\ HashesDistinct(after))
  <2>1. command' = Answered(o, "Duplicate") /\ store' = store
    BY <1>3 DEF CreateToken, Insert, TokenOf
  <2> QED
    BY <1>1, <2>1, AnsweredScopes
<1> QED
  BY <1>2, <1>3

(* The flag is not part of the scope.                                      *)
LEMMA SetEnabledScopes ==
  ASSUME Inv, SInv, NEW o \in Operator, SetEnabled(o)
  PROVE  SInv'
<1>1. /\ command[o].stage = "storing" /\ TokenOf(o) \in Token
      /\ command[o].command.kind = "set_enabled" /\ Scopes(o)
  BY NamesToken DEF SetEnabled, SInv
<1>2. CASE TokenOf(o) \in Known(store)
  <2>1. store[TokenOf(o)] \in Row
    BY <1>1, <1>2 DEF Inv, Shape, Table, Known
  <2>2. command[o].command \in Command
    BY <1>1, NamesToken
  <2>3. /\ EnabledRow(o) \in Row
        /\ EnabledRow(o).groups = store[TokenOf(o)].groups
        /\ EnabledRow(o).channels = store[TokenOf(o)].channels
    BY <1>1, <2>1, <2>2 DEF EnabledRow, Row, Command
  <2>4. EnabledRow(o) # Absent
    BY <2>3, TokensAssumption
  <2>5. /\ store' = [store EXCEPT ![TokenOf(o)] = EnabledRow(o)]
        /\ command' = To(o, "reading")
    BY <1>2 DEF SetEnabled
  <2>6. /\ \A p \in Operator \ {o} : command'[p] = command[p]
        /\ command'[o].command = command[o].command
        /\ command'[o].outcome = command[o].outcome
        /\ command'[o].stage = "reading"
    BY <2>5, ToFields
  <2>7. Scopes(o)'
    BY <1>1, <2>6 DEF Scopes
  <2> QED
    BY <2>3, <2>4, <2>5, <2>6, <2>7, OtherScopes
<1>3. CASE TokenOf(o) \notin Known(store)
  BY <1>1, <1>3, AnsweredScopes DEF SetEnabled
<1> QED
  BY <1>2, <1>3

(* A scope update writes the columns it asks for.                          *)
LEMMA UpdateScopeScopes ==
  ASSUME Inv, SInv, NEW o \in Operator, UpdateScope(o)
  PROVE  SInv'
<1> DEFINE c == command[o].command
<1>1. /\ command[o].stage = "updating" /\ TokenOf(o) \in Token
      /\ c.kind = "update_scope" /\ Scopes(o)
      /\ HasScope(c, command[o].row)
  BY NamesToken DEF UpdateScope, SInv, Scopes
<1>2. store[TokenOf(o)] \in Row /\ command[o].row \in Row
  BY <1>1 DEF Inv, Works, TokenOf, Shape, State, Table
<1>3. /\ ScopedRow(o) \in Row
      /\ HasScope(c, ScopedRow(o))
  BY <1>1, <1>2 DEF ScopedRow, Row, HasScope
<1>4. ScopedRow(o) # Absent
  BY <1>3, TokensAssumption
<1>5. /\ store' = [store EXCEPT ![TokenOf(o)] = ScopedRow(o)]
      /\ command' = To(o, "reading")
  BY DEF UpdateScope
<1>6. /\ \A p \in Operator \ {o} : command'[p] = command[p]
      /\ command'[o].command = c
      /\ command'[o].outcome = command[o].outcome
      /\ command'[o].stage = "reading"
  BY <1>5, ToFields
<1>7. store'[c.token] = ScopedRow(o) /\ c.token \in Token
  BY <1>1, <1>5 DEF Inv, Shape, Table, TokenOf
<1>8. Scopes(o)'
  BY <1>1, <1>3, <1>4, <1>6, <1>7 DEF Scopes
<1> QED
  BY <1>1, <1>4, <1>5, <1>6, <1>8, OtherScopes

(* A crash and a start leave the rows that are known.                      *)
LEMMA RestartScopes ==
  ASSUME Inv, SInv, Crash \/ Start
  PROVE  SInv'
<1>1. CASE Start
  <2>1. UNCHANGED command
    BY <1>1 DEF Start
  <2>2. \A t \in Token : store[t] # Absent => store'[t] = store[t]
    BY <1>1 DEF Start, Known
  <2>3. ASSUME NEW o \in Operator
        PROVE  Scopes(o)'
    <3>1. Scopes(o)
      BY DEF SInv
    <3>2. Alone(o)' <=> Alone(o)
      BY <2>1 DEF Alone, TokenOf
    <3> QED
      BY <2>1, <2>2, <3>1, <3>2 DEF Scopes
  <2> QED
    BY <2>3 DEF SInv
<1>2. CASE Crash
  <2>1. ASSUME NEW o \in Operator
        PROVE  /\ command'[o].command = command[o].command
               /\ command'[o].outcome = command[o].outcome
               /\ command'[o] = command[o] \/ command'[o].stage = "lost"
    <3>1. command[o] \in State
      BY DEF Inv, Shape
    <3>2. command'[o] = IF UnderWay(o) THEN [command[o] EXCEPT !.stage = "lost"]
                        ELSE command[o]
      BY <1>2 DEF Crash
    <3> QED
      BY <3>1, <3>2 DEF State
  <2>2. UNCHANGED store
    BY <1>2 DEF Crash
  <2>3. ASSUME NEW o \in Operator
        PROVE  Scopes(o)'
    <3>1. Scopes(o)
      BY DEF SInv
    <3>2. Alone(o)' <=> Alone(o)
      BY <2>1 DEF Alone, TokenOf
    <3> QED
      BY <2>1, <2>2, <3>1, <3>2 DEF Scopes
  <2> QED
    BY <2>3 DEF SInv
<1> QED
  BY <1>1, <1>2

(* What scope updates know holds in every behaviour.                       *)
LEMMA SpecScopes == Spec => []SInv
<1>1. Init => SInv
  BY DEF Init, Quiet, NoCommand, SInv, Scopes
<1>2. ASSUME Inv, SInv, [Next]_vars
      PROVE  SInv'
  <2>1. ASSUME NEW o \in Operator, Step(o)
        PROVE  SInv'
    BY <1>2, <2>1, SubmitScopes, QuietScopes, CreateTokenScopes,
       SetEnabledScopes, UpdateScopeScopes DEF Step
  <2>2. CASE UNCHANGED vars
    BY <1>2, <2>2 DEF vars, SInv, Scopes, Alone, TokenOf
  <2> QED
    BY <1>2, <2>1, <2>2, RestartScopes DEF Next
<1> QED
  BY <1>1, <1>2, SpecInv, PTL DEF Spec

(* A token whose commands ran one at a time, to their end, is served as    *)
(* the table has it, wherever a crash fell and whichever of them failed,   *)
(* unless it failed to read back an update that was committed and no       *)
(* command on the token has succeeded since                                *)
(* (replace_runtime_client_token of src/management_client_tokens.rs,       *)
(* load_or_bootstrap of src/client_token_store.rs).                        *)
THEOREM ServedAsStored == Spec => []UndisturbedTokenServedAsStored
<1>1. UInv => UndisturbedTokenServedAsStored
  BY DEF UInv, Undisturbed, UndisturbedTokenServedAsStored, On, Busy, UnderWay,
         TokenOf
<1> QED
  BY <1>1, SpecServes, PTL

(* The columns of an acknowledged scope update stay in the table unless    *)
(* another scope update was issued, however many commands enable, disable  *)
(* or create meanwhile (the columns of the UPDATE in set_enabled of        *)
(* src/client_token_store.rs).                                             *)
THEOREM ScopesStay == Spec => []AcknowledgedScopeStored
<1>1. SInv => AcknowledgedScopeStored
  BY DEF SInv, Scopes, Alone, HasScope, TokenOf, AcknowledgedScopeStored
<1> QED
  BY <1>1, SpecScopes, PTL
=============================================================================
