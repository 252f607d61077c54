-------------------------- MODULE ForwardingProofs --------------------------
(***************************************************************************)
(* What holds of every forwarded request, whatever the route, the          *)
(* credentials, the profiles and the number of requests.                   *)
(*                                                                         *)
(* FInv counts what was sent and compares generations: a single            *)
(* conservative retry, failures that are too old are ignored, a disabled   *)
(* channel stays disabled.  Nothing in it depends on which targets a plan  *)
(* holds: a target may even name a channel that does not exist, which no   *)
(* report can then change.                                                 *)
(*                                                                         *)
(* TInv, on top of it, opens the plan.  A plan holds known channels, all   *)
(* in the state of one admission tier (SoundPlan), because the targets     *)
(* admitted are sorted, drawn and cut but never changed.  And a request    *)
(* remembers enough of its first send (Retrying, AtFirst) not to give the  *)
(* credential that failed to the same target again.                        *)
(***************************************************************************)
EXTENDS Forwarding, SortedSequences

-----------------------------------------------------------------------------
(* The inductive invariant.                                                *)

Fields == {"stage", "context", "plan", "position", "attempt", "retry",
           "frozen", "candidates", "credential", "generation", "sends",
           "failure", "commanded"}

InFlight == {"sending", "filtering", "streaming"}

ChannelState == [health : Health, generation : Nat]

(* A sequence, of whatever elements.                                       *)
IsSequence(s) == s \in Seq({s[n] : n \in DOMAIN s})

Shape ==
  /\ channel \in [Channel -> ChannelState]
  /\ DOMAIN request = Request
  /\ \A r \in Request :
       /\ request[r].stage \in Stage \cup {"new"}
       /\ request[r].stage \in {"planned"} \cup InFlight =>
            DOMAIN request[r] = Fields

(* A request that may be sent twice.                                       *)
Conservative(context) ==
  /\ context.replayable /\ ~context.streaming
  /\ context.retryEndpoint
  /\ context.selection # "NamedChannel"

(* A request was sent at most `most' times, and as often only if it may be *)
(* sent twice.                                                             *)
SentAtMost(q, most) ==
  /\ IsSequence(q.sends)
  /\ Len(q.sends) <= most
  /\ Len(q.sends) = most => Conservative(q.context)

(* What a request has sent at each stage.  The attempt number bounds it:   *)
(* it is 1 before every second send, and decides nothing else.             *)
Attempts(q) ==
  /\ q.stage = "planned" =>
       /\ SentAtMost(q, 1)
       /\ q.attempt = 0 => Len(q.sends) = 0
       /\ q.attempt \in {0, 1}
  /\ q.stage \in InFlight =>
       /\ SentAtMost(q, 2)
       /\ q.attempt = 0 => Len(q.sends) = 1
       /\ q.attempt \in {0, 1}
  /\ q.stage = "done" => SentAtMost(q, 2)

(* A request knows a generation of its channel, and an older one than the  *)
(* present if an operator has set the health since.                        *)
Outdated(q, channels) ==
  q.stage \in InFlight =>
    LET ch == q.plan[q.position].channel
    IN /\ ch \in Channel =>
            /\ q.generation \in Nat
            /\ q.generation <= channels[ch].generation
       /\ q.commanded =>
            /\ ch \in Channel
            /\ q.generation < channels[ch].generation

FInv ==
  /\ Shape
  /\ \A r \in Request : Attempts(request[r]) /\ Outdated(request[r], channel)

-----------------------------------------------------------------------------
(* Sequences.                                                              *)

(* Sending once more makes the sequence of sends one longer.               *)
LEMMA OneMore ==
  ASSUME NEW s, NEW e, IsSequence(s)
  PROVE  /\ IsSequence(Append(s, e))
         /\ Len(Append(s, e)) = Len(s) + 1
         /\ Len(s) \in Nat
<1> DEFINE S == {s[n] : n \in DOMAIN s} \cup {e}
           t == Append(s, e)
<1>1. s \in Seq(S)
  <2>1. {s[n] : n \in DOMAIN s} \subseteq S
    OBVIOUS
  <2> HIDE DEF S
  <2> QED
    BY <2>1, SeqMonotonic DEF IsSequence
<1>2. e \in S
  OBVIOUS
<1> HIDE DEF S
<1>3. /\ t \in Seq(S)
      /\ Len(t) = Len(s) + 1
  BY <1>1, <1>2, AppendProperties
<1>4. Len(s) \in Nat
  BY <1>1, LenProperties
<1> HIDE DEF t
<1>5. t \in Seq({t[n] : n \in DOMAIN t})
  <2>1. /\ Len(t) \in Nat
        /\ t \in [1..Len(t) -> S]
        /\ DOMAIN t = 1..Len(t)
    BY <1>3, LenProperties
  <2>2. t \in [1..Len(t) -> {t[n] : n \in DOMAIN t}]
    BY <2>1
  <2> QED
    BY <2>1, <2>2, SeqDef
<1> QED
  BY <1>3, <1>4, <1>5 DEF IsSequence, t

-----------------------------------------------------------------------------
(* Health.                                                                 *)

(* Every transition of a channel keeps its type, never turns its           *)
(* generation back, and leaves a disabled channel alone.                   *)
Onward(old, new) ==
  /\ new \in ChannelState
  /\ new.generation >= old.generation
  /\ old.health = "Disabled" => new.health = "Disabled"

(* A failure changes the health of a channel only if it was seen at its    *)
(* present generation, and a success that of a channel not disabled.       *)
LEMMA Transitions ==
  ASSUME NEW ch \in ChannelState, NEW seen
  PROVE  /\ \A health \in Health :
              /\ Onward(ch, AutomaticTransition(ch, seen, health))
              /\ ch.generation # seen => AutomaticTransition(ch, seen, health) = ch
         /\ Onward(ch, RelayBalanceSuppression(ch, seen))
         /\ ch.generation # seen => RelayBalanceSuppression(ch, seen) = ch
         /\ Onward(ch, RecordSuccess(ch))
<1>1. \A health \in Health :
        /\ Onward(ch, AutomaticTransition(ch, seen, health))
        /\ ch.generation # seen => AutomaticTransition(ch, seen, health) = ch
  BY DEF Onward, AutomaticTransition, With, ChannelState
<1>2. "HardCooldown" \in Health /\ "Available" \in Health
  BY DEF Health
<1>3. Onward(ch, ch)
  BY DEF Onward, ChannelState
<1>4. Onward(ch, RecordSuccess(ch))
  BY <1>2, <1>3 DEF Onward, RecordSuccess, With, ChannelState
<1> QED
  BY <1>1, <1>2, <1>3, <1>4 DEF RelayBalanceSuppression

(* The operators' commands outdate every request in flight.                *)
LEMMA Commands ==
  ASSUME NEW ch \in ChannelState
  PROVE  /\ Disable(ch) \in ChannelState
         /\ Disable(ch).generation > ch.generation
         /\ Disable(ch).health = "Disabled"
         /\ Enable(ch) \in ChannelState
         /\ Enable(ch).generation > ch.generation
         /\ ch.health # "Disabled" =>
              /\ Reset(ch) \in ChannelState
              /\ Reset(ch).generation > ch.generation
BY DEF Disable, Enable, Reset, With, ChannelState, Health

(* What a report does to the channels, whatever the failure.               *)
LEMMA ApplyMoves ==
  ASSUME Shape, NEW r \in Request, NEW f, Apply(r, f)
  PROVE  /\ channel' \in [Channel -> ChannelState]
         /\ \A ch \in Channel : Onward(channel[ch], channel'[ch])
         /\ (Target(r).channel \in Channel =>
               channel[Target(r).channel].generation # request[r].generation)
              => channel' = channel
<1> DEFINE ch == Target(r).channel
           seen == request[r].generation
           health == IF f.cooldown THEN "ProviderCooldown" ELSE "Degraded"
           next == CASE Mutation(f) = "MarkProviderAccount" ->
                          AutomaticTransition(channel[ch], seen, health)
                     [] Mutation(f) = "MarkRelayBalanceCoolingDown" ->
                          RelayBalanceSuppression(channel[ch], seen)
                     [] Mutation(f) = "MarkChannelCoolingDown" ->
                          AutomaticTransition(channel[ch], seen, "HardCooldown")
                     [] OTHER -> channel[ch]
<1>1. channel' = [channel EXCEPT ![ch] = next]
  BY Zenon DEF Apply
<1>2. channel \in [Channel -> ChannelState]
  BY DEF Shape
<1>3. health \in Health /\ "HardCooldown" \in Health
  BY DEF Health
<1> HIDE DEF ch, seen, health
<1>4. ASSUME ch \in Channel
      PROVE  /\ Onward(channel[ch], next)
             /\ channel[ch].generation # seen => next = channel[ch]
  <2>1. channel[ch] \in ChannelState
    BY <1>2, <1>4
  <2>2. Onward(channel[ch], channel[ch])
    BY <2>1 DEF Onward, ChannelState
  <2>3. /\ Onward(channel[ch], AutomaticTransition(channel[ch], seen, health))
        /\ Onward(channel[ch],
                  AutomaticTransition(channel[ch], seen, "HardCooldown"))
        /\ Onward(channel[ch], RelayBalanceSuppression(channel[ch], seen))
        /\ channel[ch].generation # seen =>
             /\ AutomaticTransition(channel[ch], seen, health) = channel[ch]
             /\ AutomaticTransition(channel[ch], seen, "HardCooldown")
                  = channel[ch]
             /\ RelayBalanceSuppression(channel[ch], seen) = channel[ch]
    BY <1>3, <2>1, Transitions
  <2> QED
    BY <2>2, <2>3
<1> HIDE DEF next
<1>5. \A c \in Channel : channel[c] \in ChannelState /\ Onward(channel[c], channel[c])
  BY <1>2 DEF Onward, ChannelState
<1>6. /\ channel' \in [Channel -> ChannelState]
      /\ \A c \in Channel : Onward(channel[c], channel'[c])
  BY <1>1, <1>2, <1>4, <1>5 DEF Onward
<1>7. ASSUME ch \in Channel => channel[ch].generation # seen
      PROVE  channel' = channel
  <2>1. CASE ch \in Channel
    BY <1>1, <1>2, <1>4, <1>7, <2>1
  <2>2. CASE ch \notin Channel
    BY <1>1, <1>2, <2>2
  <2> QED
    BY <2>1, <2>2
<1> QED
  BY <1>6, <1>7 DEF ch, seen

-----------------------------------------------------------------------------
(* Steps.                                                                  *)

Healthier ==
  /\ channel' \in [Channel -> ChannelState]
  /\ \A ch \in Channel : Onward(channel[ch], channel'[ch])

(* An outdated request stays outdated while generations only grow.         *)
LEMMA StaysOutdated ==
  ASSUME Shape, Healthier, NEW q, Outdated(q, channel)
  PROVE  Outdated(q, channel')
<1>1. \A ch \in Channel :
        /\ channel[ch] \in ChannelState
        /\ channel'[ch] \in ChannelState
        /\ channel'[ch].generation >= channel[ch].generation
  BY DEF Shape, Healthier, Onward
<1>2. \A ch \in Channel : /\ channel[ch].generation \in Nat
                          /\ channel'[ch].generation \in Nat
  BY <1>1 DEF ChannelState
<1> QED
  BY <1>1, <1>2 DEF Outdated

(* A step that gives one request a sound record, and turns no generation   *)
(* back, keeps the invariant.                                              *)
LEMMA MoveKeeps ==
  ASSUME FInv, Healthier, NEW r \in Request, NEW q,
         request' = [request EXCEPT ![r] = q],
         q.stage \in Stage,
         q.stage \in {"planned"} \cup InFlight => DOMAIN q = Fields,
         Attempts(q), Outdated(q, channel')
  PROVE  FInv'
<1>1. DOMAIN request = Request
  BY DEF FInv, Shape
<1>2. /\ DOMAIN request' = Request
      /\ request'[r] = q
      /\ \A s \in Request : s # r => request'[s] = request[s]
  BY <1>1
<1>3. Shape'
  BY <1>2 DEF FInv, Shape, Healthier
<1>4. ASSUME NEW s \in Request
      PROVE  Attempts(request'[s]) /\ Outdated(request'[s], channel')
  <2>1. CASE s = r
    BY <1>2, <2>1
  <2>2. CASE s # r
    BY <1>2, <2>2, StaysOutdated DEF FInv
  <2> QED
    BY <2>1, <2>2
<1>5. ASSUME NEW s \in Request
      PROVE  Attempts(request[s])' /\ Outdated(request[s], channel)'
  BY <1>4 DEF Attempts, Outdated, SentAtMost
<1> QED
  BY <1>3, <1>4 DEF FInv

(* A step that changes no request and turns no generation back.            *)
LEMMA QuietKeeps ==
  ASSUME FInv, Healthier, UNCHANGED request
  PROVE  FInv'
<1>1. Shape'
  BY DEF FInv, Shape, Healthier
<1>2. \A s \in Request : Outdated(request[s], channel')
  BY StaysOutdated DEF FInv
<1> QED
  BY <1>1, <1>2 DEF FInv

(* A step that leaves the channels alone turns no generation back.         *)
LEMMA SameIsHealthier ==
  ASSUME Shape, UNCHANGED channel
  PROVE  Healthier
<1>1. \A ch \in Channel : channel[ch] \in ChannelState
  BY DEF Shape
<1> QED
  BY <1>1 DEF Healthier, Onward, Shape, ChannelState

(* A sequence of sends of known length.                                    *)
LEMMA SentIsNat ==
  ASSUME NEW s, IsSequence(s)
  PROVE  Len(s) \in Nat
BY LenProperties DEF IsSequence

(* Nothing was sent by a request just planned.                             *)
LEMMA PlannedSound ==
  ASSUME NEW context, NEW plan
  PROVE  LET q == Planned(context, plan)
         IN /\ q.stage \in {"planned", "done"}
            /\ DOMAIN q = Fields
            /\ Attempts(q)
<1> DEFINE q == Planned(context, plan)
<1>1. /\ q.stage \in {"planned", "done"}
      /\ q.sends = <<>>
      /\ q.attempt = 0
      /\ DOMAIN q = Fields
  BY DEF Planned, Fields
<1> HIDE DEF q
<1>2. IsSequence(<<>>) /\ Len(<<>>) = 0
  BY EmptySeq DEF IsSequence
<1>3. Attempts(q)
  BY <1>1, <1>2 DEF Attempts, SentAtMost, InFlight
<1> QED
  BY <1>1, <1>3 DEF q

(* A request done with a target, planned for the next one or answered, has *)
(* sent what it had sent.                                                  *)
LEMMA NextTargetSound ==
  ASSUME NEW q, DOMAIN q = Fields, SentAtMost(q, 1)
  PROVE  LET n == NextTarget(q)
         IN /\ n.stage \in {"planned", "done"}
            /\ n.stage = "planned" => DOMAIN n = Fields
            /\ Attempts(n)
<1> DEFINE n == NextTarget(q)
<1>0. Len(q.sends) \in Nat
  BY SentIsNat DEF SentAtMost
<1>1. CASE q.position < Len(q.plan)
  <2>1. /\ n.stage = "planned" /\ n.attempt = 1 /\ DOMAIN n = Fields
        /\ n.sends = q.sends /\ n.context = q.context
    BY <1>1 DEF NextTarget, Fields
  <2> HIDE DEF n
  <2>2. SentAtMost(n, 1)
    BY <2>1 DEF SentAtMost
  <2>3. Attempts(n)
    BY <1>0, <2>1, <2>2 DEF Attempts, SentAtMost, InFlight
  <2> QED
    BY <2>1, <2>3 DEF n
<1>2. CASE ~(q.position < Len(q.plan))
  <2>1. n.stage = "done" /\ n.sends = q.sends /\ n.context = q.context
    BY <1>2 DEF NextTarget, Finished
  <2>2. SentAtMost(q, 2)
    BY <1>0 DEF SentAtMost
  <2> HIDE DEF n
  <2>3. SentAtMost(n, 2)
    BY <2>1, <2>2 DEF SentAtMost
  <2>4. Attempts(n)
    BY <2>1, <2>3 DEF Attempts, InFlight
  <2> QED
    BY <2>1, <2>4 DEF n
<1> QED
  BY <1>1, <1>2

(* A request answered has sent what it had sent.                           *)
LEMMA FinishedSound ==
  ASSUME NEW q, SentAtMost(q, 2)
  PROVE  /\ Finished(q).stage = "done"
         /\ Attempts(Finished(q))
<1>1. /\ Finished(q).stage = "done"
      /\ Finished(q).sends = q.sends /\ Finished(q).context = q.context
  BY DEF Finished
<1> QED
  BY <1>1 DEF Attempts, SentAtMost, InFlight

(* The policy retries nothing but a first attempt of a request that may be *)
(* sent twice.                                                             *)
LEMMA RetriesConservative ==
  ASSUME NEW f, NEW s, NEW p, NEW deadlineFits
  PROVE  LET directive == Directive(f, s, p, deadlineFits)
         IN /\ directive \in {"ReturnCurrentError", "RetryRouteTarget",
                              "RetrySameTarget", "RetryCredential"}
            /\ directive # "ReturnCurrentError" =>
                 s.attempt = 0 /\ Conservative(s.context)
<1> DEFINE directive == Directive(f, s, p, deadlineFits)
<1>1. CASE ~RetryPossible(f, s, deadlineFits)
  BY <1>1, Zenon DEF Directive
<1>2. CASE RetryPossible(f, s, deadlineFits)
  <2>1. s.attempt = 0 /\ Conservative(s.context)
    BY <1>2 DEF RetryPossible, EvidenceAllows, Conservative
  <2>2. directive \in {"ReturnCurrentError", "RetryRouteTarget",
                       "RetrySameTarget", "RetryCredential"}
    BY <1>2 DEF Directive
  <2> QED
    BY <2>1, <2>2
<1> QED
  BY <1>1, <1>2

-----------------------------------------------------------------------------
(* One lemma per action.                                                   *)

(* Planning sends nothing.                                                 *)
LEMMA PlanKeeps ==
  ASSUME FInv, NEW r \in Request, NEW context, Plan(r, context)
  PROVE  FInv'
<1>1. PICK plan : request' = [request EXCEPT ![r] = Planned(context, plan)]
  BY Zenon DEF Plan
<1>2. Healthier
  BY SameIsHealthier DEF FInv, Plan, KeepShared
<1> DEFINE q == Planned(context, plan)
<1>3. /\ q.stage \in {"planned", "done"}
      /\ DOMAIN q = Fields
      /\ Attempts(q)
  BY PlannedSound
<1> HIDE DEF q
<1>4. q.stage \in Stage /\ Outdated(q, channel')
  BY <1>3 DEF Stage, Outdated, InFlight
<1> QED
  BY <1>1, <1>2, <1>3, <1>4, MoveKeeps DEF q

(* A planned request is sound when it passes on.                           *)
LEMMA PassOnKeeps ==
  ASSUME FInv, Healthier, NEW r \in Request, NEW q,
         DOMAIN q = Fields, SentAtMost(q, 1),
         request' = [request EXCEPT ![r] = NextTarget(q)]
  PROVE  FInv'
<1> DEFINE n == NextTarget(q)
<1>1. /\ n.stage \in {"planned", "done"}
      /\ n.stage = "planned" => DOMAIN n = Fields
      /\ Attempts(n)
  BY NextTargetSound
<1> HIDE DEF n
<1>2. /\ n.stage \in Stage
      /\ n.stage \in {"planned"} \cup InFlight => DOMAIN n = Fields
      /\ Outdated(n, channel')
  BY <1>1 DEF Stage, Outdated, InFlight
<1> QED
  BY <1>1, <1>2, MoveKeeps DEF n

(* A request answered is sound.                                            *)
LEMMA AnswerKeeps ==
  ASSUME FInv, Healthier, NEW r \in Request, NEW q, SentAtMost(q, 2),
         request' = [request EXCEPT ![r] = Finished(q)]
  PROVE  FInv'
<1> DEFINE n == Finished(q)
<1>1. n.stage = "done" /\ Attempts(n)
  BY FinishedSound
<1> HIDE DEF n
<1>2. /\ n.stage \in Stage
      /\ n.stage \notin {"planned"} \cup InFlight
      /\ Outdated(n, channel')
  BY <1>1 DEF Stage, Outdated, InFlight
<1> QED
  BY <1>1, <1>2, MoveKeeps DEF n

(* A commit sends once more, from the generation it found, or passes on.   *)
LEMMA CommitKeeps ==
  ASSUME FInv, NEW r \in Request, Commit(r)
  PROVE  FInv'
<1> DEFINE old == request[r]
           ch == Target(r).channel
<1>1. /\ old.stage = "planned" /\ DOMAIN old = Fields
      /\ SentAtMost(old, 1)
      /\ old.attempt = 0 => Len(old.sends) = 0
      /\ old.attempt \in {0, 1}
  BY DEF Commit, FInv, Shape, Attempts
<1>2. Healthier
  BY SameIsHealthier DEF FInv, Commit, KeepShared
<1>3. CASE request' = [request EXCEPT ![r] = NextTarget(@)]
  <2>1. request' = [request EXCEPT ![r] = NextTarget(old)]
    BY <1>3
  <2> QED
    BY <1>1, <1>2, <2>1, PassOnKeeps
<1> DEFINE q(c, candidates) ==
             [request[r] EXCEPT !.stage = "sending",
                                !.retry = NoCredential,
                                !.frozen = TRUE,
                                !.candidates = candidates,
                                !.credential = c,
                                !.generation = channel[ch].generation,
                                !.commanded = FALSE,
                                !.sends = Append(@, [target |-> request[r].position,
                                                     credential |-> c,
                                                     after |-> request[r].failure])]
<1>4. ASSUME NEW c, NEW candidates,
             request' = [request EXCEPT ![r] = q(c, candidates)]
      PROVE  FInv'
  <2> DEFINE n == q(c, candidates)
             e == [target |-> old.position, credential |-> c,
                   after |-> old.failure]
  <2>1. /\ DOMAIN n = Fields
        /\ n.stage = "sending"
        /\ n.sends = Append(old.sends, e)
        /\ n.context = old.context
        /\ n.attempt = old.attempt
        /\ n.generation = channel[ch].generation
        /\ n.plan[n.position].channel = ch
        /\ n.commanded = FALSE
    BY <1>1 DEF Fields, Target
  <2>2. /\ IsSequence(n.sends)
        /\ Len(n.sends) = Len(old.sends) + 1
        /\ Len(old.sends) \in Nat
    <3> HIDE DEF n, e
    <3> QED
      BY <1>1, <2>1, OneMore DEF SentAtMost
  <2>3. channel \in [Channel -> ChannelState] /\ UNCHANGED channel
    BY DEF FInv, Shape, Commit, KeepShared
  <2> HIDE DEF n, ch
  <2>4. SentAtMost(n, 2)
    <3>1. Len(old.sends) <= 1 /\ (Len(old.sends) = 1 => Conservative(old.context))
      BY <1>1 DEF SentAtMost
    <3>2. Len(n.sends) <= 2 /\ (Len(n.sends) = 2 => Len(old.sends) = 1)
      <4> DEFINE before == Len(old.sends)
                 after == Len(n.sends)
      <4>1. before \in Nat /\ after = before + 1 /\ before <= 1
        BY <2>2, <3>1
      <4> HIDE DEF before, after
      <4>2. after <= 2 /\ (after = 2 => before = 1)
        BY <4>1
      <4> QED
        BY <4>2 DEF before, after
    <3>3. Len(n.sends) = 2 => Conservative(n.context)
      BY <2>1, <3>1, <3>2, Zenon
    <3> QED
      BY <2>2, <3>2, <3>3 DEF SentAtMost
  <2>5. Attempts(n)
    BY <1>1, <2>1, <2>2, <2>4 DEF Attempts
  <2>6. ch \in Channel => /\ channel[ch].generation \in Nat
                          /\ channel'[ch].generation = channel[ch].generation
    BY <2>3 DEF ChannelState
  <2>7. Outdated(n, channel')
    BY <2>1, <2>6 DEF Outdated
  <2>8. n.stage \in Stage
    BY <2>1 DEF Stage
  <2> QED
    BY <1>2, <1>4, <2>1, <2>5, <2>7, <2>8, MoveKeeps DEF n
<1>5. \/ request' = [request EXCEPT ![r] = NextTarget(@)]
      \/ \E c, candidates : request' = [request EXCEPT ![r] = q(c, candidates)]
  BY Zenon DEF Commit
<1> QED
  BY <1>3, <1>4, <1>5

(* A report retries only a first attempt, and what it answers was sent at  *)
(* most twice.                                                             *)
LEMMA ReportKeeps ==
  ASSUME FInv, NEW r \in Request, Report(r)
  PROVE  FInv'
<1> DEFINE old == request[r]
<1>1. /\ old.stage = "sending" /\ DOMAIN old = Fields
      /\ SentAtMost(old, 2)
      /\ old.attempt = 0 => Len(old.sends) = 1
      /\ old.attempt \in {0, 1}
      /\ Outdated(old, channel)
  BY DEF Report, FInv, Shape, Attempts, InFlight
<1> DEFINE directive(f, d) == Directive(f, Snapshot(r), profile, d)
           failed(f) == [request[r] EXCEPT !.failure = f.scope]
<1>2. PICK f, d :
        /\ Apply(r, f)
        /\ \/ request' = [request EXCEPT ![r] = Continue(failed(f), directive(f, d))]
           \/ request' = [request EXCEPT ![r].stage = "filtering"]
  BY Zenon DEF Report
<1>3. Healthier
  BY <1>2, ApplyMoves DEF FInv, Healthier
<1>4. CASE request' = [request EXCEPT ![r].stage = "filtering"]
  <2> DEFINE n == [request[r] EXCEPT !.stage = "filtering"]
  <2>1. request' = [request EXCEPT ![r] = n]
    BY <1>4
  <2>2. /\ DOMAIN n = Fields /\ n.stage = "filtering"
        /\ n.sends = old.sends /\ n.context = old.context
        /\ n.attempt = old.attempt /\ n.generation = old.generation
        /\ n.plan = old.plan /\ n.position = old.position
        /\ n.commanded = old.commanded
    BY <1>1 DEF Fields
  <2>3. Outdated(old, channel')
    BY <1>1, <1>3, StaysOutdated DEF FInv
  <2> HIDE DEF n
  <2>4. Attempts(n)
    BY <1>1, <2>2 DEF Attempts, SentAtMost
  <2>5. Outdated(n, channel')
    BY <1>1, <2>2, <2>3 DEF Outdated, InFlight
  <2>6. n.stage \in Stage
    BY <2>2 DEF Stage
  <2> QED
    BY <1>3, <2>1, <2>2, <2>4, <2>5, <2>6, MoveKeeps
<1>5. CASE request' = [request EXCEPT ![r] = Continue(failed(f), directive(f, d))]
  <2>1. /\ DOMAIN failed(f) = Fields
        /\ failed(f).sends = old.sends
        /\ failed(f).context = old.context
        /\ failed(f).attempt = old.attempt
    BY <1>1 DEF Fields
  <2>2. /\ directive(f, d) \in {"ReturnCurrentError", "RetryRouteTarget",
                                "RetrySameTarget", "RetryCredential"}
        /\ directive(f, d) # "ReturnCurrentError" =>
             old.attempt = 0 /\ Conservative(old.context)
    <3>1. Snapshot(r).attempt = old.attempt /\ Snapshot(r).context = old.context
      BY DEF Snapshot
    <3> QED
      BY <3>1, RetriesConservative
  <2> DEFINE g == failed(f)
  <2>3. CASE directive(f, d) = "ReturnCurrentError"
    <3>1. request' = [request EXCEPT ![r] = Finished(failed(f))]
      BY <1>5, <2>3 DEF Continue
    <3> HIDE DEF failed
    <3>2. SentAtMost(failed(f), 2)
      BY <1>1, <2>1 DEF SentAtMost
    <3> QED
      BY <1>3, <3>1, <3>2, AnswerKeeps
  <2>4. CASE directive(f, d) = "RetryRouteTarget"
    <3>1. request' = [request EXCEPT ![r] = NextTarget(failed(f))]
      BY <1>5, <2>4 DEF Continue
    <3> HIDE DEF failed
    <3>2. Conservative(failed(f).context) /\ Len(failed(f).sends) = 1
      BY <1>1, <2>1, <2>2, <2>4
    <3>3. SentAtMost(failed(f), 1)
      BY <1>1, <2>1, <3>2 DEF SentAtMost
    <3> QED
      BY <1>3, <2>1, <3>1, <3>3, PassOnKeeps
  <2>5. ASSUME NEW n, request' = [request EXCEPT ![r] = n],
               directive(f, d) # "ReturnCurrentError",
               n.stage = "planned", n.attempt = old.attempt + 1,
               DOMAIN n = Fields, n.sends = old.sends,
               n.context = old.context
        PROVE  FInv'
    <3>1. Conservative(n.context) /\ Len(n.sends) = 1 /\ IsSequence(n.sends)
      BY <1>1, <2>2, <2>5 DEF SentAtMost
    <3>3. SentAtMost(n, 1)
      BY <3>1 DEF SentAtMost
    <3>2. Attempts(n) /\ Outdated(n, channel') /\ n.stage \in Stage
      BY <2>2, <2>5, <3>3 DEF Attempts, Outdated, Stage, InFlight
    <3> QED
      BY <1>3, <2>5, <3>2, MoveKeeps
  <2>6. CASE directive(f, d) = "RetrySameTarget"
    <3> DEFINE n == [failed(f) EXCEPT !.stage = "planned", !.attempt = @ + 1]
    <3>1. request' = [request EXCEPT ![r] = n]
      BY <1>5, <2>6 DEF Continue
    <3> HIDE DEF failed
    <3>2. /\ n.stage = "planned" /\ n.attempt = old.attempt + 1
          /\ DOMAIN n = Fields /\ n.sends = old.sends
          /\ n.context = old.context
      BY <2>1 DEF Fields
    <3> QED
      BY <2>5, <2>6, <3>1, <3>2
  <2>7. CASE directive(f, d) = "RetryCredential"
    <3> DEFINE n == [failed(f) EXCEPT !.stage = "planned", !.attempt = @ + 1,
                                      !.retry = Head(failed(f).candidates),
                                      !.candidates = Tail(@)]
    <3>1. request' = [request EXCEPT ![r] = n]
      BY <1>5, <2>7 DEF Continue
    <3> HIDE DEF failed
    <3>2. /\ n.stage = "planned" /\ n.attempt = old.attempt + 1
          /\ DOMAIN n = Fields /\ n.sends = old.sends
          /\ n.context = old.context
      BY <2>1 DEF Fields
    <3> QED
      BY <2>5, <2>7, <3>1, <3>2
  <2> QED
    BY <2>2, <2>3, <2>4, <2>6, <2>7
<1> QED
  BY <1>2, <1>4, <1>5

(* A response the filter rejects is answered.                              *)
LEMMA FilterKeeps ==
  ASSUME FInv, NEW r \in Request, Filter(r)
  PROVE  FInv'
<1>1. SentAtMost(request[r], 2)
  BY DEF Filter, FInv, Attempts, InFlight
<1>2. Healthier
  <2>1. CASE UNCHANGED <<channel, open, credential>>
    BY <2>1, SameIsHealthier DEF FInv
  <2>2. CASE \E scope \in {"Credential", "Channel"} : Apply(r, FilterFailure(scope))
    BY <2>2, ApplyMoves DEF FInv, Healthier
  <2> QED
    BY <2>1, <2>2 DEF Filter
<1>3. request' = [request EXCEPT ![r] = Finished(request[r])]
  BY DEF Filter
<1> QED
  BY <1>1, <1>2, <1>3, AnswerKeeps

(* A stream that ends is answered.                                         *)
LEMMA EndStreamKeeps ==
  ASSUME FInv, NEW r \in Request, EndStream(r)
  PROVE  FInv'
<1>1. SentAtMost(request[r], 2)
  BY DEF EndStream, FInv, Attempts, InFlight
<1>2. Healthier
  <2>1. CASE UNCHANGED <<channel, open, credential>>
    BY <2>1, SameIsHealthier DEF FInv
  <2>2. CASE Apply(r, TransportFailure)
    BY <2>2, ApplyMoves DEF FInv, Healthier
  <2> QED
    BY <2>1, <2>2 DEF EndStream
<1>3. request' = [request EXCEPT ![r] = Finished(request[r])]
  BY DEF EndStream
<1> QED
  BY <1>1, <1>2, <1>3, AnswerKeeps

(* What a success does to the channels.                                    *)
LEMMA SuccessMoves ==
  ASSUME Shape, NEW ch,
         channel' = [channel EXCEPT ![ch] = RecordSuccess(@)]
  PROVE  Healthier
<1>1. channel \in [Channel -> ChannelState]
  BY DEF Shape
<1>2. ASSUME NEW c \in Channel
      PROVE  /\ Onward(channel[c], channel[c])
             /\ Onward(channel[c], RecordSuccess(channel[c]))
             /\ channel'[c] \in {channel[c], RecordSuccess(channel[c])}
  <2>1. channel[c] \in ChannelState
    BY <1>1
  <2>2. Onward(channel[c], channel[c])
    BY <2>1 DEF Onward, ChannelState
  <2>3. channel'[c] = IF c = ch THEN RecordSuccess(channel[c]) ELSE channel[c]
    BY <1>1
  <2> QED
    BY <2>1, <2>2, <2>3, Transitions
<1>3. \A c \in Channel : Onward(channel[c], channel'[c])
  BY <1>2
<1>4. DOMAIN channel' = Channel
  BY <1>1
<1>5. channel' = [c \in Channel |-> channel'[c]]
  BY <1>1, <1>4
<1> QED
  BY <1>3, <1>4, <1>5 DEF Healthier, Onward

(* A success streams what was sent.                                        *)
LEMMA SucceedKeeps ==
  ASSUME FInv, NEW r \in Request, Succeed(r)
  PROVE  FInv'
<1> DEFINE old == request[r]
           n == [request[r] EXCEPT !.stage = "streaming"]
<1>1. /\ old.stage = "sending" /\ DOMAIN old = Fields
      /\ SentAtMost(old, 2)
      /\ old.attempt = 0 => Len(old.sends) = 1
      /\ old.attempt \in {0, 1}
      /\ Outdated(old, channel)
  BY DEF Succeed, FInv, Shape, Attempts, InFlight
<1>2. Healthier
  BY SuccessMoves DEF Succeed, FInv
<1>3. request' = [request EXCEPT ![r] = n]
  BY DEF Succeed
<1>4. /\ DOMAIN n = Fields /\ n.stage = "streaming"
      /\ n.sends = old.sends /\ n.context = old.context
      /\ n.attempt = old.attempt /\ n.generation = old.generation
      /\ n.plan = old.plan /\ n.position = old.position
      /\ n.commanded = old.commanded
  BY <1>1 DEF Fields
<1>5. Outdated(old, channel')
  BY <1>1, <1>2, StaysOutdated DEF FInv
<1> HIDE DEF n
<1>6. Attempts(n)
  BY <1>1, <1>4 DEF Attempts, SentAtMost
<1>7. Outdated(n, channel')
  BY <1>1, <1>4, <1>5 DEF Outdated, InFlight
<1>8. n.stage \in Stage
  BY <1>4 DEF Stage
<1> QED
  BY <1>2, <1>3, <1>4, <1>6, <1>7, <1>8, MoveKeeps

(* A command gives its channel a new generation, and so outdates every     *)
(* request in flight on it.                                                *)
LEMMA CommandKeeps ==
  ASSUME FInv, NEW ch \in Channel, NEW result \in ChannelState,
         result.generation > channel[ch].generation,
         Command(ch, result)
  PROVE  FInv'
<1>1. /\ channel \in [Channel -> ChannelState]
      /\ channel' = [channel EXCEPT ![ch] = result]
      /\ DOMAIN request' = Request
  BY DEF FInv, Shape, Command
<1>2. ASSUME NEW c \in Channel
      PROVE  /\ channel[c] \in ChannelState /\ channel'[c] \in ChannelState
             /\ channel[c].generation \in Nat /\ channel'[c].generation \in Nat
             /\ channel'[c].generation >= channel[c].generation
             /\ c = ch => channel'[c].generation > channel[c].generation
  <2>1. channel[c] \in ChannelState /\ channel[c].generation \in Nat
    BY <1>1 DEF ChannelState
  <2>2. channel'[c] = IF c = ch THEN result ELSE channel[c]
    BY <1>1
  <2>3. result.generation \in Nat
    BY DEF ChannelState
  <2> QED
    BY <2>1, <2>2, <2>3
<1>3. channel' \in [Channel -> ChannelState]
  BY <1>1
<1>4. ASSUME NEW s \in Request
      PROVE  /\ request'[s].stage \in Stage \cup {"new"}
             /\ request'[s].stage \in {"planned"} \cup InFlight =>
                  DOMAIN request'[s] = Fields
             /\ Attempts(request'[s])
             /\ Outdated(request'[s], channel')
  <2> DEFINE old == request[s]
             n == [request[s] EXCEPT !.commanded = TRUE]
             hit == old.stage \in InFlight /\ Target(s).channel = ch
  <2>1. /\ old.stage \in Stage \cup {"new"}
        /\ old.stage \in {"planned"} \cup InFlight => DOMAIN old = Fields
        /\ Attempts(old)
        /\ Outdated(old, channel)
    BY DEF FInv, Shape
  <2>2. request'[s] = IF hit THEN n ELSE old
    BY Zenon DEF Command, InFlight
  <2>3. CASE hit
    <3>1. /\ DOMAIN n = Fields /\ n.stage = old.stage
          /\ n.sends = old.sends /\ n.context = old.context
          /\ n.attempt = old.attempt /\ n.generation = old.generation
          /\ n.plan = old.plan /\ n.position = old.position
          /\ n.commanded = TRUE
      BY <2>1, <2>3 DEF Fields
    <3>2. n.plan[n.position].channel = ch
      BY <2>3, <3>1 DEF Target
    <3>3. request'[s] = n /\ old.stage \in InFlight
      BY <2>2, <2>3
    <3>4. old.generation \in Nat /\ old.generation <= channel[ch].generation
      BY <2>1, <2>3 DEF Outdated, Target
    <3> HIDE DEF n
    <3>5. Attempts(n)
      BY <2>1, <3>1 DEF Attempts, SentAtMost
    <3>6. Outdated(n, channel')
      BY <1>2, <3>1, <3>2, <3>4 DEF Outdated
    <3> QED
      BY <2>1, <3>1, <3>3, <3>5, <3>6
  <2>4. CASE ~hit
    <3>1. request'[s] = old
      BY <2>2, <2>4
    <3>2. Outdated(old, channel')
      BY <1>2, <2>1 DEF Outdated
    <3> QED
      BY <2>1, <3>1, <3>2
  <2> QED
    BY <2>3, <2>4
<1> QED
  BY <1>1, <1>3, <1>4 DEF FInv, Shape

(* A cooldown that ends turns no generation back.                          *)
LEMMA CooldownEndsKeeps ==
  ASSUME FInv, NEW ch \in Channel, ChannelCooldownEnds(ch)
  PROVE  FInv'
<1>1. channel \in [Channel -> ChannelState]
  BY DEF FInv, Shape
<1>2. channel' = [channel EXCEPT ![ch] =
                    [channel[ch] EXCEPT !.health = "CooldownOver"]]
  BY DEF ChannelCooldownEnds
<1>3. channel[ch].health # "Disabled"
  BY DEF ChannelCooldownEnds, CoolingDown
<1> DEFINE new == [channel[ch] EXCEPT !.health = "CooldownOver"]
<1>4. new \in ChannelState /\ new.generation = channel[ch].generation
  BY <1>1 DEF ChannelState, Health
<1> HIDE DEF new
<1>5. ASSUME NEW c \in Channel
      PROVE  channel'[c] \in ChannelState /\ Onward(channel[c], channel'[c])
  <2>1. channel'[c] = IF c = ch THEN new ELSE channel[c]
    BY <1>1, <1>2 DEF new
  <2>2. channel[c] \in ChannelState /\ channel[c].generation \in Nat
    BY <1>1 DEF ChannelState
  <2> QED
    BY <1>3, <1>4, <2>1, <2>2 DEF Onward
<1>6. channel' \in [Channel -> ChannelState]
  BY <1>1, <1>2, <1>4 DEF new
<1>7. UNCHANGED request
  BY DEF ChannelCooldownEnds
<1> QED
  BY <1>5, <1>6, <1>7, QuietKeeps DEF Healthier

-----------------------------------------------------------------------------
(* Every step keeps the invariant.                                         *)
LEMMA NextKeeps ==
  ASSUME FInv, [Next]_vars
  PROVE  FInv'
<1>1. ASSUME NEW r \in Request, NEW context \in Contexts, Plan(r, context)
      PROVE  FInv'
  BY <1>1, PlanKeeps
<1>2. ASSUME NEW r \in Request, Forward(r)
      PROVE  FInv'
  BY <1>2, CommitKeeps, ReportKeeps, FilterKeeps, SucceedKeeps, EndStreamKeeps
     DEF Forward
<1>3. ASSUME NEW ch \in Channel,
             DisableChannel(ch) \/ EnableChannel(ch) \/ ResetChannelHealth(ch)
      PROVE  FInv'
  <2>1. channel[ch] \in ChannelState
    BY DEF FInv, Shape
  <2>2. CASE DisableChannel(ch)
    BY <2>1, <2>2, Commands, CommandKeeps DEF DisableChannel
  <2>3. CASE EnableChannel(ch)
    BY <2>1, <2>3, Commands, CommandKeeps DEF EnableChannel
  <2>4. CASE ResetChannelHealth(ch)
    BY <2>1, <2>4, Commands, CommandKeeps DEF ResetChannelHealth
  <2> QED
    BY <1>3, <2>2, <2>3, <2>4
<1>4. ASSUME NEW ch \in Channel, ChannelCooldownEnds(ch)
      PROVE  FInv'
  BY <1>4, CooldownEndsKeeps
<1>5. ASSUME UNCHANGED <<channel, request>>
      PROVE  FInv'
  BY <1>5, SameIsHealthier, QuietKeeps DEF FInv
<1>6. ASSUME NEW c \in Credential, ManageCredential(c) \/ CredentialThaws(c)
      PROVE  FInv'
  BY <1>5, <1>6 DEF ManageCredential, CredentialThaws
<1>7. ASSUME NEW d \in Domain, DomainCooldownEnds(d)
      PROVE  FInv'
  BY <1>5, <1>7 DEF DomainCooldownEnds
<1>8. CASE UNCHANGED vars
  BY <1>5, <1>8 DEF vars
<1> QED
  BY <1>1, <1>2, <1>3, <1>4, <1>6, <1>7, <1>8 DEF Next

(* Initially nothing was sent.                                             *)
LEMMA InitFInv == Init => FInv
<1> SUFFICES ASSUME Init PROVE FInv
  OBVIOUS
<1>1. channel \in [Channel -> ChannelState]
  BY DEF Init, NewChannel, ChannelState, Health
<1>2. /\ DOMAIN request = Request
      /\ \A r \in Request : request[r].stage = "new"
  BY DEF Init, New
<1> QED
  BY <1>1, <1>2 DEF FInv, Shape, Attempts, Outdated, InFlight

(* The invariant of every behaviour.                                       *)
LEMMA Forwarded == Spec => []FInv
<1>1. FInv /\ [Next]_vars => FInv'
  BY NextKeeps
<1> QED
  BY <1>1, InitFInv, PTL DEF Spec

(* A request is sent at most twice, and so often only where the policy     *)
(* allows a retry: whatever mixture of credential, target and channel      *)
(* retries leads there (forward_with_pools of src/proxy.rs and             *)
(* transition_after_failure of src/routing.rs).                            *)
THEOREM SingleRetry == Spec => []OneConservativeRetry
<1>1. FInv => OneConservativeRetry
  <2> SUFFICES ASSUME FInv, NEW r \in Request
               PROVE  /\ Len(Sends(r)) <= 2
                      /\ Len(Sends(r)) = 2 => Conservative(request[r].context)
    BY DEF OneConservativeRetry, Conservative
  <2>1. CASE request[r].stage = "new"
    <3>1. Len(Sends(r)) = 0
      BY <2>1, EmptySeq DEF Sends
    <3> QED
      BY <3>1
  <2>2. CASE request[r].stage # "new"
    <3>1. Sends(r) = request[r].sends
      BY <2>2 DEF Sends
    <3>2. \/ SentAtMost(request[r], 1)
          \/ SentAtMost(request[r], 2)
      BY <2>2 DEF FInv, Shape, Stage, InFlight, Attempts
    <3>3. Len(request[r].sends) \in Nat
      BY <3>2, SentIsNat DEF SentAtMost
    <3> QED
      BY <3>1, <3>2, <3>3 DEF SentAtMost
  <2> QED
    BY <2>1, <2>2
<1> QED
  BY <1>1, Forwarded, PTL

(* A failure of a request sent before an operator set the health of its    *)
(* channel leaves the health of all channels alone                         *)
(* (apply_automatic_channel_health_transition of src/state.rs).            *)
THEOREM StaleReportsIgnored == Spec => OldFailuresIgnored
<1>1. ASSUME FInv, [Next]_vars, NEW r \in Request,
             request[r].stage \in {"sending", "filtering", "streaming"},
             request[r].commanded,
             Report(r) \/ Filter(r) \/ EndStream(r)
      PROVE  channel' = channel
  <2>1. /\ Target(r).channel \in Channel
        /\ request[r].generation < channel[Target(r).channel].generation
        /\ request[r].generation \in Nat
        /\ channel[Target(r).channel].generation \in Nat
    BY <1>1 DEF FInv, Shape, Outdated, Target, InFlight, ChannelState
  <2>2. \/ UNCHANGED channel
        \/ \E f : Apply(r, f)
    BY <1>1, Zenon DEF Report, Filter, EndStream
  <2>3. channel[Target(r).channel].generation # request[r].generation
    BY <2>1
  <2> QED
    BY <1>1, <2>2, <2>3, ApplyMoves DEF FInv
<1>2. FInv /\ [Next]_vars =>
        [\A r \in Request :
           request[r].stage \in {"sending", "filtering", "streaming"} =>
             (request[r].commanded /\ (Report(r) \/ Filter(r) \/ EndStream(r)) =>
                channel' = channel)]_vars
  BY <1>1
<1> QED
  BY <1>2, Forwarded, PTL DEF Spec, OldFailuresIgnored

(* Only enabling a disabled channel takes it out of Disabled: no success,  *)
(* failure, reset or end of a cooldown does.                               *)
THEOREM DisabledStays == Spec => DisabledChannelHolds
<1>1. ASSUME FInv, [Next]_vars, NEW ch \in Channel,
             channel[ch].health = "Disabled", channel'[ch].health # "Disabled"
      PROVE  EnableChannel(ch)
  <2> DEFINE Kept == channel'[ch].health = "Disabled"
  <2>1. Shape /\ channel \in [Channel -> ChannelState]
    BY <1>1 DEF FInv, Shape
  <2>2. ASSUME Healthier PROVE Kept
    BY <1>1, <2>2 DEF Healthier, Onward
  <2>3. ASSUME UNCHANGED channel PROVE Kept
    BY <1>1, <2>3
  <2>4. ASSUME NEW r \in Request, NEW f, Apply(r, f) PROVE Kept
    BY <2>1, <2>2, <2>4, ApplyMoves DEF Healthier
  <2>5. ASSUME NEW r \in Request, Forward(r) PROVE Kept
    <3>1. CASE Commit(r)
      BY <2>3, <3>1 DEF Commit, KeepShared
    <3>2. CASE Report(r) \/ Filter(r) \/ EndStream(r)
      <4>1. UNCHANGED channel \/ \E f : Apply(r, f)
        BY <3>2, Zenon DEF Report, Filter, EndStream
      <4> QED
        BY <2>3, <2>4, <4>1
    <3>3. CASE Succeed(r)
      BY <2>1, <2>2, <3>3, SuccessMoves DEF Succeed
    <3> QED
      BY <2>5, <3>1, <3>2, <3>3 DEF Forward
  <2>6. ASSUME NEW c \in Channel, c # ch, EnableChannel(c) PROVE Kept
    BY <1>1, <2>1, <2>6 DEF EnableChannel, Command
  <2>7. ASSUME NEW c \in Channel, DisableChannel(c) PROVE Kept
    BY <1>1, <2>1, <2>7, Commands DEF DisableChannel, Command
  <2>8. ASSUME NEW c \in Channel, ResetChannelHealth(c) PROVE Kept
    BY <1>1, <2>1, <2>8 DEF ResetChannelHealth, Command
  <2>9. ASSUME NEW c \in Channel, ChannelCooldownEnds(c) PROVE Kept
    BY <1>1, <2>1, <2>9 DEF ChannelCooldownEnds, CoolingDown
  <2>10. ASSUME NEW r \in Request, NEW context \in Contexts, Plan(r, context)
         PROVE  Kept
    BY <2>3, <2>10 DEF Plan, KeepShared
  <2>11. ASSUME NEW c \in Credential, ManageCredential(c) \/ CredentialThaws(c)
         PROVE  Kept
    BY <2>3, <2>11 DEF ManageCredential, CredentialThaws
  <2>12. ASSUME NEW d \in Domain, DomainCooldownEnds(d)
         PROVE  Kept
    BY <2>3, <2>12 DEF DomainCooldownEnds
  <2>13. CASE UNCHANGED vars
    BY <1>1, <2>3, <2>13 DEF vars
  <2> QED
    BY <1>1, <2>5, <2>6, <2>7, <2>8, <2>9, <2>10, <2>11, <2>12, <2>13 DEF Next
<1>2. FInv /\ [Next]_vars =>
        [\A ch \in Channel :
           channel[ch].health = "Disabled" /\ channel'[ch].health # "Disabled" =>
             EnableChannel(ch)]_vars
  BY <1>1
<1> QED
  BY <1>2, Forwarded, PTL DEF Spec, DisabledChannelHolds

-----------------------------------------------------------------------------
(* Numbers and lists.                                                      *)

(* The lesser of two numbers.                                              *)
LEMMA LesserOfTwo ==
  ASSUME NEW a \in Nat, NEW b \in Nat
  PROVE  Min({a, b}) \in {a, b} /\ Min({a, b}) <= a /\ Min({a, b}) <= b
<1>1. \E x \in {a, b} : \A y \in {a, b} : x <= y
  <2>1. a <= b \/ b <= a
    OBVIOUS
  <2> QED
    BY <2>1
<1>2. Min({a, b}) \in {a, b} /\ \A y \in {a, b} : Min({a, b}) <= y
  BY <1>1 DEF Min
<1> QED
  BY <1>2

(* A list cut at a limit.                                                  *)
LEMMA CutList ==
  ASSUME NEW S, NEW s \in Seq(S), NEW limit \in Nat
  PROVE  /\ SubSeq(s, 1, Min({limit, Len(s)})) \in Seq(S)
         /\ Len(SubSeq(s, 1, Min({limit, Len(s)}))) <= limit
<1> DEFINE n == Min({limit, Len(s)})
<1>1. n \in Nat /\ n <= Len(s) /\ n <= limit
  BY LesserOfTwo, LenProperties
<1> HIDE DEF n
<1>2. SubSeq(s, 1, n) \in Seq(S)
  BY <1>1, SubSeqProperties
<1>3. Len(SubSeq(s, 1, n)) = n
  BY <1>1, SubSeqProperties
<1> QED
  BY <1>1, <1>2, <1>3 DEF n

-----------------------------------------------------------------------------
(* Plans.                                                                  *)

(* A target as a plan holds it.                                            *)
PlanTarget == [channel : Channel, frozen : ChannelRouteState]

(* A plan names known channels in known states, all in one state.          *)
SoundPlan(plan) ==
  /\ plan \in Seq(PlanTarget)
  /\ \A m, n \in DOMAIN plan : plan[m].frozen = plan[n].frozen

(* Every reading of a channel is a route state.                            *)
LEMMA ReadingIsState ==
  ASSUME NEW ch, NEW contended
  PROVE  Observed(ch, contended) \in ChannelRouteState
<1>1. \A c, domains, kinds : RouteState(c, domains, contended, kinds) \in
        {"Available", "Degraded", "ProviderCoolingDown",
         "CredentialCoolingDown", "RuntimeUnavailable", "CoolingDown",
         "NoAvailableCredentials", "Disabled"}
  BY DEF RouteState
<1> QED
  BY <1>1 DEF Observed, ChannelRouteState, Severity

(* Outside the blocking states a tier is one state.                        *)
LEMMA TierIsState ==
  ASSUME NEW s \in ChannelRouteState \ Blocking,
         NEW t \in ChannelRouteState \ Blocking, Tier(s) = Tier(t)
  PROVE  s = t
<1>1. ChannelRouteState \ Blocking =
        {"Available", "Degraded", "ProviderCoolingDown", "CredentialCoolingDown"}
  BY DEF ChannelRouteState, Severity, Blocking
<1>2. \A u \in {"Available", "Degraded", "ProviderCoolingDown",
                "CredentialCoolingDown"} :
        Tier(u) = IF u = "Degraded" THEN 1
                  ELSE IF u = "ProviderCoolingDown" THEN 2
                  ELSE IF u = "CredentialCoolingDown" THEN 3 ELSE 0
  BY DEF Tier
<1> QED
  BY <1>1, <1>2

(* The route is a finite sequence of targets.                              *)
LEMMA RouteTargets ==
  /\ IsFiniteSet(DOMAIN Route)
  /\ \A n \in DOMAIN Route : /\ n \in Nat
                             /\ Route[n].channel \in Channel
                             /\ Route[n].priority \in Nat
<1> DEFINE S == [channel : Channel, priority : Nat, enabled : BOOLEAN]
<1>1. Route \in Seq(S)
  BY ForwardingAssumption
<1>2. \A t \in S : t.channel \in Channel /\ t.priority \in Nat
  OBVIOUS
<1> HIDE DEF S
<1>3. /\ Len(Route) \in Nat /\ DOMAIN Route = 1..Len(Route)
      /\ \A n \in 1..Len(Route) : Route[n] \in S
  BY <1>1, LenProperties
<1>4. 1 \in Int /\ Len(Route) \in Int
  BY <1>3
<1>5. IsFiniteSet(1..Len(Route))
  BY <1>4, FS_Interval
<1> QED
  BY <1>2, <1>3, <1>5

(* The admitted targets are targets of the route, all in one state.        *)
LEMMA AdmittedAlike ==
  ASSUME NEW states \in [Channel -> ChannelRouteState], NEW scope
  PROVE  LET S == Admitted(Route, states, scope)
         IN /\ S \subseteq DOMAIN Route
            /\ IsFiniteSet(S)
            /\ \A m, n \in S : states[Route[m].channel] = states[Route[n].channel]
<1> DEFINE S == Admitted(Route, states, scope)
           at(n) == states[Route[n].channel]
<1>1. S \subseteq DOMAIN Route
  BY DEF Admitted, Eligible
<1>2. IsFiniteSet(S)
  BY <1>1, RouteTargets, FS_Subset
<1>3. \A n \in S : at(n) \in ChannelRouteState \ Blocking
  BY RouteTargets DEF Admitted, Eligible
<1>4. \A m, n \in S : Tier(at(m)) = Tier(at(n))
  <2>1. \A m, n \in S : Tier(at(m)) <= Tier(at(n))
    BY DEF Admitted
  <2>2. \A s : Tier(s) \in Int
    BY DEF Tier
  <2> QED
    BY <2>1, <2>2
<1>5. \A m, n \in S : at(m) = at(n)
  BY <1>3, <1>4, TierIsState
<1> QED
  BY <1>1, <1>2, <1>5

(* Targets of the route have an order: by priority and then by position.   *)
LEMMA OrderedTargets ==
  ASSUME NEW S \in SUBSET DOMAIN Route, IsFiniteSet(S)
  PROVE  InPriorityOrder(Route, S) \in SetToSeqs(S)
<1> DEFINE R == {p \in S \X S : Before(Route, p[1], p[2])}
<1>1. \A m \in S : m \in Int /\ Route[m].priority \in Int
  BY RouteTargets
<1>2. StrictlyOrders(R, S)
  <2>1. \A m, n \in S : <<m, n>> \in R <=> Before(Route, m, n)
    OBVIOUS
  <2>2. \A m \in S : ~Before(Route, m, m)
    BY <1>1 DEF Before
  <2>3. \A m, n \in S : m # n => Before(Route, m, n) \/ Before(Route, n, m)
    BY <1>1 DEF Before
  <2>4. \A l, m, n \in S :
          Before(Route, l, m) /\ Before(Route, m, n) => Before(Route, l, n)
    BY <1>1 DEF Before
  <2> HIDE DEF R
  <2> QED
    BY <2>1, <2>2, <2>3, <2>4 DEF StrictlyOrders
<1>3. PICK s \in SetToSeqs(S) : Sorted(R, s)
  BY <1>2, SortedExists
<1>4. \A j, k \in DOMAIN s : j < k => Before(Route, s[j], s[k])
  BY <1>3 DEF Sorted
<1>5. \E q \in SetToSeqs(S) :
        \A j, k \in DOMAIN q : j < k => Before(Route, q[j], q[k])
  BY <1>4
<1> QED
  BY <1>5 DEF InPriorityOrder

(* A draw only reorders.                                                   *)
LEMMA DrawnFrom ==
  ASSUME NEW S \in SUBSET DOMAIN Route, NEW ordered \in Seq(S),
         NEW ticket \in Nat, ticket > 0
  PROVE  Drawn(Route, ordered, ticket) \in Seq(S)
<1> DEFINE T == {k \in DOMAIN ordered :
                   Route[ordered[k]].priority = Route[ordered[1]].priority}
           first == FirstTier(Route, ordered)
           drawn(k) == IF k > first THEN ordered[k]
                       ELSE ordered[((k + ticket - 2) % first) + 1]
<1>1. Len(ordered) \in Nat /\ DOMAIN ordered = 1..Len(ordered)
      /\ \A k \in 1..Len(ordered) : ordered[k] \in S
  BY LenProperties
<1>2. IsFiniteSet(T) /\ Cardinality(T) <= Len(ordered) /\ Cardinality(T) \in Nat
  <2>1. IsFiniteSet(1..Len(ordered)) /\ Cardinality(1..Len(ordered)) = Len(ordered)
    <3>1. /\ 1 \in Int /\ Len(ordered) \in Int
          /\ Len(ordered) = IF 1 > Len(ordered) THEN 0 ELSE Len(ordered) - 1 + 1
      BY <1>1
    <3> QED
      BY <3>1, FS_Interval
  <2>2. T \in SUBSET (1..Len(ordered))
    BY <1>1
  <2> HIDE DEF T
  <2> QED
    BY <2>1, <2>2, FS_Subset, FS_CardinalityType
<1>3. first \in Nat /\ first <= Len(ordered)
  BY <1>2 DEF FirstTier
<1> HIDE DEF first
<1>4. ASSUME NEW k \in 1..Len(ordered)
      PROVE  drawn(k) \in S
  <2>1. CASE k > first
    BY <1>1, <2>1
  <2>2. CASE ~(k > first)
    <3>1. first > 0 /\ k + ticket - 2 \in Int
      BY <1>1, <1>3, <2>2
    <3>2. ((k + ticket - 2) % first) \in 0..(first - 1)
      BY <1>3, <3>1
    <3> DEFINE j == ((k + ticket - 2) % first) + 1
    <3>3. j \in 1..Len(ordered)
      BY <1>1, <1>3, <3>2
    <3> HIDE DEF j
    <3>4. ordered[j] \in S
      BY <1>1, <3>3
    <3> QED
      BY <2>2, <3>4 DEF j
  <2> QED
    BY <2>1, <2>2
<1>5. Drawn(Route, ordered, ticket) = [k \in 1..Len(ordered) |-> drawn(k)]
  BY <1>1 DEF Drawn, first
<1> HIDE DEF drawn
<1>6. [k \in 1..Len(ordered) |-> drawn(k)] \in [1..Len(ordered) -> S]
  BY <1>4
<1> QED
  BY <1>1, <1>5, <1>6, SeqDef

(* Whatever the readings of the channels: the plans are sound.             *)
LEMMA PlansSound ==
  ASSUME NEW states \in [Channel -> ChannelRouteState], NEW scope,
         NEW plan \in Plans(Route, states, scope, Weighted, Limit)
  PROVE  SoundPlan(plan)
<1> DEFINE S == Admitted(Route, states, scope)
           ordered == InPriorityOrder(Route, S)
           cut(s) == IF Limit > 0 THEN SubSeq(s, 1, Min({Limit, Len(s)})) ELSE s
           frozen(s) == [k \in 1..Len(s) |->
                           [channel |-> Route[s[k]].channel,
                            frozen |-> states[Route[s[k]].channel]]]
<1>1. /\ S \in SUBSET DOMAIN Route
      /\ IsFiniteSet(S)
      /\ \A m, n \in S : states[Route[m].channel] = states[Route[n].channel]
  BY AdmittedAlike
<1> HIDE DEF S
<1>2. ordered \in Seq(S)
  BY <1>1, OrderedTargets, Listed
<1>3. \/ plan = frozen(cut(ordered))
      \/ \E t \in 1..FirstTier(Route, ordered) :
           plan = frozen(cut(Drawn(Route, ordered, t)))
  BY Zenon DEF Plans, S
<1> HIDE DEF ordered
<1>4. PICK s \in Seq(S) : plan = frozen(cut(s))
  <2>1. CASE plan = frozen(cut(ordered))
    BY <1>2, <2>1, Zenon
  <2>2. CASE \E t \in 1..FirstTier(Route, ordered) :
               plan = frozen(cut(Drawn(Route, ordered, t)))
    <3>1. PICK t \in 1..FirstTier(Route, ordered) :
            plan = frozen(cut(Drawn(Route, ordered, t)))
      BY <2>2, Zenon
    <3>2. t \in Nat /\ t > 0
      OBVIOUS
    <3>3. Drawn(Route, ordered, t) \in Seq(S)
      BY <1>1, <1>2, <3>2, DrawnFrom
    <3> QED
      BY <3>1, <3>3, Zenon
  <2> QED
    BY <1>3, <2>1, <2>2
<1> DEFINE c == cut(s)
<1>5. c \in Seq(S)
  BY CutList, ForwardingAssumption
<1>6. plan = frozen(c)
  BY <1>4
<1> HIDE DEF c
<1>7. Len(c) \in Nat /\ \A k \in 1..Len(c) : c[k] \in S
  BY <1>5, LenProperties
<1>8. \A k \in 1..Len(c) : Route[c[k]].channel \in Channel
  BY <1>1, <1>7, RouteTargets
<1>9. \A k \in 1..Len(c) :
        /\ plan[k] = [channel |-> Route[c[k]].channel,
                      frozen |-> states[Route[c[k]].channel]]
        /\ plan[k] \in PlanTarget
  BY <1>6, <1>8 DEF PlanTarget
<1>10. plan \in [1..Len(c) -> PlanTarget]
  BY <1>6, <1>9
<1>11. plan \in Seq(PlanTarget) /\ DOMAIN plan = 1..Len(c)
  BY <1>7, <1>10, SeqDef
<1>12. \A m, n \in 1..Len(c) : plan[m].frozen = plan[n].frozen
  <2>1. ASSUME NEW k \in 1..Len(c)
        PROVE  plan[k].frozen = states[Route[c[k]].channel]
    <3>1. plan[k] = [channel |-> Route[c[k]].channel,
                     frozen |-> states[Route[c[k]].channel]]
      BY <1>9
    <3> QED
      BY <3>1
  <2>2. \A m, n \in 1..Len(c) :
          states[Route[c[m]].channel] = states[Route[c[n]].channel]
    BY <1>1, <1>7, Zenon
  <2> QED
    BY <2>1, <2>2, Zenon
<1> QED
  BY <1>11, <1>12 DEF SoundPlan

(* What a request plans is sound.                                          *)
LEMMA PlansOneState ==
  ASSUME NEW r \in Request, NEW context \in Contexts, Plan(r, context)
  PROVE  \E plan : /\ SoundPlan(plan)
                   /\ request' = [request EXCEPT ![r] = Planned(context, plan)]
<1>0. PICK contended \in IF Contention THEN SUBSET Channel ELSE {{}} :
        LET states == [ch \in Channel |-> Observed(ch, ch \in contended)]
            single == {<<[channel |-> ch, frozen |-> states[ch]]>> :
                         ch \in {c \in context.scope : states[c] \notin Blocking}}
        IN \E plan \in IF context.selection = "ModelMapping"
                       THEN Plans(Route, states, context.scope, Weighted, Limit)
                       ELSE single \cup {<<>>} :
             request' = [request EXCEPT ![r] = Planned(context, plan)]
  BY Zenon DEF Plan
<1>1. PICK plan :
        LET states == [ch \in Channel |-> Observed(ch, ch \in contended)]
            single == {<<[channel |-> ch, frozen |-> states[ch]]>> :
                         ch \in {c \in context.scope : states[c] \notin Blocking}}
        IN /\ plan \in IF context.selection = "ModelMapping"
                       THEN Plans(Route, states, context.scope, Weighted, Limit)
                       ELSE single \cup {<<>>}
           /\ request' = [request EXCEPT ![r] = Planned(context, plan)]
  BY <1>0, Zenon
<1> DEFINE states == [ch \in Channel |-> Observed(ch, ch \in contended)]
<1>2. states \in [Channel -> ChannelRouteState]
  BY ReadingIsState
<1> HIDE DEF states
<1>3. CASE context.selection = "ModelMapping"
  <2>1. plan \in Plans(Route, states, context.scope, Weighted, Limit)
    BY <1>1, <1>3, Zenon DEF states
  <2> QED
    BY <1>1, <1>2, <2>1, PlansSound
<1>4. CASE plan = <<>>
  <2>1. <<>> \in Seq(PlanTarget) /\ DOMAIN <<>> = {}
    BY EmptySeq
  <2> QED
    BY <1>1, <1>4, <2>1 DEF SoundPlan
<1>5. CASE \E ch \in context.scope : plan = <<[channel |-> ch, frozen |-> states[ch]]>>
  <2>1. PICK ch \in context.scope :
          plan = <<[channel |-> ch, frozen |-> states[ch]]>>
    BY <1>5
  <2>2. ch \in Channel
    BY ForwardingAssumption
  <2> DEFINE target == [channel |-> ch, frozen |-> states[ch]]
  <2>3. target \in PlanTarget
    BY <1>2, <2>2 DEF PlanTarget
  <2> HIDE DEF target
  <2>4. <<target>> \in Seq(PlanTarget) /\ DOMAIN <<target>> = {1}
    BY <2>3
  <2>5. plan = <<target>>
    BY <2>1 DEF target
  <2>6. SoundPlan(plan)
    BY <2>4, <2>5 DEF SoundPlan
  <2> QED
    BY <1>1, <2>6
<1>6. \/ context.selection = "ModelMapping"
      \/ plan = <<>>
      \/ \E ch \in context.scope : plan = <<[channel |-> ch, frozen |-> states[ch]]>>
  BY <1>1, Zenon DEF states
<1> QED
  BY <1>3, <1>4, <1>5, <1>6

-----------------------------------------------------------------------------
(* What a request remembers of its plan and of the credentials it tried.   *)

(* Two sends to one target, the second because the credential of the first *)
(* failed, use different credentials.                                      *)
Avoids(sends) ==
  Len(sends) = 2 /\ sends[2].after = "Credential" =>
    \/ sends[1].target # sends[2].target
    \/ sends[1].credential # sends[2].credential

(* The request is at a target of a sound plan, and knows credentials.      *)
OnPlan(q) ==
  /\ SoundPlan(q.plan)
  /\ q.position \in DOMAIN q.plan
  /\ q.candidates \in Seq(Credential)

(* Between two sends: the target of the first is not ahead, and while the  *)
(* request is still at it after a failure of the credential it has another *)
(* one to try.                                                             *)
Retrying(q) ==
  Len(q.sends) = 1 =>
    /\ q.sends[1].target \in 1..q.position
    /\ q.sends[1].target = q.position /\ q.failure = "Credential" =>
         q.retry # NoCredential /\ q.retry # q.sends[1].credential

(* While the first send is in flight it is what the request is at.         *)
AtFirst(q) ==
  Len(q.sends) = 1 =>
    q.sends[1].target = q.position /\ q.sends[1].credential = q.credential

Tracks(q) ==
  /\ q.stage # "new" => Avoids(q.sends)
  /\ q.stage \in {"planned"} \cup InFlight => OnPlan(q)
  /\ q.stage = "planned" => Retrying(q)
  /\ q.stage \in InFlight => AtFirst(q)

CredentialKind == {"Available", "CoolingDown", "Expired", "Disabled"}

SharedTyped ==
  /\ profile \in Profiles
  /\ open \subseteq Domain
  /\ credential \in [Credential -> CredentialKind]
  /\ commands \in 0..MaxCommands

TInv == SharedTyped /\ \A r \in Request : Tracks(request[r])

(* A step of one request keeps what the others remember.                   *)
LEMMA MoveTracks ==
  ASSUME FInv, TInv, SharedTyped', NEW r \in Request, NEW q, Tracks(q),
         request' = [request EXCEPT ![r] = q]
  PROVE  TInv'
<1>1. DOMAIN request = Request
  BY DEF FInv, Shape
<1>2. \A s \in Request : request'[s] = IF s = r THEN q ELSE request[s]
  BY <1>1
<1>3. \A s \in Request : Tracks(request'[s])
  BY <1>2 DEF TInv
<1> QED
  BY <1>3 DEF TInv

(* A request just planned is at its first target.                          *)
LEMMA PlannedTracks ==
  ASSUME NEW context, NEW plan, SoundPlan(plan)
  PROVE  Tracks(Planned(context, plan))
<1> DEFINE q == Planned(context, plan)
<1>1. /\ q.stage = IF plan = <<>> THEN "done" ELSE "planned"
      /\ q.plan = plan /\ q.position = 1
      /\ q.candidates = <<>> /\ q.sends = <<>>
  BY DEF Planned
<1> HIDE DEF q
<1>2. Len(<<>>) = 0 /\ <<>> \in Seq(Credential)
  BY EmptySeq
<1>3. plan # <<>> => 1 \in DOMAIN plan
  BY LenProperties, EmptySeq DEF SoundPlan
<1>4. OnPlan(q) \/ q.stage = "done"
  BY <1>1, <1>2, <1>3 DEF OnPlan
<1>5. Len(q.sends) = 0
  BY <1>1, <1>2
<1> QED
  BY <1>1, <1>4, <1>5 DEF Tracks, Avoids, Retrying, AtFirst, InFlight, q

(* A request answered has sent what it had sent.                           *)
LEMMA FinishedTracks ==
  ASSUME NEW q, Avoids(q.sends)
  PROVE  Tracks(Finished(q))
<1>1. Finished(q).stage = "done" /\ Finished(q).sends = q.sends
  BY DEF Finished
<1> QED
  BY <1>1 DEF Tracks, InFlight

(* A request that passes on leaves its target behind.                      *)
LEMMA PassOnTracks ==
  ASSUME NEW q, DOMAIN q = Fields, OnPlan(q), Avoids(q.sends),
         Len(q.sends) = 1 => q.sends[1].target \in 1..q.position
  PROVE  Tracks(NextTarget(q))
<1> DEFINE n == NextTarget(q)
<1>1. CASE q.position < Len(q.plan)
  <2>1. /\ n.stage = "planned" /\ n.plan = q.plan
        /\ n.position = q.position + 1
        /\ n.candidates = <<>> /\ n.sends = q.sends
    BY <1>1 DEF NextTarget, Fields
  <2> HIDE DEF n
  <2>2. /\ Len(q.plan) \in Nat /\ DOMAIN q.plan = 1..Len(q.plan)
    BY LenProperties DEF OnPlan, SoundPlan
  <2>3. /\ q.position \in Nat
        /\ q.position + 1 \in 1..Len(q.plan)
    BY <1>1, <2>2 DEF OnPlan
  <2>4. <<>> \in Seq(Credential)
    BY EmptySeq
  <2>5. OnPlan(n)
    BY <2>1, <2>2, <2>3, <2>4 DEF OnPlan
  <2>6. Retrying(n)
    <3>1. \A t \in 1..q.position : t \in 1..q.position + 1 /\ t # q.position + 1
      BY <2>3
    <3> QED
      BY <2>1, <3>1 DEF Retrying
  <2> QED
    BY <2>1, <2>5, <2>6 DEF Tracks, InFlight, n
<1>2. CASE ~(q.position < Len(q.plan))
  BY <1>2, FinishedTracks DEF NextTarget
<1> QED
  BY <1>1, <1>2

(* The channel of a request's target is known.                             *)
LEMMA TargetKnown ==
  ASSUME NEW r \in Request, OnPlan(request[r])
  PROVE  Target(r) \in PlanTarget /\ Target(r).channel \in Channel
<1>1. Target(r) \in PlanTarget
  BY LenProperties DEF Target, OnPlan, SoundPlan
<1> QED
  BY <1>1 DEF PlanTarget

(* Reports keep the shared state typed.                                    *)
LEMMA ApplyTyped ==
  ASSUME SharedTyped, NEW r \in Request, OnPlan(request[r]), NEW f, Apply(r, f),
         UNCHANGED <<profile, commands>>
  PROVE  SharedTyped'
<1> DEFINE ch == Target(r).channel
           c == request[r].credential
<1>1. DomainsOf[ch] \subseteq Domain
  BY TargetKnown, ForwardingAssumption
<1>2. open' \in {open, open \cup DomainsOf[ch], open \ DomainsOf[ch]}
  BY DEF Apply
<1>3. open' \subseteq Domain
  BY <1>1, <1>2 DEF SharedTyped
<1>4. \E new : /\ new \in {credential[c], "Disabled", "CoolingDown", "Expired"}
               /\ credential' = [credential EXCEPT ![c] = new]
  <2> DEFINE sticky == IF credential[c] = "Disabled" THEN {"Disabled"} ELSE {}
  <2>1. \E new \in CASE sticky # {} -> sticky
                     [] Mutation(f) = "MarkCredentialCoolingDown" ->
                          {credential[c], "CoolingDown"}
                     [] Mutation(f) \in {"ExpireCredential",
                                         "MarkCredentialQuotaExhausted"} ->
                          {"Expired"}
                     [] OTHER -> {credential[c]} :
           credential' = [credential EXCEPT ![c] = new]
    BY Zenon DEF Apply
  <2> QED
    BY <2>1
<1>5. credential' \in [Credential -> CredentialKind]
  <2>1. PICK new : /\ new \in {credential[c], "Disabled", "CoolingDown", "Expired"}
                   /\ credential' = [credential EXCEPT ![c] = new]
    BY <1>4
  <2>2. credential \in [Credential -> CredentialKind]
    BY DEF SharedTyped
  <2>3. CASE c \in Credential
    <3>1. new \in CredentialKind
      BY <2>1, <2>2, <2>3 DEF CredentialKind
    <3> QED
      BY <2>1, <2>2, <3>1
  <2>4. CASE c \notin Credential
    BY <2>1, <2>2, <2>4
  <2> QED
    BY <2>3, <2>4
<1> QED
  BY <1>3, <1>5 DEF SharedTyped

(* A longer sequence begins with the shorter one.                          *)
LEMMA SentThen ==
  ASSUME NEW s, NEW e, IsSequence(s)
  PROVE  /\ Append(s, e)[Len(s) + 1] = e
         /\ \A n \in 1..Len(s) : Append(s, e)[n] = s[n]
<1> DEFINE S == {s[n] : n \in DOMAIN s}
           T == S \cup {e}
<1>1. s \in Seq(S)
  BY DEF IsSequence
<1>2. S \subseteq T /\ e \in T
  OBVIOUS
<1> HIDE DEF S, T
<1>3. s \in Seq(T)
  BY <1>1, <1>2, SeqMonotonic
<1> QED
  BY <1>2, <1>3, AppendProperties

(* What a commit selects is a credential, and on a retry the candidate.    *)
LEMMA SelectableKnown ==
  ASSUME NEW r \in Request, OnPlan(request[r]), NEW state,
         NEW c \in Selectable(r, state)
  PROVE  /\ c \in Credential
         /\ request[r].retry # NoCredential => c = request[r].retry
<1> DEFINE held == CredentialsOf[Target(r).channel]
<1>1. held \subseteq Credential
  BY TargetKnown, ForwardingAssumption
<1>2. c \in held /\ (request[r].retry # NoCredential => c = request[r].retry)
  BY DEF Selectable
<1> QED
  BY <1>1, <1>2

(* The candidates of a retry are credentials.                              *)
LEMMA CandidatesKnown ==
  ASSUME SharedTyped, NEW r \in Request, OnPlan(request[r]), NEW selected,
         NEW candidates \in CandidateLists(r, selected)
  PROVE  candidates \in Seq(Credential)
<1> DEFINE others == {c \in CredentialsOf[Target(r).channel] \ {selected} :
                        credential[c] = "Available"}
<1>1. others \subseteq Credential
  BY TargetKnown, ForwardingAssumption
<1>2. IsFiniteSet(others)
  BY <1>1, ForwardingAssumption, FS_Subset
<1>3. CASE request[r].frozen
  BY <1>3 DEF CandidateLists, OnPlan
<1>4. CASE ~request[r].frozen
  <2>1. PICK s \in SetToSeqs(others) :
          candidates = SubSeq(s, 1, Min({profile.maxRetries, Len(s)}))
    BY <1>4 DEF CandidateLists
  <2> HIDE DEF others
  <2>2. s \in Seq(Credential)
    BY <1>1, <1>2, Listed, SeqMonotonic
  <2>3. profile.maxRetries \in Nat
    BY ForwardingAssumption DEF SharedTyped
  <2> QED
    BY <2>1, <2>2, <2>3, CutList
<1> QED
  BY <1>3, <1>4

(* A commit sends the candidate it was given, or passes the target on.     *)
LEMMA CommitTracks ==
  ASSUME FInv, TInv, NEW r \in Request, Commit(r)
  PROVE  TInv'
<1> DEFINE old == request[r]
           ch == Target(r).channel
<1>1. /\ old.stage = "planned" /\ DOMAIN old = Fields
      /\ SentAtMost(old, 1)
      /\ Tracks(old)
  BY DEF Commit, FInv, Shape, Attempts, TInv
<1>2. OnPlan(old) /\ Avoids(old.sends) /\ Retrying(old)
  BY <1>1 DEF Tracks
<1>3. SharedTyped'
  BY DEF TInv, SharedTyped, Commit, KeepShared
<1>4. CASE request' = [request EXCEPT ![r] = NextTarget(@)]
  <2>1. Tracks(NextTarget(old))
    BY <1>1, <1>2, PassOnTracks DEF Retrying
  <2>2. request' = [request EXCEPT ![r] = NextTarget(old)]
    BY <1>4
  <2> QED
    BY <1>3, <2>1, <2>2, MoveTracks
<1> DEFINE q(c, candidates) ==
             [request[r] EXCEPT !.stage = "sending",
                                !.retry = NoCredential,
                                !.frozen = TRUE,
                                !.candidates = candidates,
                                !.credential = c,
                                !.generation = channel[ch].generation,
                                !.commanded = FALSE,
                                !.sends = Append(@, [target |-> request[r].position,
                                                     credential |-> c,
                                                     after |-> request[r].failure])]
<1>5. ASSUME NEW c, NEW candidates \in Seq(Credential),
             old.retry # NoCredential => c = old.retry,
             request' = [request EXCEPT ![r] = q(c, candidates)]
      PROVE  TInv'
  <2> DEFINE n == q(c, candidates)
             e == [target |-> old.position, credential |-> c,
                   after |-> old.failure]
  <2>1. /\ n.stage = "sending"
        /\ n.sends = Append(old.sends, e)
        /\ n.plan = old.plan /\ n.position = old.position
        /\ n.candidates = candidates /\ n.credential = c
    BY <1>1 DEF Fields
  <2>2. e.target = old.position /\ e.credential = c /\ e.after = old.failure
    OBVIOUS
  <2>3. /\ Len(old.sends) \in {0, 1}
        /\ Len(n.sends) = Len(old.sends) + 1
        /\ n.sends[Len(old.sends) + 1] = e
        /\ Len(old.sends) = 1 => n.sends[1] = old.sends[1]
    <3> HIDE DEF n, e
    <3>1. /\ IsSequence(old.sends) /\ Len(old.sends) <= 1
          /\ Len(old.sends) \in Nat
      BY <1>1, SentIsNat DEF SentAtMost
    <3>2. Len(old.sends) \in {0, 1}
      <4>1. \A k \in Nat : k <= 1 => k \in {0, 1}
        OBVIOUS
      <4> QED
        BY <3>1, <4>1, Zenon
    <3>3. Len(n.sends) = Len(old.sends) + 1
      BY <2>1, <3>1, OneMore
    <3>4. /\ n.sends[Len(old.sends) + 1] = e
          /\ \A k \in 1..Len(old.sends) : n.sends[k] = old.sends[k]
      BY <2>1, <3>1, SentThen
    <3> QED
      BY <3>2, <3>3, <3>4
  <2> HIDE DEF n, e
  <2>4. CASE Len(old.sends) = 0
    <3>1. Len(n.sends) = 1 /\ n.sends[1] = e
      BY <2>3, <2>4
    <3>2. Avoids(n.sends) /\ AtFirst(n)
      BY <2>1, <2>2, <3>1 DEF Avoids, AtFirst
    <3>3. Tracks(n)
      BY <1>2, <2>1, <3>2 DEF Tracks, OnPlan, InFlight
    <3> QED
      BY <1>3, <1>5, <3>3, MoveTracks DEF n
  <2>5. CASE Len(old.sends) = 1
    <3>1. Len(n.sends) = 2 /\ n.sends[1] = old.sends[1] /\ n.sends[2] = e
      BY <2>3, <2>5
    <3>2. Avoids(n.sends)
      BY <1>2, <1>5, <2>2, <2>5, <3>1 DEF Avoids, Retrying
    <3>3. Tracks(n)
      BY <1>2, <2>1, <3>1, <3>2 DEF Tracks, AtFirst, OnPlan, InFlight
    <3> QED
      BY <1>3, <1>5, <3>3, MoveTracks DEF n
  <2> QED
    BY <2>3, <2>4, <2>5
<1>6. \/ request' = [request EXCEPT ![r] = NextTarget(@)]
      \/ \E state : \E c \in Selectable(r, state) :
           \E candidates \in CandidateLists(r, c) :
             request' = [request EXCEPT ![r] = q(c, candidates)]
  BY Zenon DEF Commit
<1>7. CASE \E state : \E c \in Selectable(r, state) :
             \E candidates \in CandidateLists(r, c) :
               request' = [request EXCEPT ![r] = q(c, candidates)]
  <2>1. PICK state : \E c \in Selectable(r, state) :
               \E candidates \in CandidateLists(r, c) :
                 request' = [request EXCEPT ![r] = q(c, candidates)]
    BY <1>7, Zenon
  <2>2. PICK c \in Selectable(r, state) : 
               \E candidates \in CandidateLists(r, c) :
                 request' = [request EXCEPT ![r] = q(c, candidates)]
    BY <2>1, Zenon
  <2>3. PICK candidates \in CandidateLists(r, c) :
               request' = [request EXCEPT ![r] = q(c, candidates)]
    BY <2>2, Zenon
  <2>4. candidates \in Seq(Credential)
    BY <1>2, CandidatesKnown DEF TInv
  <2>5. old.retry # NoCredential => c = old.retry
    BY <1>2, SelectableKnown
  <2> HIDE DEF q
  <2> QED
    BY <1>5, <2>3, <2>4, <2>5
<1> QED
  BY <1>4, <1>6, <1>7

(* A credential retried is a candidate other than the one that failed, and *)
(* a failure is retried elsewhere only when it was the channel's.          *)
LEMMA DirectiveScope ==
  ASSUME NEW f, NEW s, NEW p, NEW deadlineFits
  PROVE  LET directive == Directive(f, s, p, deadlineFits)
         IN /\ directive = "RetryCredential" =>
                 s.candidates # <<>> /\ Head(s.candidates) # s.credential
            /\ directive \in {"RetryRouteTarget", "RetrySameTarget"} =>
                 f.scope = "Channel"
<1> DEFINE directive == Directive(f, s, p, deadlineFits)
<1>1. CASE ~RetryPossible(f, s, deadlineFits)
  BY <1>1, Zenon DEF Directive
<1>2. CASE RetryPossible(f, s, deadlineFits)
  BY <1>2 DEF Directive
<1> QED
  BY <1>1, <1>2

(* A report leaves the credential that failed behind, or the target.       *)
LEMMA ReportTracks ==
  ASSUME FInv, TInv, NEW r \in Request, Report(r)
  PROVE  TInv'
<1> DEFINE old == request[r]
<1>1. /\ old.stage = "sending" /\ DOMAIN old = Fields
      /\ old.attempt = 0 => Len(old.sends) = 1
      /\ Tracks(old)
  BY DEF Report, FInv, Shape, Attempts, InFlight, TInv
<1>2. OnPlan(old) /\ Avoids(old.sends) /\ AtFirst(old)
  BY <1>1 DEF Tracks, InFlight
<1> DEFINE directive(f, d) == Directive(f, Snapshot(r), profile, d)
           failed(f) == [request[r] EXCEPT !.failure = f.scope]
<1>3. PICK f, d :
        /\ Apply(r, f)
        /\ \/ request' = [request EXCEPT ![r] = Continue(failed(f), directive(f, d))]
           \/ request' = [request EXCEPT ![r].stage = "filtering"]
  BY Zenon DEF Report
<1>4. SharedTyped'
  BY <1>2, <1>3, ApplyTyped DEF Report, TInv
<1>5. CASE request' = [request EXCEPT ![r].stage = "filtering"]
  <2> DEFINE n == [request[r] EXCEPT !.stage = "filtering"]
  <2>1. request' = [request EXCEPT ![r] = n]
    BY <1>5
  <2>2. /\ n.stage = "filtering" /\ n.sends = old.sends
        /\ n.plan = old.plan /\ n.position = old.position
        /\ n.candidates = old.candidates /\ n.credential = old.credential
    BY <1>1 DEF Fields
  <2> HIDE DEF n
  <2>3. Tracks(n)
    BY <1>2, <2>2 DEF Tracks, AtFirst, OnPlan, InFlight
  <2> QED
    BY <1>4, <2>1, <2>3, MoveTracks
<1>6. CASE request' = [request EXCEPT ![r] = Continue(failed(f), directive(f, d))]
  <2> DEFINE g == failed(f)
             o == directive(f, d)
  <2>1. /\ DOMAIN g = Fields /\ g.sends = old.sends
        /\ g.plan = old.plan /\ g.position = old.position
        /\ g.candidates = old.candidates /\ g.credential = old.credential
        /\ g.failure = f.scope
    BY <1>1 DEF Fields
  <2>2. OnPlan(g) /\ Avoids(g.sends) /\ AtFirst(g)
    <3> HIDE DEF g
    <3> QED
      BY <1>2, <2>1 DEF OnPlan, AtFirst
  <2>3. /\ Snapshot(r).candidates = old.candidates
        /\ Snapshot(r).credential = old.credential
        /\ Snapshot(r).attempt = old.attempt
    BY DEF Snapshot
  <2>4. /\ o \in {"ReturnCurrentError", "RetryRouteTarget",
                  "RetrySameTarget", "RetryCredential"}
        /\ o # "ReturnCurrentError" => old.attempt = 0
    BY <2>3, RetriesConservative
  <2>5. /\ o = "RetryCredential" =>
             old.candidates # <<>> /\ Head(old.candidates) # old.credential
        /\ o \in {"RetryRouteTarget", "RetrySameTarget"} => f.scope = "Channel"
    BY <2>3, DirectiveScope
  <2>6. request' = [request EXCEPT ![r] = Continue(g, o)]
    BY <1>6
  <2> HIDE DEF g, o
  <2>7. /\ old.position \in Nat /\ old.position \in 1..old.position
    <3>1. DOMAIN old.plan = 1..Len(old.plan) /\ Len(old.plan) \in Nat
      BY <1>2, LenProperties DEF OnPlan, SoundPlan
    <3>2. old.position \in Nat /\ old.position >= 1
      BY <1>2, <3>1 DEF OnPlan
    <3> QED
      BY <3>2
  <2>8. CASE o = "ReturnCurrentError"
    <3>1. Continue(g, o) = Finished(g)
      BY <2>8 DEF Continue
    <3>2. Tracks(Finished(g))
      BY <2>2, FinishedTracks
    <3> QED
      BY <1>4, <2>6, <3>1, <3>2, MoveTracks
  <2>9. CASE o = "RetryRouteTarget"
    <3>1. Continue(g, o) = NextTarget(g)
      BY <2>9 DEF Continue
    <3>2. Len(g.sends) = 1 => g.sends[1].target \in 1..g.position
      BY <2>1, <2>2, <2>7 DEF AtFirst
    <3>3. Tracks(NextTarget(g))
      BY <2>1, <2>2, <3>2, PassOnTracks
    <3> QED
      BY <1>4, <2>6, <3>1, <3>3, MoveTracks
  <2>10. ASSUME NEW n, request' = [request EXCEPT ![r] = n],
                n.stage = "planned", n.sends = g.sends, n.plan = g.plan,
                n.position = g.position, n.failure = g.failure,
                n.candidates \in Seq(Credential),
                g.failure # "Credential" \/
                  (n.retry # NoCredential /\ n.retry # g.credential)
         PROVE  TInv'
    <3>1. OnPlan(n)
      BY <2>2, <2>10 DEF OnPlan
    <3>2. Retrying(n)
      BY <2>1, <2>2, <2>7, <2>10 DEF Retrying, AtFirst
    <3>3. Tracks(n)
      BY <2>2, <2>10, <3>1, <3>2 DEF Tracks, InFlight
    <3> QED
      BY <1>4, <2>10, <3>3, MoveTracks
  <2>11. CASE o = "RetrySameTarget"
    <3> DEFINE n == [g EXCEPT !.stage = "planned", !.attempt = @ + 1]
    <3>1. Continue(g, o) = n
      BY <2>11 DEF Continue
    <3>2. /\ n.stage = "planned" /\ n.sends = g.sends /\ n.plan = g.plan
          /\ n.position = g.position /\ n.failure = g.failure
          /\ n.candidates = g.candidates
      BY <2>1 DEF Fields
    <3>3. g.failure # "Credential"
      BY <2>1, <2>5, <2>11
    <3>4. g.candidates \in Seq(Credential)
      BY <2>2 DEF OnPlan
    <3> HIDE DEF n
    <3> QED
      BY <2>6, <2>10, <3>1, <3>2, <3>3, <3>4
  <2>12. CASE o = "RetryCredential"
    <3> DEFINE n == [g EXCEPT !.stage = "planned", !.attempt = @ + 1,
                              !.retry = Head(g.candidates),
                              !.candidates = Tail(@)]
    <3>1. Continue(g, o) = n
      BY <2>12 DEF Continue
    <3>2. /\ n.stage = "planned" /\ n.sends = g.sends /\ n.plan = g.plan
          /\ n.position = g.position /\ n.failure = g.failure
          /\ n.candidates = Tail(g.candidates)
          /\ n.retry = Head(g.candidates)
      BY <2>1 DEF Fields
    <3>3. g.candidates \in Seq(Credential) /\ g.candidates # <<>>
      BY <2>1, <2>2, <2>5, <2>12 DEF OnPlan
    <3>4. Head(g.candidates) \in Credential /\ Tail(g.candidates) \in Seq(Credential)
      BY <3>3, HeadTailProperties
    <3>5. n.retry # NoCredential /\ n.retry # g.credential
      BY <2>1, <2>5, <2>12, <3>2, <3>4, ForwardingAssumption
    <3> HIDE DEF n
    <3> QED
      BY <2>6, <2>10, <3>1, <3>2, <3>4, <3>5
  <2> QED
    BY <2>4, <2>8, <2>9, <2>11, <2>12
<1> QED
  BY <1>3, <1>5, <1>6

(* Planning gives a request a sound plan.                                  *)
LEMMA PlanTracks ==
  ASSUME FInv, TInv, NEW r \in Request, NEW context \in Contexts,
         Plan(r, context)
  PROVE  TInv'
<1>1. SharedTyped'
  BY DEF TInv, SharedTyped, Plan, KeepShared
<1>2. PICK plan : /\ SoundPlan(plan)
                  /\ request' = [request EXCEPT ![r] = Planned(context, plan)]
  BY PlansOneState
<1> QED
  BY <1>1, <1>2, PlannedTracks, MoveTracks

(* A response the filter rejects, and a stream that ends, are answered.    *)
LEMMA AnswerTracks ==
  ASSUME FInv, TInv, NEW r \in Request, Filter(r) \/ EndStream(r)
  PROVE  TInv'
<1>1. request[r].stage \in InFlight /\ Tracks(request[r])
  BY DEF Filter, EndStream, InFlight, TInv
<1>2. OnPlan(request[r]) /\ Avoids(request[r].sends)
  BY <1>1 DEF Tracks, InFlight
<1>3. \/ UNCHANGED <<channel, open, credential>>
      \/ \E f : Apply(r, f)
  BY Zenon DEF Filter, EndStream
<1>4. /\ UNCHANGED <<profile, commands>>
      /\ request' = [request EXCEPT ![r] = Finished(request[r])]
  BY DEF Filter, EndStream
<1>5. SharedTyped'
  BY <1>2, <1>3, <1>4, ApplyTyped DEF TInv, SharedTyped
<1> QED
  BY <1>2, <1>4, <1>5, FinishedTracks, MoveTracks

(* A success streams from where it was sent.                               *)
LEMMA SucceedTracks ==
  ASSUME FInv, TInv, NEW r \in Request, Succeed(r)
  PROVE  TInv'
<1> DEFINE old == request[r]
           n == [request[r] EXCEPT !.stage = "streaming"]
<1>1. /\ old.stage = "sending" /\ DOMAIN old = Fields /\ Tracks(old)
  BY DEF Succeed, FInv, Shape, InFlight, TInv
<1>2. OnPlan(old) /\ Avoids(old.sends) /\ AtFirst(old)
  BY <1>1 DEF Tracks, InFlight
<1>3. SharedTyped'
  BY DEF Succeed, TInv, SharedTyped
<1>4. /\ n.stage = "streaming" /\ n.sends = old.sends
      /\ n.plan = old.plan /\ n.position = old.position
      /\ n.candidates = old.candidates /\ n.credential = old.credential
  BY <1>1 DEF Fields
<1>5. request' = [request EXCEPT ![r] = n]
  BY DEF Succeed
<1> HIDE DEF n
<1>6. Tracks(n)
  BY <1>2, <1>4 DEF Tracks, AtFirst, OnPlan, InFlight
<1> QED
  BY <1>3, <1>5, <1>6, MoveTracks

(* A command on a channel tells the requests in flight, and nothing else.  *)
LEMMA CommandTracks ==
  ASSUME FInv, TInv, NEW ch, NEW result, Command(ch, result)
  PROVE  TInv'
<1>1. SharedTyped'
  <2>1. commands' \in 0..MaxCommands
    BY ForwardingAssumption DEF Command, TInv, SharedTyped
  <2> QED
    BY <2>1 DEF Command, TInv, SharedTyped
<1>2. ASSUME NEW s \in Request
      PROVE  Tracks(request'[s])
  <2> DEFINE old == request[s]
             n == [request[s] EXCEPT !.commanded = TRUE]
             hit == old.stage \in InFlight /\ Target(s).channel = ch
  <2>1. request'[s] = IF hit THEN n ELSE old
    BY Zenon DEF Command, InFlight
  <2>2. Tracks(old)
    BY DEF TInv
  <2>3. CASE hit
    <3>1. DOMAIN old = Fields
      BY <2>3 DEF FInv, Shape
    <3>2. /\ n.stage = old.stage /\ n.sends = old.sends
          /\ n.plan = old.plan /\ n.position = old.position
          /\ n.candidates = old.candidates /\ n.credential = old.credential
      BY <3>1 DEF Fields
    <3>3. request'[s] = n /\ old.stage \in InFlight
      BY <2>1, <2>3
    <3> HIDE DEF n
    <3> QED
      BY <2>2, <3>2, <3>3 DEF Tracks, AtFirst, OnPlan, InFlight
  <2> QED
    BY <2>1, <2>2, <2>3
<1> QED
  BY <1>1, <1>2 DEF TInv

(* Every step keeps it.                                                    *)
LEMMA NextTracks ==
  ASSUME FInv, TInv, [Next]_vars
  PROVE  TInv'
<1>1. ASSUME NEW r \in Request, NEW context \in Contexts, Plan(r, context)
      PROVE  TInv'
  BY <1>1, PlanTracks
<1>2. ASSUME NEW r \in Request, Forward(r)
      PROVE  TInv'
  BY <1>2, CommitTracks, ReportTracks, AnswerTracks, SucceedTracks DEF Forward
<1>3. ASSUME NEW ch \in Channel,
             DisableChannel(ch) \/ EnableChannel(ch) \/ ResetChannelHealth(ch)
      PROVE  TInv'
  BY <1>3, CommandTracks
     DEF DisableChannel, EnableChannel, ResetChannelHealth
<1>4. ASSUME SharedTyped', UNCHANGED request
      PROVE  TInv'
  BY <1>4 DEF TInv
<1>5. ASSUME NEW ch \in Channel, ChannelCooldownEnds(ch)
      PROVE  TInv'
  BY <1>4, <1>5 DEF ChannelCooldownEnds, TInv, SharedTyped
<1>6. ASSUME NEW c \in Credential, ManageCredential(c)
      PROVE  TInv'
  <2>1. commands' \in 0..MaxCommands
    BY <1>6, ForwardingAssumption DEF ManageCredential, TInv, SharedTyped
  <2>2. credential' \in [Credential -> CredentialKind]
    BY <1>6 DEF ManageCredential, TInv, SharedTyped, CredentialKind
  <2> QED
    BY <1>4, <1>6, <2>1, <2>2 DEF ManageCredential, TInv, SharedTyped
<1>7. ASSUME NEW c \in Credential, CredentialThaws(c)
      PROVE  TInv'
  <2>1. credential' \in [Credential -> CredentialKind]
    BY <1>7 DEF CredentialThaws, TInv, SharedTyped, CredentialKind
  <2> QED
    BY <1>4, <1>7, <2>1 DEF CredentialThaws, TInv, SharedTyped
<1>8. ASSUME NEW d \in Domain, DomainCooldownEnds(d)
      PROVE  TInv'
  BY <1>4, <1>8 DEF DomainCooldownEnds, TInv, SharedTyped
<1>9. CASE UNCHANGED vars
  BY <1>4, <1>9 DEF vars, TInv, SharedTyped
<1> QED
  BY <1>1, <1>2, <1>3, <1>5, <1>6, <1>7, <1>8, <1>9 DEF Next

(* Initially there is nothing to remember.                                 *)
LEMMA InitTInv == Init => TInv
<1> SUFFICES ASSUME Init PROVE TInv
  OBVIOUS
<1>1. SharedTyped
  <2>1. 0 \in 0..MaxCommands
    BY ForwardingAssumption
  <2> QED
    BY <2>1 DEF Init, SharedTyped, CredentialKind
<1>2. \A r \in Request : request[r].stage = "new"
  BY DEF Init, New
<1> QED
  BY <1>1, <1>2 DEF TInv, Tracks, InFlight

(* Both invariants of every behaviour.                                     *)
LEMMA Tracked == Spec => [](FInv /\ TInv)
<1>1. FInv /\ TInv /\ [Next]_vars => FInv' /\ TInv'
  BY NextKeeps, NextTracks
<1>2. Init => FInv /\ TInv
  BY InitFInv, InitTInv
<1> QED
  BY <1>1, <1>2, PTL DEF Spec

-----------------------------------------------------------------------------
(* The shared state and the requests keep their shape: what is planned is  *)
(* always at one of its targets, and a report or a success finds the       *)
(* channel it is about.                                                    *)
THEOREM ForwardingTypes == Spec => []TypeOK
<1>1. FInv /\ TInv => TypeOK
  <2> SUFFICES ASSUME FInv, TInv PROVE TypeOK
    OBVIOUS
  <2>1. /\ profile \in Profiles
        /\ channel \in [Channel -> [health : Health, generation : Nat]]
        /\ open \subseteq Domain
        /\ credential \in [Credential -> {"Available", "CoolingDown", "Expired",
                                          "Disabled"}]
        /\ commands \in 0..MaxCommands
    BY DEF FInv, Shape, ChannelState, TInv, SharedTyped, CredentialKind
  <2>2. ASSUME NEW r \in Request
        PROVE  /\ request[r].stage \in Stage \cup {"new"}
               /\ request[r].stage \notin {"new", "done"} =>
                    /\ request[r].position \in DOMAIN request[r].plan
                    /\ request[r].attempt \in 0..1
    <3>1. request[r].stage \in Stage \cup {"new"}
      BY DEF FInv, Shape
    <3>2. CASE request[r].stage \notin {"new", "done"}
      <4>1. request[r].stage \in {"planned"} \cup InFlight
        BY <3>1, <3>2 DEF Stage, InFlight
      <4>2. request[r].position \in DOMAIN request[r].plan
        BY <4>1 DEF TInv, Tracks, OnPlan
      <4>3. request[r].attempt \in {0, 1}
        BY <4>1 DEF FInv, Attempts, InFlight
      <4> QED
        BY <3>1, <4>2, <4>3
    <3> QED
      BY <3>1, <3>2
  <2> QED
    BY <2>1, <2>2 DEF TypeOK
<1> QED
  BY <1>1, Tracked, PTL

(* A credential that failed does not serve the same target of the same     *)
(* request again because of its failure, although it may be usable again   *)
(* by then: the retry is given its candidate, and takes that or nothing    *)
(* (forward_with_pool and transition_after_failure).                       *)
THEOREM FailedStaysAway == Spec => []FailedCredentialAvoided
<1>1. TInv => FailedCredentialAvoided
  <2> SUFFICES ASSUME TInv, NEW r \in Request
               PROVE  Avoids(Sends(r))
    BY DEF FailedCredentialAvoided, Avoids
  <2>1. CASE request[r].stage = "new"
    <3>1. Len(Sends(r)) = 0
      BY <2>1, EmptySeq DEF Sends
    <3> QED
      BY <3>1 DEF Avoids
  <2>2. CASE request[r].stage # "new"
    BY <2>2 DEF TInv, Tracks, Sends
  <2> QED
    BY <2>1, <2>2
<1> QED
  BY <1>1, Tracked, PTL

(* The targets of a plan were all in one admission category when it was    *)
(* made, for every route, priority, weight and candidate limit             *)
(* (route_state_admission_tier of src/route_plan.rs).                      *)
THEOREM OneCategory == Spec => []PlanUniform
<1>1. FInv /\ TInv => PlanUniform
  <2> SUFFICES ASSUME FInv, TInv, NEW r \in Request,
                      request[r].stage \notin {"new", "done"}
               PROVE  Cardinality({request[r].plan[n].frozen :
                                     n \in DOMAIN request[r].plan}) = 1
    BY DEF PlanUniform
  <2> DEFINE plan == request[r].plan
             at == request[r].position
  <2>1. request[r].stage \in {"planned"} \cup InFlight
    BY DEF FInv, Shape, Stage, InFlight
  <2>2. /\ at \in DOMAIN plan
        /\ \A m, n \in DOMAIN plan : plan[m].frozen = plan[n].frozen
    BY <2>1 DEF TInv, Tracks, OnPlan, SoundPlan
  <2>3. {plan[n].frozen : n \in DOMAIN plan} = {plan[at].frozen}
    BY <2>2
  <2> QED
    BY <2>3, FS_Singleton
<1> QED
  BY <1>1, Tracked, PTL
=============================================================================
