---------------------------- MODULE SuccessGuard ----------------------------
(***************************************************************************)
(* One successful upstream response on its way to the client:             *)
(* src/src/success_guard.rs peeks a bounded prefix of the body, looking   *)
(* for an error envelope behind a 2xx status, and src/src/                 *)
(* upstream_response.rs replays the prefix, runs the rest through the     *)
(* response filter and hands it on.  Nobody controls where the upstream   *)
(* cuts its chunks, when it stalls, ends early or breaks: every cut and   *)
(* every end is an action here, and a body is reduced to the positions of *)
(* its bytes that some decision looks at.                                  *)
(***************************************************************************)
EXTENDS Integers, SequencesExt

CONSTANTS
    Bodies,      \* the responses the upstream may give; see BodyType
    MaxBody,     \* bound: the longest body the upstream sends
    MaxBytes,    \* SUCCESS_GUARD_MAX_BYTES, the peeking cap
    MaxPending,  \* MAX_FILTER_PENDING_BYTES of the response filter
    Overlap      \* FILTER_OVERLAP_BYTES, kept back when the filter releases

Never == MaxBody + 1       \* the position of what a body does not have
Position == 1..Never

(***************************************************************************)
(* opens   the first byte with which a JSON value or an SSE data field is *)
(*         recognisable as begun                                           *)
(* closes  the byte that completes the JSON value, or the first data      *)
(*         event with its blank line                                       *)
(* spoils  the first byte of anything but space after a JSON value        *)
(* value   what the completed value is: an error envelope, something else *)
(*         that parses (or [DONE]), or no JSON at all                      *)
(* declared  the Content-Length, Never if there is none                   *)
(* marker  the first of the two bytes a response filter rule matches      *)
(* rule    what that rule does; "none" is a filter that is not effective  *)
(* blanks  the ends of its blank lines, of two bytes each, whatever its   *)
(*         kind                                                            *)
(* wide    the first byte of a character of two bytes, which is no        *)
(*         newline; all else in a body that is not encoded is text        *)
(***************************************************************************)
BodyType == [kind : {"json", "sse", "other"}, encoded : BOOLEAN,
             opens : Position, closes : Position, spoils : Position,
             value : {"error", "plain", "garbled"}, declared : 0..Never,
             marker : Position, rule : {"none", "redact", "reject"},
             blanks : SUBSET (2..MaxBody), wide : Position]

ASSUME BodiesAssumption ==
    /\ Bodies \subseteq BodyType
    /\ \A b \in Bodies : \A e \in b.blanks : b.wide \notin {e - 2, e - 1, e}
ASSUME BoundsAssumption ==
    MaxBody \in Nat /\ MaxBytes \in Nat \ {0} /\ Overlap \in Nat \ {0} /\ MaxPending \in Nat
    /\ Overlap < MaxPending

VARIABLES
    body,       \* the response being forwarded
    phase,      \* where it stands; see Phase
    sent,       \* how many bytes the upstream has produced
    upstream,   \* whether its stream goes on, has ended or broken off
    prefix,     \* the peeked bytes, until they are replayed
    overflow,   \* what the chunk that hit the cap had beyond it
    outcome,    \* GuardOutcome, once the body passes
    initial,    \* length of the prefix the length and end checks start from
    pulled,     \* bytes that passed these checks after the prefix
    held,       \* the filter's pending bytes
    finished,   \* the filter has seen the end of its input
    delivered,  \* what the client received
    observed    \* calls of the body failure observer

vars == <<body, phase, sent, upstream, prefix, overflow, outcome, initial,
          pulled, held, finished, delivered, observed>>
guardVars == <<outcome, initial>>
clientVars == <<pulled, held, finished, delivered, observed>>

Phase == {"arrived", "guarding", "classified", "failed", "rejected",
          "streaming", "done", "broken"}
Outcome == {"undecided", "Pass", "CapExhausted", "DeadlineExhausted",
            "ParseUnsupported"}
Redacted == 0        \* what a redacted marker is replaced with
Blocked == -1        \* the local error a rejecting rule puts in the stream

Bytes(m, n) == [i \in 1..(n - m) |-> m + i]       \* bytes m+1 .. n
Structured == body.kind \in {"json", "sse"}

-----------------------------------------------------------------------------
(* Peeking *)

ZeroLength == body.declared = 0

InspectJson(n, atCap, complete) ==
    CASE n >= body.closes /\ n < body.spoils /\ body.value = "error"
            -> "classified"
      [] n >= body.closes /\ n < body.spoils /\ body.value = "plain"
            -> IF atCap THEN "CapExhausted" ELSE "Pass"
      [] n < body.closes /\ ~atCap /\ ~complete
            -> "more"
      [] OTHER
            -> IF atCap THEN "CapExhausted" ELSE "ParseUnsupported"

InspectSse(n, atCap, complete) ==
    CASE n >= body.closes
            -> CASE body.value = "error" -> "classified"
                 [] body.value = "plain" -> "Pass"
                 [] OTHER -> "ParseUnsupported"
      [] n < body.closes /\ atCap -> "CapExhausted"
      [] n < body.closes /\ ~atCap /\ complete -> "ParseUnsupported"
      [] OTHER -> "more"

InspectOther(atCap) == IF atCap THEN "CapExhausted" ELSE "ParseUnsupported"

\* What a prefix of n bytes decides.
Inspect(n, atCap, complete) ==
    CASE body.kind = "json" -> InspectJson(n, atCap, complete)
      [] body.kind = "sse" -> InspectSse(n, atCap, complete)
      [] OTHER -> InspectOther(atCap)

MarkerIn(bytes) == {body.marker, body.marker + 1} \subseteq ToSet(bytes)

\* Whether they are UTF-8: not if they begin or end inside a character.
Text(bytes) == body.wide \in ToSet(bytes) <=> body.wide + 1 \in ToSet(bytes)

\* A rejecting rule that matches the prefix, if that is text, stops the response
\* before any output; otherwise it streams, the prefix first.
HandOver(result, peeked) ==
    /\ outcome' = result
    /\ initial' = Len(peeked)
    /\ phase' = IF /\ body.rule = "reject" /\ ~body.encoded
                   /\ MarkerIn(peeked) /\ Text(peeked)
                THEN "rejected" ELSE "streaming"

Decide(result, peeked) ==
    CASE result = "classified" -> phase' = "classified" /\ UNCHANGED guardVars
      [] result = "more" -> phase' = "guarding" /\ UNCHANGED guardVars
      [] OTHER -> HandOver(result, peeked)

\* A body declared empty passes at once, and so does one of another kind.  (A
\* status that carries no body is not guarded at all and is not modelled.)
Begin ==
    /\ phase = "arrived"
    /\ IF ZeroLength THEN HandOver("Pass", prefix)
       ELSE Decide(Inspect(0, FALSE, FALSE), prefix)
    /\ UNCHANGED <<body, sent, upstream, prefix, overflow>>
    /\ UNCHANGED clientVars

\* The HTTP client cuts a body off at its declared length.
Longest == IF body.declared = Never THEN MaxBody ELSE body.declared

Room == MaxBytes - Len(prefix)       \* what the prefix may still take

(* Mutant: the chunk that reaches the cap is taken whole. *)
TakenWhole(n) == n

Taken(n) == IF n <= Room THEN n ELSE Room

(* Mutant: the rest of that chunk is lost. *)
PutBackNothing(n) == <<>>

PutBack(n) == Bytes(sent + Taken(n), sent + n)

\* A chunk of n bytes: what fits under the cap is peeked at, what does not
\* is put back in front of the stream.
Peek(n) ==
    /\ phase = "guarding" /\ upstream = "open"
    /\ sent + n <= Longest
    /\ sent' = sent + n
    /\ prefix' = prefix \o Bytes(sent, sent + Taken(n))
    /\ overflow' = PutBack(n)
    /\ LET result == Inspect(Len(prefix'), Len(prefix') >= MaxBytes, FALSE)
       IN Decide(IF Taken(n) < n /\ result # "classified" THEN "CapExhausted"
                 ELSE result, prefix')
    /\ UNCHANGED <<body, upstream>>
    /\ UNCHANGED clientVars

(* Mutant: time is only looked at between chunks. *)
DeadlineAfterAChunk ==
    /\ phase = "guarding" /\ prefix # <<>>
    /\ HandOver("DeadlineExhausted", prefix)
    /\ UNCHANGED <<body, sent, upstream, prefix, overflow>>
    /\ UNCHANGED clientVars

\* The time one attempt gives to peeking is over, whatever the upstream does.
Deadline ==
    /\ phase = "guarding"
    /\ HandOver("DeadlineExhausted", prefix)
    /\ UNCHANGED <<body, sent, upstream, prefix, overflow>>
    /\ UNCHANGED clientVars

\* The upstream breaks off: with nothing peeked the attempt has failed, with
\* something peeked the client gets that and then the error.
PeekError ==
    /\ phase = "guarding"
    /\ upstream' = "broken"
    /\ IF prefix = <<>> THEN phase' = "failed" /\ UNCHANGED guardVars
       ELSE HandOver("ParseUnsupported", prefix)
    /\ UNCHANGED <<body, sent, prefix, overflow>>
    /\ UNCHANGED clientVars

PeekEof ==
    /\ phase = "guarding"
    /\ upstream' = "ended"
    /\ LET result == Inspect(Len(prefix), FALSE, TRUE)
       IN Decide(IF result = "more" THEN "ParseUnsupported" ELSE result, prefix)
    /\ UNCHANGED <<body, sent, prefix, overflow>>
    /\ UNCHANGED clientVars

-----------------------------------------------------------------------------
(* Streaming *)

Filtering == body.rule # "none" /\ ~body.encoded

\* The filter's units: what ends with a blank line, in a body of any kind, an
\* overfull window but for the bytes that stay as overlap, and what is left at
\* the end.
EventEnds == {i \in 2..Len(held) : /\ held[i] \in body.blanks
                                   /\ held[i - 1] = held[i] - 1}

(* Mutant: each chunk is filtered as it comes. *)
UnitDueEachChunk == held # <<>> \/ finished

UnitDue == EventEnds # {} \/ Len(held) > MaxPending \/ finished

UnitLength ==
    CASE EventEnds # {} -> CHOOSE i \in EventEnds : \A j \in EventEnds : i <= j
      [] EventEnds = {} /\ Len(held) > MaxPending -> Len(held) - Overlap
      [] OTHER -> Len(held)

\* A unit that is cut inside a character passes as it is.
Filtered(unit) ==
    CASE ~MarkerIn(unit) \/ ~Text(unit) -> unit
      [] MarkerIn(unit) /\ Text(unit) /\ body.rule = "reject" -> <<Blocked>>
      [] OTHER -> LET m == CHOOSE i \in DOMAIN unit : unit[i] = body.marker
                  IN SubSeq(unit, 1, m - 1) \o <<Redacted>>
                       \o SubSeq(unit, m + 2, Len(unit))

Receive(bytes) ==
    IF Filtering THEN held' = held \o bytes /\ UNCHANGED delivered
                 ELSE delivered' = delivered \o bytes /\ UNCHANGED held

Pulling == phase = "streaming" /\ ~(Filtering /\ UnitDue)
Replayed == prefix = <<>>

\* The peeked prefix comes first, and once.
PullPrefix ==
    /\ Pulling /\ ~Replayed
    /\ Receive(prefix)
    /\ prefix' = <<>>
    /\ UNCHANGED <<body, phase, sent, upstream, overflow, pulled, finished, observed>>
    /\ UNCHANGED guardVars

PullOverflow ==
    /\ Pulling /\ Replayed /\ overflow # <<>>
    /\ Receive(overflow)
    /\ pulled' = pulled + Len(overflow)
    /\ overflow' = <<>>
    /\ UNCHANGED <<body, phase, sent, upstream, prefix, finished, observed>>
    /\ UNCHANGED guardVars

PullChunk(n) ==
    /\ Pulling /\ Replayed /\ overflow = <<>> /\ upstream = "open"
    /\ sent + n <= Longest
    /\ sent' = sent + n
    /\ Receive(Bytes(sent, sent + n))
    /\ pulled' = pulled + n
    /\ UNCHANGED <<body, phase, upstream, prefix, overflow, finished, observed>>
    /\ UNCHANGED guardVars

\* The client's stream ends with an error, which the observer reports as a
\* failure of the channel; what the filter still holds is not delivered.
Break == phase' = "broken" /\ observed' = observed + 1 /\ UNCHANGED finished

PullError ==
    /\ Pulling /\ Replayed /\ overflow = <<>> /\ upstream # "ended"
    /\ upstream' = "broken"
    /\ Break
    /\ UNCHANGED <<body, sent, prefix, overflow, pulled, held, delivered>>
    /\ UNCHANGED guardVars

(* Mutant: the checks forget the prefix. *)
SeenWithoutPrefix == pulled

Seen == initial + pulled

ShortOfLength == body.declared # Never /\ Seen < body.declared
ChecksEnd == Structured /\ ~body.encoded /\ outcome # "CapExhausted"
Capped == initial >= MaxBytes \/ Seen > MaxBytes
Incomplete(n) == n < body.closes /\ n >= body.opens
EndsInside == ChecksEnd /\ ~Capped /\ Incomplete(Seen)

PullEof ==
    /\ Pulling /\ Replayed /\ overflow = <<>> /\ upstream # "broken"
    /\ upstream' = "ended"
    /\ IF ShortOfLength \/ EndsInside THEN Break
       ELSE /\ UNCHANGED observed
            /\ IF Filtering THEN finished' = TRUE /\ UNCHANGED phase
               ELSE phase' = "done" /\ UNCHANGED finished
    /\ UNCHANGED <<body, sent, prefix, overflow, pulled, held, delivered>>
    /\ UNCHANGED guardVars

Release ==
    /\ phase = "streaming" /\ Filtering /\ UnitDue /\ held # <<>>
    /\ delivered' = delivered \o Filtered(SubSeq(held, 1, UnitLength))
    /\ held' = SubSeq(held, UnitLength + 1, Len(held))
    /\ UNCHANGED <<body, phase, sent, upstream, prefix, overflow, pulled, finished,
                   observed>>
    /\ UNCHANGED guardVars

FilterEnds ==
    /\ phase = "streaming" /\ Filtering /\ finished /\ held = <<>>
    /\ phase' = "done"
    /\ UNCHANGED <<body, sent, upstream, prefix, overflow>>
    /\ UNCHANGED <<guardVars, clientVars>>

Ends == {"classified", "failed", "rejected", "done", "broken"}
Ended == phase \in Ends /\ UNCHANGED vars

-----------------------------------------------------------------------------
Init ==
    /\ body \in Bodies
    /\ phase = "arrived" /\ upstream = "open" /\ outcome = "undecided"
    /\ sent = 0 /\ initial = 0 /\ pulled = 0 /\ observed = 0
    /\ prefix = <<>> /\ overflow = <<>> /\ held = <<>> /\ delivered = <<>>
    /\ finished = FALSE

\* The steps the router takes by itself once the client reads on.
Drain == \/ PullPrefix \/ PullOverflow \/ Release \/ FilterEnds
         \/ upstream # "open" /\ (PullError \/ PullEof)

Next ==
    \/ Begin \/ Deadline \/ PeekError \/ PeekEof
    \/ \E n \in 1..MaxBody : Peek(n) \/ PullChunk(n)
    \/ PullPrefix \/ PullOverflow \/ PullError \/ PullEof \/ Release \/ FilterEnds
    \/ Ended

Spec == Init /\ [][Next]_vars

\* The guard runs as soon as the response is there, its timer fires, and a
\* client that is still connected reads on.  Nothing is assumed of the upstream.
FairSpec == Spec /\ WF_vars(Begin) /\ WF_vars(Deadline) /\ WF_vars(Drain)

-----------------------------------------------------------------------------
(* Properties *)

TypeOK ==
    /\ body \in Bodies /\ phase \in Phase /\ outcome \in Outcome
    /\ sent \in 0..MaxBody /\ initial \in 0..MaxBytes /\ pulled \in 0..MaxBody
    /\ upstream \in {"open", "ended", "broken"}
    /\ Len(prefix) <= MaxBytes
    /\ \A bytes \in {prefix, overflow, held} : ToSet(bytes) \subseteq 1..MaxBody
    /\ ToSet(delivered) \subseteq {Blocked, Redacted} \cup 1..MaxBody
    /\ finished \in BOOLEAN /\ observed \in 0..1

\* However the upstream cuts its chunks and wherever the cap falls in one, the
\* peeked prefix, what was put back behind it and the rest reach the client in
\* order, and each byte once.
PrefixReplayedOnce ==
    body.rule = "none" \/ body.marker = Never =>
        delivered \o held \o prefix \o overflow = Bytes(0, sent)

\* A body that stops short of its declared length, or inside the JSON value or
\* first event of a body below the cap, never looks to the client like one that
\* ended in good order.
CleanEndIsWhole ==
    phase = "done" =>
        /\ body.declared # Never => sent >= body.declared
        /\ Structured /\ ~body.encoded /\ sent < MaxBytes =>
              sent = 0 \/ sent < body.opens \/ sent >= body.closes

ErrorNotDelivered ==
    phase \in {"streaming", "done", "broken"} /\ Structured /\ body.value = "error"
        => initial < body.closes \/ (body.kind = "json" /\ initial >= body.spoils)

\* Of the stretch between two blank lines that a match begins in: it fills the
\* window; the match is not in the bytes that the first release of a window
\* takes; the character is in it, too.
Overfull ==
    \A from \in {0} \cup body.blanks, to \in body.blanks \cup {sent} :
        from <= body.marker /\ body.marker < to => to - from >= MaxPending
BehindWindow ==
    \A from \in {0} \cup body.blanks :
        from <= body.marker => body.marker + 1 > from + MaxPending - Overlap
WithCharacter == \A e \in body.blanks : e <= body.wide <=> e <= body.marker

MarkerWithheld ==
    Filtering /\ MarkerIn(delivered) =>
        \/ body.marker \in body.blanks
        \/ Overfull /\ (BehindWindow \/ WithCharacter)
        \/ finished /\ sent = body.wide /\ WithCharacter

\* What must not reach the client does not, whichever chunks it came in.  An
\* error envelope that the peeked prefix holds in full, nothing but space behind
\* it, is a failed attempt and not a byte of it is delivered.  A match is
\* replaced, in a later event as in the first, as long as the bytes between the
\* blank lines around it fit the window; in more than that, as long as it is in
\* what the first release of the window takes.  The filter misses a match that
\* has a blank line in it, in a body of any kind; one across the end of a
\* released window, for the bytes that it keeps back are not filtered together
\* with those before them; and one filtered with a character of which a release,
\* or the end of the body, left a part.
WithheldFromClient == ErrorNotDelivered /\ MarkerWithheld

\* A silent upstream holds a response back no longer than the guard's deadline,
\* and a response whose upstream has ended is ended for the client too.
GuardAndStreamEnd ==
    /\ phase \in {"arrived", "guarding"} ~> phase \notin {"arrived", "guarding"}
    /\ upstream # "open" ~> phase \in Ends

=============================================================================
