------------------------- MODULE SuccessGuardProofs -------------------------
(***************************************************************************)
(* Proofs about SuccessGuard, for every body, every cap, every filter      *)
(* window and every way the upstream cuts its chunks.                      *)
(*                                                                         *)
(* The inductive invariant Inv follows each byte: before the guard decides *)
(* the prefix is all that was sent, afterwards initial, pulled and what    *)
(* was put back count it (Accounted), and what was delivered, what the     *)
(* filter holds, the prefix and what was put back are, one behind the      *)
(* other, the bytes sent, unless the filter changed one (InOrder).  Ending *)
(* says what the guard has excluded and what a clean end has shown.        *)
(*                                                                         *)
(* Screen adds what the filter does.  The bytes it holds and the ones that *)
(* follow are numbered one behind the other from Through on (Consecutive), *)
(* so that the marker gets past it only where a unit ends between its two  *)
(* bytes, or holds both and is no text because it was cut inside a         *)
(* character (Screened).  Where units end is UnitKinds: with a blank line, *)
(* where the window was full, or with the stream.                          *)
(***************************************************************************)
EXTENDS SuccessGuard, SequenceTheorems, WellFoundedInduction, TLAPS

Byte == 1..MaxBody

-----------------------------------------------------------------------------
(* Facts about sequences of bytes.                                          *)

(* A concatenation, element by element.                                     *)
LEMMA ConcatElements ==
  ASSUME NEW S, NEW a \in Seq(S), NEW b \in Seq(S)
  PROVE  /\ a \o b \in Seq(S)
         /\ Len(a \o b) = Len(a) + Len(b)
         /\ \A i \in 1..Len(a) : (a \o b)[i] = a[i]
         /\ \A i \in (Len(a) + 1)..(Len(a) + Len(b)) : (a \o b)[i] = b[i - Len(a)]
<1>1. a \o b \in Seq(S)
  OBVIOUS
<1>2. Len(a \o b) = Len(a) + Len(b)
  OBVIOUS
<1>3. \A i \in 1..Len(a) : (a \o b)[i] = a[i]
  OBVIOUS
<1>4. \A i \in (Len(a) + 1)..(Len(a) + Len(b)) : (a \o b)[i] = b[i - Len(a)]
  OBVIOUS
<1> QED
  BY <1>1, <1>2, <1>3, <1>4

(* Sequences over one set with the same elements are equal.                 *)
LEMMA SameElements ==
  ASSUME NEW S, NEW a \in Seq(S), NEW b \in Seq(S), Len(a) = Len(b),
         \A i \in 1..Len(a) : a[i] = b[i]
  PROVE  a = b
  OBVIOUS

(* Bytes(m, n) is what its name says.                                       *)
LEMMA BytesShape ==
  ASSUME NEW m \in Nat, NEW n \in Nat, m <= n, n <= MaxBody
  PROVE  /\ Bytes(m, n) \in Seq(Byte)
         /\ Len(Bytes(m, n)) = n - m
         /\ \A i \in 1..(n - m) : Bytes(m, n)[i] = m + i
<1>1. \A i \in 1..(n - m) : m + i \in Byte
  BY BoundsAssumption DEF Byte
<1>2. n - m \in Nat
  OBVIOUS
<1>3. Bytes(m, n) \in [1..(n - m) -> Byte]
  BY <1>1 DEF Bytes
<1> QED
  BY <1>2, <1>3, LenProperties, IsASeq DEF Bytes

(* The bytes up to n follow the bytes up to m.                              *)
LEMMA BytesConcat ==
  ASSUME NEW k \in Nat, NEW m \in Nat, NEW n \in Nat,
         k <= m, m <= n, n <= MaxBody
  PROVE  Bytes(k, m) \o Bytes(m, n) = Bytes(k, n)
<1> DEFINE a == Bytes(k, m)
           b == Bytes(m, n)
           c == Bytes(k, n)
<1>0. m <= MaxBody /\ k <= n
  BY BoundsAssumption
<1>1. /\ a \in Seq(Byte) /\ Len(a) = m - k /\ \A i \in 1..(m - k) : a[i] = k + i
      /\ b \in Seq(Byte) /\ Len(b) = n - m /\ \A i \in 1..(n - m) : b[i] = m + i
      /\ c \in Seq(Byte) /\ Len(c) = n - k /\ \A i \in 1..(n - k) : c[i] = k + i
  BY <1>0, BytesShape
<1> HIDE DEF a, b, c
<1>2. a \o b \in Seq(Byte) /\ Len(a \o b) = n - k
  <2>1. a \o b \in Seq(Byte) /\ Len(a \o b) = Len(a) + Len(b)
    BY <1>1, ConcatElements
  <2> QED
    BY <1>1, <2>1
<1>3. \A i \in 1..(n - k) : (a \o b)[i] = k + i
  <2> SUFFICES ASSUME NEW i \in 1..(n - k)
               PROVE  (a \o b)[i] = k + i
    OBVIOUS
  <2>1. CASE i <= m - k
    <3>1. i \in 1..Len(a) /\ a[i] = k + i
      BY <1>1, <2>1
    <3> QED
      BY <1>1, <3>1, ConcatElements
  <2>2. CASE ~(i <= m - k)
    <3>1. i \in (Len(a) + 1)..(Len(a) + Len(b)) /\ i - Len(a) \in 1..(n - m)
      BY <1>1, <2>2
    <3>2. (a \o b)[i] = b[i - Len(a)]
      BY <1>1, <3>1, ConcatElements
    <3>3. b[i - Len(a)] = m + (i - Len(a))
      BY <1>1, <3>1
    <3> QED
      BY <1>1, <3>2, <3>3
  <2> QED
    BY <2>1, <2>2
<1>4. a \o b = c
  <2>1. Len(a \o b) = Len(c) /\ \A i \in 1..Len(a \o b) : (a \o b)[i] = c[i]
    BY <1>1, <1>2, <1>3
  <2>2. a \o b \in Seq(Byte) /\ c \in Seq(Byte)
    BY <1>1, <1>2
  <2> QED
    BY <2>1, <2>2, SameElements
<1> QED
  BY <1>4 DEF a, b, c

(* The same from the first byte on.                                         *)
LEMMA FirstBytes ==
  ASSUME NEW m \in Nat, NEW n \in Nat, m <= n, n <= MaxBody
  PROVE  /\ Bytes(0, m) \in Seq(Byte) /\ Len(Bytes(0, m)) = m
         /\ Bytes(0, m) \o Bytes(m, n) = Bytes(0, n)
<1>1. 0 \in Nat /\ 0 <= m /\ m <= MaxBody /\ m - 0 = m
  BY BoundsAssumption
<1>2. Bytes(0, m) \in Seq(Byte) /\ Len(Bytes(0, m)) = m - 0
  BY <1>1, BytesShape
<1>3. Bytes(0, m) \o Bytes(m, n) = Bytes(0, n)
  BY <1>1, BytesConcat
<1> QED
  BY <1>1, <1>2, <1>3

(* A sequence is what it begins with and what remains.                      *)
LEMMA SplitConcat ==
  ASSUME NEW S, NEW s \in Seq(S), NEW k \in 0..Len(s)
  PROVE  /\ SubSeq(s, 1, k) \in Seq(S) /\ SubSeq(s, k + 1, Len(s)) \in Seq(S)
         /\ SubSeq(s, 1, k) \o SubSeq(s, k + 1, Len(s)) = s
<1> DEFINE a == SubSeq(s, 1, k)
           b == SubSeq(s, k + 1, Len(s))
<1>1. Len(s) \in Nat /\ \A i \in 1..Len(s) : s[i] \in S
  BY LenProperties
<1>2. /\ a \in Seq(S) /\ Len(a) = k
      /\ \A i \in 1..k : a[i] = s[i]
  <2>1. \A i \in 1..k : s[i] \in S
    BY <1>1
  <2>2. /\ a \in Seq(S) /\ Len(a) = IF 1 <= k THEN k - 1 + 1 ELSE 0
        /\ \A i \in 1..(k - 1 + 1) : a[i] = s[1 + i - 1]
    BY <2>1, <1>1, SubSeqProperties
  <2> QED
    BY <2>2
<1>3. /\ b \in Seq(S) /\ Len(b) = Len(s) - k
      /\ \A i \in 1..(Len(s) - k) : b[i] = s[k + i]
  OBVIOUS
<1> HIDE DEF a, b
<1>4. a \o b \in Seq(S) /\ Len(a \o b) = Len(s)
  <2>1. a \o b \in Seq(S) /\ Len(a \o b) = Len(a) + Len(b)
    BY <1>2, <1>3, ConcatElements
  <2> QED
    BY <1>1, <1>2, <1>3, <2>1
<1>5. \A i \in 1..Len(s) : (a \o b)[i] = s[i]
  <2> SUFFICES ASSUME NEW i \in 1..Len(s)
               PROVE  (a \o b)[i] = s[i]
    OBVIOUS
  <2>1. CASE i <= k
    BY <1>2, <1>3, <2>1, ConcatElements
  <2>2. CASE ~(i <= k)
    <3>1. i \in (Len(a) + 1)..(Len(a) + Len(b)) /\ i - Len(a) \in 1..(Len(s) - k)
      BY <1>1, <1>2, <1>3, <2>2
    <3>2. (a \o b)[i] = b[i - Len(a)]
      BY <1>2, <1>3, <3>1, ConcatElements
    <3> QED
      BY <1>2, <1>3, <3>1, <3>2
  <2> QED
    BY <2>1, <2>2
<1>6. a \o b = s
  BY <1>4, <1>5, SameElements
<1> QED
  BY <1>2, <1>3, <1>6 DEF a, b

-----------------------------------------------------------------------------
(* The inductive invariant.                                                 *)

(* Nothing left the guard yet.                                              *)
Guarded == phase \in {"arrived", "guarding"}

(* The guard handed the response over.                                      *)
Passed == phase \in {"rejected", "streaming", "done", "broken"}

Shape ==
  /\ body \in BodyType /\ phase \in Phase
  /\ upstream \in {"open", "ended", "broken"}
  /\ outcome \in Outcome /\ finished \in BOOLEAN
  /\ sent \in 0..MaxBody /\ pulled \in Nat /\ initial \in Nat
  /\ prefix \in Seq(Byte) /\ overflow \in Seq(Byte) /\ held \in Seq(Byte)
  /\ Len(prefix) <= MaxBytes

(* The peeked prefix is all there is before the guard has decided; later   *)
(* every byte sent is accounted for by one of the counters.                *)
Accounted ==
  /\ Guarded => /\ overflow = <<>> /\ held = <<>> /\ delivered = <<>>
                /\ pulled = 0 /\ Len(prefix) = sent /\ prefix = Bytes(0, sent)
  /\ Passed => initial + pulled + Len(overflow) = sent
  /\ phase \in {"classified", "failed"} => held = <<>> /\ delivered = <<>>
  /\ ~Filtering => held = <<>>
  /\ Passed /\ outcome = "CapExhausted" => initial >= MaxBytes

(* A filter that changes nothing in this body: there is nothing to match.   *)
Transparent == body.rule = "none" \/ body.marker = Never

(* The bytes sent are in order in what was delivered, what the filter      *)
(* holds, the prefix and what was put back.                                *)
InOrder ==
  Transparent => /\ delivered \in Seq(Byte)
                 /\ delivered \o held \o prefix \o overflow = Bytes(0, sent)

(* n bytes of b hold no complete error envelope with nothing behind it.     *)
Inconclusive(b, n) ==
  b.kind \in {"json", "sse"} /\ b.value = "error" =>
    n < b.closes \/ (b.kind = "json" /\ n >= b.spoils)

(* What a stream that ends in good order has given.                         *)
WholeBody ==
  /\ body.declared # Never => sent >= body.declared
  /\ Structured /\ ~body.encoded /\ sent < MaxBytes =>
        sent = 0 \/ sent < body.opens \/ sent >= body.closes

Ending ==
  /\ phase = "guarding" => Inconclusive(body, Len(prefix))
  /\ phase \in {"streaming", "done", "broken"} => Inconclusive(body, initial)
  /\ phase = "arrived" => sent = 0
  /\ finished => (phase = "streaming" /\ Filtering) \/ phase = "done"
  /\ finished \/ phase = "done" => WholeBody

Inv == Shape /\ Accounted /\ InOrder /\ Ending

(* Bytes that were sent have positions.                                     *)
LEMMA Sizes ==
  /\ MaxBody \in Nat /\ MaxBytes \in Nat \ {0} /\ Never \in Nat
  /\ MaxBody < Never
  BY BoundsAssumption DEF Never

(* Nothing is sent, peeked or delivered when a response arrives.            *)
LEMMA InitInv ==
  ASSUME Init
  PROVE  Inv
<1>1. Shape
  <2>1. <<>> \in Seq(Byte) /\ Len(<<>>) <= MaxBytes
    BY Sizes
  <2>2. body \in BodyType
    BY BodiesAssumption DEF Init
  <2>3. 0 \in 0..MaxBody /\ 0 \in Nat
    BY Sizes
  <2>4. phase \in Phase /\ outcome \in Outcome /\ finished \in BOOLEAN
    BY DEF Init, Phase, Outcome
  <2> QED
    BY <2>1, <2>2, <2>3, <2>4 DEF Init, Shape
<1>2. Bytes(0, 0) = <<>>
  <2>1. Bytes(0, 0) \in Seq(Byte) /\ Len(Bytes(0, 0)) = 0
    BY BytesShape, Sizes
  <2> QED
    BY <2>1
<1>3. Accounted /\ InOrder
  <2>1. Accounted
    BY <1>2 DEF Init, Accounted, Guarded, Passed
  <2>2. delivered \o held \o prefix \o overflow = <<>>
    BY DEF Init
  <2> QED
    BY <1>2, <2>1, <2>2 DEF Init, InOrder
<1>4. Ending
  BY DEF Init, Ending
<1> QED
  BY <1>1, <1>3, <1>4 DEF Inv

-----------------------------------------------------------------------------
(* The guard.                                                               *)

(* Peeking shows nothing to the client, so that a decision of the guard    *)
(* keeps the invariant if the peeked prefix and what was put back are the  *)
(* bytes sent, and the decision is one the prefix supports.                *)
LEMMA DecisionInv ==
  ASSUME Inv, Guarded,
         NEW result \in {"classified", "more", "Pass", "CapExhausted",
                         "DeadlineExhausted", "ParseUnsupported"},
         Decide(result, prefix'),
         UNCHANGED body, UNCHANGED clientVars,
         upstream' \in {"open", "ended", "broken"}, sent' \in 0..MaxBody,
         prefix' \in Seq(Byte), overflow' \in Seq(Byte),
         Len(prefix') <= MaxBytes, Len(prefix') + Len(overflow') = sent',
         prefix' \o overflow' = Bytes(0, sent'),
         result = "CapExhausted" => Len(prefix') >= MaxBytes,
         result = "more" => overflow' = <<>>,
         result # "classified" => Inconclusive(body, Len(prefix'))
  PROVE  Inv'
<1>1. /\ held' = <<>> /\ delivered' = <<>> /\ pulled' = 0 /\ ~finished'
      /\ pulled' \in Nat /\ held' \in Seq(Byte) /\ finished' \in BOOLEAN
  <2>1. held = <<>> /\ delivered = <<>> /\ pulled = 0
    BY DEF Inv, Accounted
  <2>2. finished = FALSE
    BY DEF Inv, Ending, Guarded, Shape
  <2>3. <<>> \in Seq(Byte) /\ 0 \in Nat
    OBVIOUS
  <2> QED
    BY <2>1, <2>2, <2>3 DEF clientVars
<1>2. Len(prefix') \in Nat /\ Len(overflow') \in Nat
  OBVIOUS
<1>3. \/ phase' = "classified" /\ UNCHANGED guardVars /\ result = "classified"
      \/ phase' = "guarding" /\ UNCHANGED guardVars /\ result = "more"
      \/ /\ phase' \in {"rejected", "streaming"}
         /\ outcome' = result /\ initial' = Len(prefix')
         /\ result \in {"Pass", "CapExhausted", "DeadlineExhausted",
                        "ParseUnsupported"}
  BY DEF Decide, HandOver
<1>4. Shape'
  <2>1. /\ phase' \in Phase /\ outcome' \in Outcome /\ initial' \in Nat
    BY <1>2, <1>3 DEF Inv, Shape, Phase, Outcome, guardVars
  <2> QED
    BY <1>1, <2>1 DEF Inv, Shape
<1>5. Accounted'
  <2>1. Guarded' => /\ overflow' = <<>> /\ Len(prefix') = sent'
                    /\ prefix' = Bytes(0, sent')
    <3>1. CASE overflow' = <<>>
      BY <3>1
    <3>2. CASE overflow' # <<>>
      BY <1>3, <3>2 DEF Guarded
    <3> QED
      BY <3>1, <3>2
  <2>2. Passed' => initial' + pulled' + Len(overflow') = sent'
    <3>1. Passed' => initial' = Len(prefix')
      BY <1>3 DEF Passed
    <3>2. Len(prefix') + pulled' = Len(prefix')
      BY <1>1, <1>2
    <3> QED
      BY <3>1, <3>2, Zenon
  <2>3. Passed' /\ outcome' = "CapExhausted" => initial' >= MaxBytes
    BY <1>3 DEF Passed
  <2> QED
    BY <1>1, <2>1, <2>2, <2>3 DEF Accounted
<1>6. InOrder'
  <2>1. delivered' \in Seq(Byte)
    BY <1>1
  <2>2. delivered' \o held' \o prefix' \o overflow' = prefix' \o overflow'
    <3>1. <<>> \o <<>> \o prefix' = prefix'
      OBVIOUS
    <3> QED
      BY <1>1, <3>1
  <2> QED
    BY <2>1, <2>2 DEF InOrder
<1>7. Ending'
  <2>1. /\ phase' = "guarding" => result # "classified"
        /\ phase' \in {"streaming", "done", "broken"} =>
             result # "classified" /\ initial' = Len(prefix')
        /\ phase' # "arrived" /\ phase' # "done"
    BY <1>3
  <2> QED
    BY <1>1, <2>1 DEF Ending
<1> QED
  BY <1>4, <1>5, <1>6, <1>7 DEF Inv

(* What the guard may decide on n peeked bytes.                             *)
LEMMA InspectDecides ==
  ASSUME Inv, NEW n \in Nat, NEW atCap \in BOOLEAN, NEW complete \in BOOLEAN
  PROVE  /\ Inspect(n, atCap, complete) \in
              {"classified", "more", "Pass", "CapExhausted", "ParseUnsupported"}
         /\ Inspect(n, atCap, complete) = "CapExhausted" => atCap
         /\ Inspect(n, atCap, complete) = "more" => ~atCap /\ ~complete
         /\ Inspect(n, atCap, complete) # "classified" => Inconclusive(body, n)
<1>1. /\ body.kind \in {"json", "sse", "other"}
      /\ body.value \in {"error", "plain", "garbled"}
      /\ body.closes \in Nat /\ body.spoils \in Nat
  BY Sizes DEF Inv, Shape, BodyType, Position
<1>2. CASE body.kind = "json"
  <2>1. Inspect(n, atCap, complete) = InspectJson(n, atCap, complete)
    BY <1>2 DEF Inspect
  <2> QED
    BY <1>1, <1>2, <2>1 DEF InspectJson, Inconclusive
<1>3. CASE body.kind = "sse"
  <2>1. Inspect(n, atCap, complete) = InspectSse(n, atCap, complete)
    BY <1>3 DEF Inspect
  <2> QED
    BY <1>1, <1>3, <2>1 DEF InspectSse, Inconclusive
<1>4. CASE body.kind = "other"
  <2>1. Inspect(n, atCap, complete) = InspectOther(atCap)
    BY <1>4 DEF Inspect
  <2> QED
    BY <1>1, <1>4, <2>1 DEF InspectOther, Inconclusive, Structured
<1> QED
  BY <1>1, <1>2, <1>3, <1>4

(* A response that is declared empty, or of another kind, passes at once.   *)
LEMMA BeginInv ==
  ASSUME Inv, Begin
  PROVE  Inv'
<1> DEFINE result == IF ZeroLength THEN "Pass" ELSE Inspect(0, FALSE, FALSE)
<1>1. /\ overflow = <<>> /\ sent = 0 /\ Guarded
      /\ Len(prefix) = 0 /\ Len(overflow) = 0 /\ prefix = Bytes(0, sent)
  BY DEF Inv, Accounted, Ending, Guarded, Begin, Shape
<1>2. UNCHANGED <<body, sent, upstream, prefix, overflow>> /\ UNCHANGED clientVars
  BY DEF Begin
<1>3. 0 < body.closes
  BY Sizes DEF Inv, Shape, BodyType, Position
<1>4. /\ result \in {"classified", "more", "Pass", "CapExhausted",
                     "ParseUnsupported"}
      /\ result # "CapExhausted"
      /\ result # "classified" => Inconclusive(body, 0)
  BY <1>3, InspectDecides DEF Inconclusive
<1>5. Decide(result, prefix')
  BY <1>2 DEF Begin, Decide
<1>6. prefix' \o overflow' = Bytes(0, sent')
  <2>1. prefix \o <<>> = prefix
    BY DEF Inv, Shape
  <2> QED
    BY <1>1, <1>2, <2>1
<1> HIDE DEF result
<1> QED
  BY <1>1, <1>2, <1>4, <1>5, <1>6, DecisionInv DEF Inv, Shape

(* A chunk is divided at the cap.                                           *)
LEMMA PeekTakes ==
  ASSUME Inv, NEW n \in 1..MaxBody, Peek(n)
  PROVE  LET peeked == sent + Taken(n)
             total == sent + n
         IN /\ Guarded
            /\ peeked \in Nat /\ total \in Nat /\ peeked <= total
            /\ total <= MaxBody /\ peeked <= MaxBytes
            /\ Taken(n) < n => peeked = MaxBytes
            /\ ~(Taken(n) < n) => peeked = total
            /\ sent' = total
            /\ prefix' = Bytes(0, peeked) /\ overflow' = Bytes(peeked, total)
            /\ prefix' \o overflow' = Bytes(0, sent')
            /\ prefix' \in Seq(Byte) /\ Len(prefix') = peeked
            /\ overflow' \in Seq(Byte) /\ Len(overflow') = total - peeked
<1> DEFINE taken == Taken(n)
           peeked == sent + taken
           total == sent + n
<1>1. /\ Guarded /\ Len(prefix) = sent /\ sent \in Nat
      /\ prefix = Bytes(0, sent) /\ Len(prefix) <= MaxBytes
  BY DEF Inv, Accounted, Guarded, Peek, Shape
<1>2. sent + n <= MaxBody
  <2>1. body.declared \in 0..Never
    BY DEF Inv, Shape, BodyType
  <2>2. Longest <= MaxBody /\ Longest \in Nat
    BY <2>1, Sizes DEF Longest, Never
  <2> QED
    BY <1>1, <2>2, Sizes DEF Peek
<1>3. /\ taken \in Nat /\ taken <= n /\ sent + taken <= MaxBytes
      /\ taken < n => sent + taken = MaxBytes
  BY <1>1, Sizes DEF Taken, Room
<1>4. /\ prefix' = prefix \o Bytes(sent, peeked)
      /\ overflow' = Bytes(peeked, total)
      /\ sent' = total
  BY DEF Peek, PutBack
<1>5. /\ peeked \in Nat /\ total \in Nat /\ sent <= peeked /\ peeked <= total
      /\ total <= MaxBody /\ peeked <= MaxBody /\ peeked <= MaxBytes
      /\ taken < n => peeked = MaxBytes
      /\ ~(taken < n) => peeked = total
  <2> HIDE DEF taken
  <2> QED
    BY <1>1, <1>2, <1>3, Sizes
<1> HIDE DEF taken, peeked, total
<1>6. /\ prefix' = Bytes(0, peeked)
      /\ prefix' \o overflow' = Bytes(0, sent')
      /\ prefix' \in Seq(Byte) /\ Len(prefix') = peeked
      /\ overflow' \in Seq(Byte) /\ Len(overflow') = total - peeked
  <2>1. Bytes(0, sent) \o Bytes(sent, peeked) = Bytes(0, peeked)
    BY <1>1, <1>5, FirstBytes
  <2>2. Bytes(0, peeked) \o Bytes(peeked, total) = Bytes(0, total)
    BY <1>5, FirstBytes
  <2>3. Bytes(0, peeked) \in Seq(Byte) /\ Len(Bytes(0, peeked)) = peeked
    BY <1>5, FirstBytes
  <2>4. /\ Bytes(peeked, total) \in Seq(Byte)
        /\ Len(Bytes(peeked, total)) = total - peeked
    BY <1>5, BytesShape
  <2> QED
    BY <1>1, <1>4, <2>1, <2>2, <2>3, <2>4
<1> QED
  BY <1>1, <1>4, <1>5, <1>6, Zenon DEF taken, peeked, total

(* What the divided chunk decides.                                          *)
LEMMA PeekInv ==
  ASSUME Inv, NEW n \in 1..MaxBody, Peek(n)
  PROVE  Inv'
<1> DEFINE taken == Taken(n)
           peeked == sent + taken
           total == sent + n
           inspected == Inspect(Len(prefix'), Len(prefix') >= MaxBytes, FALSE)
           result == IF taken < n /\ inspected # "classified"
                     THEN "CapExhausted" ELSE inspected
<1>1. /\ Guarded /\ peeked \in Nat /\ total \in Nat /\ peeked <= total
      /\ total <= MaxBody /\ peeked <= MaxBytes
      /\ taken < n => peeked = MaxBytes
      /\ ~(taken < n) => peeked = total
      /\ sent' = total /\ prefix' \o overflow' = Bytes(0, sent')
      /\ prefix' \in Seq(Byte) /\ Len(prefix') = peeked
      /\ overflow' \in Seq(Byte) /\ Len(overflow') = total - peeked
  BY PeekTakes, Zenon
<1>2. Decide(result, prefix')
  BY DEF Peek
<1> HIDE DEF inspected, result, taken, peeked, total
<1>3. /\ inspected \in {"classified", "more", "Pass", "CapExhausted",
                       "ParseUnsupported"}
      /\ inspected = "CapExhausted" => Len(prefix') >= MaxBytes
      /\ inspected # "classified" => Inconclusive(body, Len(prefix'))
  <2>1. Len(prefix') \in Nat /\ (Len(prefix') >= MaxBytes) \in BOOLEAN
    BY <1>1
  <2> QED
    BY <2>1, InspectDecides DEF inspected
<1>4. /\ result \in {"classified", "more", "Pass", "CapExhausted",
                    "DeadlineExhausted", "ParseUnsupported"}
      /\ result = "CapExhausted" => Len(prefix') >= MaxBytes
      /\ result # "classified" => Inconclusive(body, Len(prefix'))
      /\ result = "more" => overflow' = <<>>
  <2>1. result = "more" => ~(taken < n)
    BY DEF result
  <2>2. result = "more" => Len(overflow') = 0
    BY <1>1, <2>1
  <2>3. result = "more" => overflow' = <<>>
    BY <1>1, <2>2
  <2>4. result = "CapExhausted" => Len(prefix') >= MaxBytes
    BY <1>1, <1>3, Sizes DEF result
  <2> QED
    BY <1>3, <2>3, <2>4 DEF result
<1>5. /\ UNCHANGED body /\ UNCHANGED clientVars
      /\ upstream' \in {"open", "ended", "broken"}
  BY DEF Peek
<1>6. /\ sent' \in 0..MaxBody /\ Len(prefix') <= MaxBytes
      /\ Len(prefix') + Len(overflow') = sent'
  <2>1. sent' \in 0..MaxBody
    BY <1>1, Sizes
  <2>2. peeked + (total - peeked) = total
    BY <1>1
  <2> QED
    BY <1>1, <2>1, <2>2
<1> QED
  BY <1>1, <1>2, <1>4, <1>5, <1>6, DecisionInv

(* Whatever ends the peeking, what was peeked is what was sent.             *)
LEMMA Peeked ==
  ASSUME Inv, phase = "guarding",
         UNCHANGED <<body, sent, prefix, overflow>>, UNCHANGED clientVars
  PROVE  /\ Guarded /\ sent' \in 0..MaxBody /\ UNCHANGED body
         /\ prefix' \in Seq(Byte) /\ overflow' \in Seq(Byte)
         /\ Len(prefix') <= MaxBytes /\ Len(prefix') + Len(overflow') = sent'
         /\ prefix' \o overflow' = Bytes(0, sent')
         /\ overflow' = <<>>
         /\ Inconclusive(body, Len(prefix'))
<1>1. /\ Guarded /\ overflow = <<>> /\ Len(prefix) = sent
      /\ prefix = Bytes(0, sent) /\ sent \in 0..MaxBody
      /\ prefix \in Seq(Byte) /\ Len(prefix) <= MaxBytes
      /\ Inconclusive(body, Len(prefix))
  BY DEF Inv, Shape, Accounted, Ending, Guarded
<1>2. prefix \o <<>> = prefix /\ Len(<<>>) = 0 /\ <<>> \in Seq(Byte)
  BY <1>1
<1>3. Len(prefix) + 0 = sent
  BY <1>1
<1> QED
  BY <1>1, <1>2, <1>3

(* The deadline passes what was peeked.                                     *)
LEMMA DeadlineInv ==
  ASSUME Inv, Deadline
  PROVE  Inv'
<1>1. /\ phase = "guarding" /\ UNCHANGED <<body, sent, prefix, overflow>>
      /\ UNCHANGED clientVars /\ UNCHANGED upstream
      /\ Decide("DeadlineExhausted", prefix')
  BY DEF Deadline, Decide
<1>2. upstream' \in {"open", "ended", "broken"}
  BY <1>1 DEF Inv, Shape
<1> QED
  BY <1>1, <1>2, Peeked, DecisionInv

(* The upstream breaks off, before the first byte or after it.              *)
LEMMA PeekErrorInv ==
  ASSUME Inv, PeekError
  PROVE  Inv'
<1>1. /\ phase = "guarding" /\ UNCHANGED <<body, sent, prefix, overflow>>
      /\ UNCHANGED clientVars /\ upstream' = "broken"
  BY DEF PeekError
<1>2. CASE prefix # <<>>
  <2>1. Decide("ParseUnsupported", prefix')
    BY <1>1, <1>2 DEF PeekError, Decide
  <2> QED
    BY <1>1, <2>1, Peeked, DecisionInv
<1>3. CASE prefix = <<>>
  <2>1. phase' = "failed" /\ UNCHANGED guardVars
    BY <1>3 DEF PeekError
  <2>2. Shape'
    BY <1>1, <2>1 DEF Inv, Shape, Phase, guardVars, clientVars
  <2>3. Accounted'
    BY <1>1, <2>1
       DEF Inv, Accounted, Guarded, Passed, Filtering, clientVars
  <2>4. InOrder'
    BY <1>1, <2>1 DEF Inv, InOrder, Transparent, clientVars
  <2>5. Ending'
    BY <1>1, <2>1 DEF Inv, Ending, clientVars
  <2> QED
    BY <2>2, <2>3, <2>4, <2>5 DEF Inv
<1> QED
  BY <1>2, <1>3

(* The body ends within the prefix.                                         *)
LEMMA PeekEofInv ==
  ASSUME Inv, PeekEof
  PROVE  Inv'
<1> DEFINE inspected == Inspect(Len(prefix), FALSE, TRUE)
           result == IF inspected = "more" THEN "ParseUnsupported" ELSE inspected
<1>1. /\ phase = "guarding" /\ UNCHANGED <<body, sent, prefix, overflow>>
      /\ UNCHANGED clientVars /\ upstream' = "ended"
      /\ Decide(result, prefix')
  BY DEF PeekEof
<1>2. Len(prefix) \in Nat
  BY DEF Inv, Shape
<1>3. /\ inspected \in {"classified", "more", "Pass", "CapExhausted",
                       "ParseUnsupported"}
      /\ inspected # "CapExhausted"
  BY <1>2, InspectDecides
<1> HIDE DEF inspected
<1>4. /\ result \in {"classified", "more", "Pass", "CapExhausted",
                    "DeadlineExhausted", "ParseUnsupported"}
      /\ result # "CapExhausted"
  BY <1>3
<1> HIDE DEF result
<1> QED
  BY <1>1, <1>4, Peeked, DecisionInv

-----------------------------------------------------------------------------
(* The stream.                                                              *)

(* What is received comes behind what the client or the filter has.         *)
LEMMA ReceiveInOrder ==
  ASSUME Inv, NEW bytes \in Seq(Byte), Receive(bytes), UNCHANGED body
  PROVE  /\ held' \in Seq(Byte) /\ (~Filtering => held' = <<>>)
         /\ Transparent => /\ delivered' \in Seq(Byte)
                           /\ delivered' \o held' \in Seq(Byte)
                           /\ delivered' \o held' = (delivered \o held) \o bytes
<1>1. held \in Seq(Byte) /\ (~Filtering => held = <<>>)
  BY DEF Inv, Shape, Accounted
<1>2. Transparent => delivered \in Seq(Byte)
  BY DEF Inv, InOrder
<1>3. Transparent => (delivered \o held) \o bytes \in Seq(Byte)
  <2>1. Transparent => delivered \o held \in Seq(Byte)
    BY <1>1, <1>2
  <2> QED
    BY <2>1
<1>4. CASE Filtering
  <2>1. held' = held \o bytes /\ delivered' = delivered
    BY <1>4 DEF Receive
  <2>2. held' \in Seq(Byte)
    BY <1>1, <2>1
  <2>3. Transparent => delivered' \o held' = (delivered \o held) \o bytes
    BY <1>1, <1>2, <2>1, ConcatAssociative
  <2> QED
    <3>1. Transparent => delivered' \in Seq(Byte)
      BY <1>2, <2>1
    <3>2. Transparent => delivered' \o held' \in Seq(Byte)
      BY <1>3, <2>3, Zenon
    <3> QED
      BY <1>4, <2>2, <2>3, <3>1, <3>2, Zenon
<1>5. CASE ~Filtering
  <2>1. delivered' = delivered \o bytes /\ held' = held /\ held = <<>>
    BY <1>1, <1>5 DEF Receive
  <2>2. Transparent => /\ delivered \o <<>> = delivered
                      /\ (delivered \o bytes) \o <<>> = delivered \o bytes
    BY <1>2
  <2> QED
    BY <1>3, <1>1, <1>2, <1>5, <2>1, <2>2
<1> QED
  BY <1>4, <1>5

(* While the stream is pulled, the filter has not seen its end.             *)
LEMMA PullingUnfinished ==
  ASSUME Inv, Pulling
  PROVE  /\ phase = "streaming" /\ finished = FALSE /\ Passed
         /\ initial + pulled + Len(overflow) = sent
         /\ sent \in Nat /\ pulled \in Nat /\ initial \in Nat
<1>1. phase = "streaming" /\ Passed
  BY DEF Pulling, Passed
<1>2. finished => Filtering
  BY <1>1 DEF Inv, Ending
<1>3. finished = FALSE
  BY <1>2 DEF Pulling, UnitDue, Inv, Shape
<1> QED
  BY <1>1, <1>3 DEF Inv, Shape, Accounted

(* A pull that leaves the stream open only has to keep its bytes.           *)
LEMMA PullKeeps ==
  ASSUME Inv, Pulling,
         UNCHANGED <<body, phase, finished>>, UNCHANGED guardVars,
         upstream' \in {"open", "ended", "broken"},
         sent' \in 0..MaxBody, pulled' \in Nat,
         prefix' \in Seq(Byte), overflow' \in Seq(Byte), held' \in Seq(Byte),
         Len(prefix') <= MaxBytes, ~Filtering => held' = <<>>,
         initial + pulled' + Len(overflow') = sent',
         Transparent => /\ delivered' \in Seq(Byte)
                        /\ delivered' \o held' \o prefix' \o overflow'
                             = Bytes(0, sent')
  PROVE  Inv'
<1>1. phase = "streaming" /\ finished = FALSE /\ Passed
  BY PullingUnfinished
<1>2. Shape'
  BY DEF Inv, Shape, guardVars
<1>3. Accounted'
  BY <1>1 DEF Inv, Accounted, Guarded, Passed, Filtering, guardVars
<1>4. InOrder'
  BY DEF InOrder, Transparent
<1>5. Ending'
  BY <1>1 DEF Inv, Ending, guardVars
<1> QED
  BY <1>2, <1>3, <1>4, <1>5 DEF Inv

(* The prefix is replayed first.                                            *)
LEMMA PullPrefixInv ==
  ASSUME Inv, PullPrefix
  PROVE  Inv'
<1>1. /\ Pulling /\ Receive(prefix) /\ prefix' = <<>>
      /\ UNCHANGED <<body, phase, sent, upstream, overflow, pulled, finished>>
      /\ UNCHANGED guardVars
  BY DEF PullPrefix
<1>2. /\ prefix \in Seq(Byte) /\ overflow \in Seq(Byte) /\ <<>> \in Seq(Byte)
      /\ Len(<<>>) <= MaxBytes /\ sent \in 0..MaxBody
      /\ upstream \in {"open", "ended", "broken"}
  BY Sizes DEF Inv, Shape
<1>3. Transparent => /\ delivered' \in Seq(Byte)
                     /\ delivered' \o held' \o prefix' \o overflow'
                          = Bytes(0, sent')
  <2> SUFFICES ASSUME Transparent
               PROVE  /\ delivered' \in Seq(Byte)
                      /\ delivered' \o held' \o prefix' \o overflow'
                           = Bytes(0, sent')
    OBVIOUS
  <2>1. /\ delivered' \in Seq(Byte) /\ held' \in Seq(Byte)
        /\ delivered' \o held' \in Seq(Byte)
        /\ delivered' \o held' = (delivered \o held) \o prefix
    BY <1>1, <1>2, ReceiveInOrder
  <2>2. (delivered' \o held') \o <<>> = delivered' \o held'
    <3>1. delivered' \o held' \in Seq(Byte)
      BY <2>1
    <3> QED
      BY <3>1
  <2> QED
    BY <1>1, <2>1, <2>2 DEF Inv, InOrder
<1>4. held' \in Seq(Byte) /\ (~Filtering => held' = <<>>)
  BY <1>1, <1>2, ReceiveInOrder
<1>5. initial + pulled' + Len(overflow') = sent' /\ pulled' \in Nat
  BY <1>1, PullingUnfinished
<1> QED
  BY <1>1, <1>2, <1>3, <1>4, <1>5, PullKeeps

(* What was put back comes next.                                            *)
LEMMA PullOverflowInv ==
  ASSUME Inv, PullOverflow
  PROVE  Inv'
<1>1. /\ Pulling /\ Receive(overflow) /\ overflow' = <<>> /\ prefix = <<>>
      /\ pulled' = pulled + Len(overflow)
      /\ UNCHANGED <<body, phase, sent, upstream, prefix, finished>>
      /\ UNCHANGED guardVars
  BY DEF PullOverflow, Replayed
<1>2. /\ overflow \in Seq(Byte) /\ <<>> \in Seq(Byte) /\ Len(<<>>) = 0
      /\ Len(overflow) \in Nat
      /\ 0 <= MaxBytes /\ sent \in 0..MaxBody
      /\ upstream \in {"open", "ended", "broken"}
  BY Sizes DEF Inv, Shape
<1>3. Transparent => /\ delivered' \in Seq(Byte)
                     /\ delivered' \o held' \o prefix' \o overflow'
                          = Bytes(0, sent')
  <2> SUFFICES ASSUME Transparent
               PROVE  /\ delivered' \in Seq(Byte)
                      /\ delivered' \o held' \o prefix' \o overflow'
                           = Bytes(0, sent')
    OBVIOUS
  <2>1. /\ delivered' \in Seq(Byte) /\ held' \in Seq(Byte)
        /\ delivered' \o held' \in Seq(Byte)
        /\ delivered' \o held' = (delivered \o held) \o overflow
    BY <1>1, <1>2, ReceiveInOrder
  <2>2. (delivered' \o held') \o <<>> \o <<>> = delivered' \o held'
    <3>1. delivered' \o held' \in Seq(Byte)
      BY <2>1
    <3>2. (delivered' \o held') \o <<>> = delivered' \o held'
      BY <3>1
    <3> QED
      BY <3>2
  <2>3. (delivered \o held) \o <<>> = delivered \o held
    <3>1. delivered \o held \in Seq(Byte)
      BY DEF Inv, InOrder, Shape
    <3> QED
      BY <3>1
  <2> QED
    BY <1>1, <2>1, <2>2, <2>3 DEF Inv, InOrder
<1>4. held' \in Seq(Byte) /\ (~Filtering => held' = <<>>)
  BY <1>1, <1>2, ReceiveInOrder
<1>5. initial + pulled' + Len(overflow') = sent' /\ pulled' \in Nat
  <2>1. initial + (pulled + Len(overflow)) + 0 = sent /\ pulled + Len(overflow) \in Nat
    BY <1>1, <1>2, PullingUnfinished
  <2> QED
    BY <1>1, <1>2, <2>1
<1> QED
  BY <1>1, <1>2, <1>3, <1>4, <1>5, PullKeeps

(* Then the upstream itself.                                                *)
LEMMA PullChunkInv ==
  ASSUME Inv, NEW n \in 1..MaxBody, PullChunk(n)
  PROVE  Inv'
<1> DEFINE total == sent + n
           chunk == Bytes(sent, total)
<1>1. /\ Pulling /\ Receive(chunk) /\ overflow = <<>> /\ prefix = <<>>
      /\ pulled' = pulled + n /\ sent' = total
      /\ UNCHANGED <<body, phase, upstream, prefix, overflow, finished>>
      /\ UNCHANGED guardVars
  BY DEF PullChunk, Replayed
<1>2. /\ <<>> \in Seq(Byte) /\ Len(<<>>) = 0
      /\ 0 <= MaxBytes /\ sent \in Nat
      /\ upstream \in {"open", "ended", "broken"}
  BY Sizes DEF Inv, Shape
<1>3. total \in Nat /\ sent <= total /\ total <= MaxBody /\ total \in 0..MaxBody
  <2>1. body.declared \in 0..Never
    BY DEF Inv, Shape, BodyType
  <2>2. Longest <= MaxBody /\ Longest \in Nat
    BY <2>1, Sizes DEF Longest, Never
  <2> QED
    BY <1>2, <2>2, Sizes DEF PullChunk
<1>4. initial + pulled' + Len(overflow') = sent' /\ pulled' \in Nat
  <2>1. initial + (pulled + n) + 0 = total /\ pulled + n \in Nat
    BY <1>1, <1>2, PullingUnfinished
  <2> QED
    BY <1>1, <1>2, <2>1
<1> HIDE DEF total
<1>5. /\ chunk \in Seq(Byte)
      /\ Bytes(0, sent) \o chunk = Bytes(0, total)
  BY <1>2, <1>3, BytesShape, FirstBytes
<1> HIDE DEF chunk
<1>6. Transparent => /\ delivered' \in Seq(Byte)
                     /\ delivered' \o held' \o prefix' \o overflow'
                          = Bytes(0, sent')
  <2> SUFFICES ASSUME Transparent
               PROVE  /\ delivered' \in Seq(Byte)
                      /\ delivered' \o held' \o prefix' \o overflow'
                           = Bytes(0, sent')
    OBVIOUS
  <2>1. /\ delivered' \in Seq(Byte) /\ held' \in Seq(Byte)
        /\ delivered' \o held' \in Seq(Byte)
        /\ delivered' \o held' = (delivered \o held) \o chunk
    BY <1>1, <1>5, ReceiveInOrder
  <2>2. (delivered' \o held') \o <<>> \o <<>> = delivered' \o held'
    <3>1. delivered' \o held' \in Seq(Byte)
      BY <2>1
    <3>2. (delivered' \o held') \o <<>> = delivered' \o held'
      BY <3>1
    <3> QED
      BY <3>2
  <2>3. (delivered \o held) \o <<>> \o <<>> = delivered \o held
    <3>1. delivered \o held \in Seq(Byte)
      BY DEF Inv, InOrder, Shape
    <3>2. (delivered \o held) \o <<>> = delivered \o held
      BY <3>1
    <3> QED
      BY <3>2
  <2>4. delivered \o held = Bytes(0, sent)
    BY <1>1, <2>3 DEF Inv, InOrder
  <2> QED
    BY <1>1, <1>5, <2>1, <2>2, <2>4
<1>7. held' \in Seq(Byte) /\ (~Filtering => held' = <<>>)
  BY <1>1, <1>5, ReceiveInOrder
<1> QED
  BY <1>1, <1>2, <1>3, <1>4, <1>6, <1>7, PullKeeps

(* A stream that breaks keeps what was delivered.                           *)
LEMMA BreakInv ==
  ASSUME Inv, Pulling, Break, upstream' \in {"open", "ended", "broken"},
         UNCHANGED <<body, sent, prefix, overflow, pulled, held, delivered>>,
         UNCHANGED guardVars
  PROVE  Inv'
<1>1. phase = "streaming" /\ finished = FALSE /\ finished' = finished
      /\ phase' = "broken" /\ Passed
  BY PullingUnfinished DEF Break
<1>2. Shape'
  BY <1>1 DEF Inv, Shape, Phase, guardVars
<1>3. Accounted'
  BY <1>1 DEF Inv, Accounted, Guarded, Passed, Filtering, guardVars
<1>4. InOrder'
  BY DEF Inv, InOrder, Transparent
<1>5. Ending'
  BY <1>1 DEF Inv, Ending, guardVars
<1> QED
  BY <1>2, <1>3, <1>4, <1>5 DEF Inv

(* An upstream that breaks off breaks the stream.                           *)
LEMMA PullErrorInv ==
  ASSUME Inv, PullError
  PROVE  Inv'
  BY BreakInv DEF PullError

(* A stream that ends in good order has given the whole body.               *)
LEMMA PullEofInv ==
  ASSUME Inv, PullEof
  PROVE  Inv'
<1>1. /\ Pulling /\ overflow = <<>> /\ upstream' = "ended"
      /\ UNCHANGED <<body, sent, prefix, overflow, pulled, held, delivered>>
      /\ UNCHANGED guardVars
  BY DEF PullEof
<1>2. /\ phase = "streaming" /\ finished = FALSE /\ Passed
      /\ sent \in Nat /\ initial \in Nat /\ pulled \in Nat
  BY <1>1, PullingUnfinished
<1>3. Seen = sent /\ initial <= sent
  <2>1. initial + pulled + Len(overflow) = sent /\ Len(overflow) = 0
    BY <1>1, PullingUnfinished
  <2>2. initial + pulled + 0 = initial + pulled
    BY <1>2
  <2> QED
    BY <1>2, <2>1, <2>2 DEF Seen
<1>4. CASE ShortOfLength \/ EndsInside
  <2>1. Break
    BY <1>4 DEF PullEof
  <2> QED
    BY <1>1, <2>1, BreakInv
<1>5. CASE ~(ShortOfLength \/ EndsInside)
  <2>1. \/ Filtering /\ finished' = TRUE /\ phase' = phase
        \/ ~Filtering /\ phase' = "done" /\ finished' = finished
    BY <1>5 DEF PullEof
  <2>2. WholeBody
    <3>1. /\ body.declared \in Nat /\ body.closes \in Nat /\ body.opens \in Nat
      BY Sizes DEF Inv, Shape, BodyType, Position
    <3>2. body.declared # Never => sent >= body.declared
      BY <1>2, <1>3, <1>5, <3>1 DEF ShortOfLength
    <3>3. ASSUME Structured, ~body.encoded, sent < MaxBytes
          PROVE  sent < body.opens \/ sent >= body.closes
      <4>1. ~(initial >= MaxBytes) /\ ~Capped
        BY <1>2, <1>3, <3>3, Sizes DEF Capped
      <4>2. outcome # "CapExhausted"
        BY <1>2, <4>1 DEF Inv, Accounted
      <4>3. ~Incomplete(sent)
        BY <1>3, <1>5, <3>3, <4>1, <4>2 DEF EndsInside, ChecksEnd
      <4> QED
        BY <1>2, <3>1, <4>3 DEF Incomplete
    <3> QED
      BY <3>2, <3>3 DEF WholeBody
  <2>3. WholeBody'
    BY <1>1, <2>2 DEF WholeBody, Structured
  <2>4. Shape'
    <3>1. phase' \in Phase
      BY <1>2, <2>1 DEF Phase
    <3>2. finished' \in BOOLEAN
      BY <1>2, <2>1
    <3> QED
      BY <1>1, <3>1, <3>2 DEF Inv, Shape, guardVars
  <2>5. Accounted'
    BY <1>1, <1>2, <2>1
       DEF Inv, Accounted, Guarded, Passed, Filtering, guardVars
  <2>6. InOrder'
    BY <1>1 DEF Inv, InOrder, Transparent
  <2>7. Ending'
    <3>1. phase' \in {"streaming", "done"}
      BY <1>2, <2>1
    <3>2. Inconclusive(body, initial)'
      BY <1>1, <1>2 DEF Inv, Ending, guardVars
    <3>3. finished' => (phase' = "streaming" /\ Filtering') \/ phase' = "done"
      BY <1>1, <1>2, <2>1 DEF Filtering
    <3> QED
      BY <2>3, <3>1, <3>2, <3>3 DEF Ending
  <2> QED
    BY <2>4, <2>5, <2>6, <2>7 DEF Inv
<1> QED
  BY <1>4, <1>5

(* The end of a unit lies within what the filter holds.                     *)
LEMMA UnitWithin ==
  ASSUME Inv, UnitDue
  PROVE  UnitLength \in 0..Len(held)
<1>1. Len(held) \in Nat
  BY DEF Inv, Shape
<1>2. CASE EventEnds # {}
  <2>1. EventEnds \subseteq 0..Len(held) /\ EventEnds \subseteq Nat
    BY <1>1 DEF EventEnds
  <2>2. PICK i \in EventEnds : \A j \in EventEnds : ~(<<j, i>> \in OpToRel(<, Nat))
    BY <1>2, <2>1, NatLessThanWellFounded, WFMin
  <2>3. \A j \in EventEnds : i <= j
    <3> TAKE j \in EventEnds
    <3>1. i \in Nat /\ j \in Nat /\ ~(j < i)
      BY <2>1, <2>2 DEF OpToRel
    <3> QED
      BY <3>1
  <2>4. UnitLength = CHOOSE k \in EventEnds : \A j \in EventEnds : k <= j
    BY <1>2 DEF UnitLength
  <2>5. UnitLength \in EventEnds
    BY <2>3, <2>4
  <2> QED
    BY <2>1, <2>5
<1>3. CASE EventEnds = {} /\ Len(held) > MaxPending
  <2>1. UnitLength = Len(held) - Overlap
    BY <1>3 DEF UnitLength
  <2> QED
    BY <1>1, <1>3, <2>1, BoundsAssumption
<1>4. CASE EventEnds = {} /\ ~(Len(held) > MaxPending)
  <2>1. UnitLength = Len(held)
    BY <1>4 DEF UnitLength
  <2> QED
    BY <1>1, <2>1
<1> QED
  BY <1>2, <1>3, <1>4

(* A unit without the marker is released as it is.                          *)
LEMMA ReleaseInv ==
  ASSUME Inv, Release
  PROVE  Inv'
<1> DEFINE unit == SubSeq(held, 1, UnitLength)
           rest == SubSeq(held, UnitLength + 1, Len(held))
<1>1. /\ phase = "streaming" /\ Filtering /\ UnitDue
      /\ delivered' = delivered \o Filtered(unit) /\ held' = rest
      /\ UNCHANGED <<body, phase, sent, upstream, prefix, overflow, pulled,
                     finished>>
      /\ UNCHANGED guardVars
  BY DEF Release
<1>2. /\ unit \in Seq(Byte) /\ rest \in Seq(Byte) /\ unit \o rest = held
  <2>1. held \in Seq(Byte) /\ UnitLength \in 0..Len(held)
    BY <1>1, UnitWithin DEF Inv, Shape
  <2> QED
    BY <2>1, SplitConcat
<1> HIDE DEF unit, rest
<1>3. Shape'
  BY <1>1, <1>2 DEF Inv, Shape, guardVars
<1>4. Accounted'
  BY <1>1 DEF Inv, Accounted, Guarded, Passed, Filtering, guardVars
<1>5. InOrder'
  <2> SUFFICES ASSUME Transparent
               PROVE  /\ delivered' \in Seq(Byte)
                      /\ delivered' \o held' = delivered \o held
    BY <1>1 DEF Inv, InOrder, Transparent
  <2>1. delivered \in Seq(Byte)
    BY DEF Inv, InOrder
  <2>2. body.marker \notin ToSet(unit)
    <3>1. body.marker = Never
      BY <1>1 DEF Transparent, Filtering
    <3>2. ToSet(unit) \subseteq Byte
      BY <1>2 DEF ToSet
    <3>3. Never \notin Byte
      BY Sizes DEF Byte
    <3> QED
      BY <3>1, <3>2, <3>3
  <2>3. Filtered(unit) = unit
    BY <2>2 DEF Filtered, MarkerIn
  <2>4. delivered' = delivered \o unit
    BY <1>1, <2>3
  <2>5. (delivered \o unit) \o rest = delivered \o (unit \o rest)
    <3>1. unit \in Seq(Byte) /\ rest \in Seq(Byte)
      BY <1>2
    <3> QED
      BY <2>1, <3>1, ConcatAssociative
  <2>6. delivered \o unit \in Seq(Byte)
    BY <1>2, <2>1
  <2> QED
    BY <1>1, <1>2, <2>4, <2>5, <2>6
<1>6. Ending'
  BY <1>1 DEF Inv, Ending, Filtering, WholeBody, Structured, guardVars
<1> QED
  BY <1>3, <1>4, <1>5, <1>6 DEF Inv

(* The filter has nothing left.                                             *)
LEMMA FilterEndsInv ==
  ASSUME Inv, FilterEnds
  PROVE  Inv'
<1>1. /\ phase = "streaming" /\ finished /\ phase' = "done"
      /\ UNCHANGED <<body, sent, upstream, prefix, overflow>>
      /\ UNCHANGED guardVars /\ UNCHANGED clientVars
  BY DEF FilterEnds
<1>2. Shape'
  BY <1>1 DEF Inv, Shape, Phase, guardVars, clientVars
<1>3. Accounted'
  BY <1>1 DEF Inv, Accounted, Guarded, Passed, Filtering, guardVars, clientVars
<1>4. InOrder'
  BY <1>1 DEF Inv, InOrder, Transparent, clientVars
<1>5. Ending'
  BY <1>1 DEF Inv, Ending, WholeBody, Structured, guardVars, clientVars
<1> QED
  BY <1>2, <1>3, <1>4, <1>5 DEF Inv

-----------------------------------------------------------------------------
(* The theorems.                                                            *)

(* Every step keeps the invariant.                                          *)
LEMMA NextInv ==
  ASSUME Inv, [Next]_vars
  PROVE  Inv'
<1>1. CASE Begin
  BY <1>1, BeginInv
<1>2. CASE Deadline
  BY <1>2, DeadlineInv
<1>3. CASE PeekError
  BY <1>3, PeekErrorInv
<1>4. CASE PeekEof
  BY <1>4, PeekEofInv
<1>5. ASSUME NEW n \in 1..MaxBody, Peek(n) \/ PullChunk(n)
      PROVE  Inv'
  BY <1>5, PeekInv, PullChunkInv
<1>6. CASE PullPrefix
  BY <1>6, PullPrefixInv
<1>7. CASE PullOverflow
  BY <1>7, PullOverflowInv
<1>8. CASE PullError
  BY <1>8, PullErrorInv
<1>9. CASE PullEof
  BY <1>9, PullEofInv
<1>10. CASE Release
  BY <1>10, ReleaseInv
<1>11. CASE FilterEnds
  BY <1>11, FilterEndsInv
<1>12. CASE UNCHANGED vars
  <2>1. UNCHANGED <<body, phase, sent, upstream, prefix, overflow, outcome,
                    initial, pulled, held, finished, delivered>>
    BY <1>12 DEF vars
  <2>2. Shape'
    BY <2>1 DEF Inv, Shape
  <2>3. Accounted' /\ InOrder'
    BY <2>1 DEF Inv, Accounted, InOrder, Guarded, Passed, Filtering, Transparent
  <2>4. Ending'
    BY <2>1 DEF Inv, Ending, Filtering, WholeBody, Structured
  <2> QED
    BY <2>2, <2>3, <2>4 DEF Inv
<1> QED
  BY <1>1, <1>2, <1>3, <1>4, <1>5, <1>6, <1>7, <1>8, <1>9, <1>10, <1>11, <1>12
     DEF Next, Ended

(* The invariant holds in every reachable state.                            *)
LEMMA SpecInv == Spec => []Inv
<1>1. Init => Inv
  BY InitInv
<1>2. Inv /\ [Next]_vars => Inv'
  BY NextInv
<1> QED
  BY <1>1, <1>2, PTL DEF Spec

(* Whatever the cap, the deadline, the filter's window and the chunks: the *)
(* peeked prefix, the rest of the chunk that reached the cap and what came *)
(* later reach the client in order, and each byte once                     *)
(* (guard_success_byte_stream, prefixed_body_stream).                      *)
THEOREM BytesInOrder == Spec => []PrefixReplayedOnce
<1>1. Inv => PrefixReplayedOnce
  BY DEF Inv, InOrder, Transparent, PrefixReplayedOnce
<1> QED
  BY <1>1, SpecInv, PTL

(* A stream that ends in good order for the client gave the declared       *)
(* length, and did not stop inside the JSON value or the first event of a  *)
(* body below the cap, whether the prefix or the stream held the rest      *)
(* (the length and end checks that start from the prefix).                 *)
THEOREM CleanEnds == Spec => []CleanEndIsWhole
<1>1. Inv => CleanEndIsWhole
  BY DEF Inv, Ending, WholeBody, CleanEndIsWhole
<1> QED
  BY <1>1, SpecInv, PTL

(* A response whose peeked prefix holds a whole error envelope, and nothing *)
(* but space behind it, is never handed to the client, whichever decision, *)
(* deadline or end of the upstream came first (inspect_success_prefix).    *)
THEOREM EnvelopeWithheld == Spec => []ErrorNotDelivered
<1>1. Inv => ErrorNotDelivered
  BY DEF Inv, Ending, Inconclusive, Structured, ErrorNotDelivered
<1> QED
  BY <1>1, SpecInv, PTL
-----------------------------------------------------------------------------
(* What the filter lets through.                                            *)

(* How many bytes have left the router, or the filter, for the client.      *)
Through == sent - Len(overflow) - Len(prefix) - Len(held)

(* The elements of s are the bytes behind byte k.                           *)
Numbered(s, k) == \A i \in DOMAIN s : s[i] = k + i

Consecutive ==
  LET k == Through
  IN /\ k \in Nat
     /\ Numbered(held, k)
     /\ Numbered(prefix, k + Len(held))
     /\ Numbered(overflow, k + Len(held) + Len(prefix))

Item == Byte \cup {Blocked, Redacted}

Counted ==
  /\ body \in Bodies /\ delivered \in Seq(Item)
  /\ initial <= MaxBytes
  /\ phase \in {"classified", "failed"} => pulled = 0
  /\ observed \in {0, 1} /\ (phase # "broken" => observed = 0)

(* Byte p lies in a stretch between two blank lines that fills the window,  *)
(* and is not the last one sent.                                            *)
Fills(p) ==
  /\ p < sent
  /\ \A from \in {0} \cup body.blanks, to \in body.blanks \cup {sent} :
       from <= p /\ p < to => to - from >= MaxPending

(* What the filter cannot catch: it cut a unit inside the match, or filtered *)
(* the match with a part of a character.                                     *)
Excused ==
  \/ body.marker \in body.blanks
  \/ Fills(body.marker) /\ (BehindWindow \/ WithCharacter)
  \/ finished /\ sent = body.wide /\ WithCharacter

(* Both bytes of the marker are out only if their units were excused, and   *)
(* so, already, when only the first one is; a unit ends inside the character *)
(* only where the window was full, or with the stream.                      *)
Screened ==
  Filtering =>
    /\ \A b \in ToSet(delivered) : b <= Through
    /\ MarkerIn(delivered) => Excused
    /\ body.marker \in ToSet(delivered) /\ Through = body.marker =>
         Excused \/ (finished /\ held = <<>>)
    /\ Through = body.wide => Fills(body.wide) \/ (finished /\ held = <<>>)
    /\ finished => prefix = <<>> /\ overflow = <<>>

Screen == Consecutive /\ Counted /\ Screened

(* Nothing has reached the filter when a response arrives.                  *)
LEMMA InitScreen ==
  ASSUME Init
  PROVE  Screen
<1>1. /\ sent = 0 /\ held = <<>> /\ prefix = <<>> /\ overflow = <<>>
      /\ delivered = <<>> /\ finished = FALSE /\ initial = 0 /\ observed = 0
      /\ phase = "arrived" /\ body \in Bodies
  BY DEF Init
<1>2. Through = 0 /\ DOMAIN <<>> = {} /\ <<>> \in Seq(Item)
  <2>1. Len(<<>>) = 0 /\ DOMAIN <<>> = {} /\ <<>> \in Seq(Item)
    OBVIOUS
  <2>2. 0 - 0 - 0 - 0 = 0
    OBVIOUS
  <2> QED
    BY <1>1, <2>1, <2>2 DEF Through
<1>3. Consecutive
  BY <1>1, <1>2 DEF Consecutive, Numbered
<1>4. Counted
  BY <1>1, <1>2, Sizes DEF Counted
<1>5. ToSet(delivered) = {}
  BY <1>1, <1>2 DEF ToSet
<1>6. Screened
  <2>1. body.wide # 0
    BY <1>1, BodiesAssumption, Sizes DEF BodyType, Position
  <2> QED
    BY <1>1, <1>2, <1>5, <2>1 DEF Screened, MarkerIn
<1> QED
  BY <1>3, <1>4, <1>6 DEF Screen

(* A step that neither delivers nor sends keeps what the filter knows.      *)
LEMMA QuietScreened ==
  ASSUME Screen, UNCHANGED <<body, sent, prefix, overflow, held, delivered>>,
         finished' => finished \/ (prefix = <<>> /\ overflow = <<>>),
         finished => finished'
  PROVE  Consecutive' /\ Screened'
<1>1. Consecutive'
  BY DEF Screen, Consecutive, Through, Numbered
<1>2. /\ Through' = Through /\ Filtering' = Filtering
      /\ Fills(body.wide)' = Fills(body.wide) /\ (Excused => Excused')
  BY DEF Through, Filtering, Excused, Fills, BehindWindow, WithCharacter
<1>3. MarkerIn(delivered)' = MarkerIn(delivered)
  BY DEF MarkerIn
<1>4. Screened'
  BY <1>2, <1>3 DEF Screen, Screened
<1> QED
  BY <1>1, <1>4

-----------------------------------------------------------------------------
(* The guard hands nothing out.                                             *)

(* The decision of the guard starts the count of the stream's bytes.        *)
LEMMA DecisionCounted ==
  ASSUME Inv, Screen, Guarded, NEW result, Decide(result, prefix'),
         UNCHANGED body, UNCHANGED clientVars, Len(prefix') <= MaxBytes
  PROVE  Counted'
<1>1. /\ pulled = 0 /\ phase # "broken" /\ observed = 0
  BY DEF Inv, Accounted, Guarded, Screen, Counted
<1>2. /\ phase' # "broken"
      /\ initial' = initial \/ initial' = Len(prefix')
  BY DEF Decide, HandOver, guardVars
<1>3. pulled' = 0 /\ observed' = 0 /\ delivered' = delivered
  BY <1>1 DEF clientVars
<1> QED
  BY <1>2, <1>3 DEF Screen, Counted

(* A response that passes at once was not peeked.                           *)
LEMMA BeginScreen ==
  ASSUME Inv, Screen, Begin
  PROVE  Screen'
<1>1. /\ UNCHANGED <<body, sent, upstream, prefix, overflow>>
      /\ UNCHANGED clientVars /\ Guarded
  BY DEF Begin, Guarded
<1>2. \E result : Decide(result, prefix')
  <2>1. CASE ZeroLength
    <3>1. Decide("Pass", prefix')
      BY <1>1, <2>1 DEF Begin, Decide
    <3> QED
      BY <3>1
  <2>2. CASE ~ZeroLength
    <3>1. Decide(Inspect(0, FALSE, FALSE), prefix')
      BY <1>1, <2>2 DEF Begin
    <3> QED
      BY <3>1
  <2> QED
    BY <2>1, <2>2
<1>3. Len(prefix') <= MaxBytes
  BY <1>1 DEF Inv, Shape
<1>4. Counted'
  BY <1>1, <1>2, <1>3, DecisionCounted
<1>5. Consecutive' /\ Screened'
  BY <1>1, QuietScreened DEF clientVars
<1> QED
  BY <1>4, <1>5 DEF Screen

(* A chunk that is peeked at follows the prefix.                            *)
LEMMA PeekScreen ==
  ASSUME Inv, Screen, NEW n \in 1..MaxBody, Peek(n)
  PROVE  Screen'
<1> DEFINE peeked == sent + Taken(n)
           total == sent + n
<1>1. /\ Guarded /\ peeked \in Nat /\ total \in Nat /\ peeked <= total
      /\ total <= MaxBody /\ peeked <= MaxBytes
      /\ sent' = total
      /\ prefix' = Bytes(0, peeked) /\ overflow' = Bytes(peeked, total)
      /\ Len(prefix') = peeked /\ Len(overflow') = total - peeked
  BY PeekTakes, Zenon
<1>2. UNCHANGED body /\ UNCHANGED clientVars
  BY DEF Peek
<1>3. \E result : Decide(result, prefix')
  BY DEF Peek
<1> HIDE DEF peeked, total
<1>4. Counted'
  BY <1>1, <1>2, <1>3, DecisionCounted
<1>5. held' = <<>> /\ delivered' = <<>> /\ finished' = FALSE
  BY <1>1, <1>2 DEF clientVars, Inv, Shape, Accounted, Ending, Guarded
<1>6. Through' = 0
  <2>1. Len(held') = 0
    BY <1>5
  <2> QED
    BY <1>1, <2>1 DEF Through
<1>7. Consecutive'
  <2>1. /\ Numbered(prefix', 0) /\ Numbered(overflow', peeked)
        /\ Numbered(held', 0)
    <3>1. Numbered(prefix', 0)
      BY <1>1 DEF Numbered, Bytes
    <3>2. Numbered(overflow', peeked)
      BY <1>1 DEF Numbered, Bytes
    <3> QED
      BY <1>5, <3>1, <3>2 DEF Numbered
  <2>2. Len(held') = 0 /\ Len(prefix') = peeked /\ peeked \in Nat
    BY <1>1, <1>5
  <2>3. (Numbered(prefix', 0) /\ Numbered(overflow', peeked) /\ Numbered(held', 0))
        => Consecutive'
    BY <1>6, <2>2 DEF Consecutive, Numbered
  <2> QED
    BY <2>1, <2>3
<1>8. ToSet(delivered') = {} /\ DOMAIN delivered' = {}
  BY <1>5 DEF ToSet
<1>9. Screened'
  <2>1. body.wide # 0 /\ body' = body
    BY <1>2, Sizes DEF Inv, Shape, BodyType, Position
  <2> QED
    BY <1>5, <1>6, <1>8, <2>1 DEF Screened, MarkerIn
<1> QED
  BY <1>4, <1>7, <1>9 DEF Screen

(* Whatever else ends the peeking shows nothing to the filter.              *)
LEMMA GuardEndsScreen ==
  ASSUME Inv, Screen, Deadline \/ PeekError \/ PeekEof
  PROVE  Screen'
<1>1. /\ UNCHANGED <<body, sent, prefix, overflow>> /\ UNCHANGED clientVars
      /\ Guarded
  BY DEF Deadline, PeekError, PeekEof, Guarded
<1>2. Len(prefix') <= MaxBytes
  BY <1>1 DEF Inv, Shape
<1>3. \/ \E result : Decide(result, prefix')
      \/ phase' = "failed" /\ UNCHANGED guardVars
  <2>1. CASE Deadline
    <3>1. Decide("DeadlineExhausted", prefix')
      BY <1>1, <2>1 DEF Deadline, Decide
    <3> QED
      BY <3>1
  <2>2. CASE PeekError
    <3>1. Decide("ParseUnsupported", prefix') \/ (phase' = "failed" /\ UNCHANGED guardVars)
      BY <1>1, <2>2 DEF PeekError, Decide
    <3> QED
      BY <3>1
  <2>3. CASE PeekEof
    BY <1>1, <2>3 DEF PeekEof
  <2> QED
    BY <2>1, <2>2, <2>3
<1>4. Counted'
  <2>1. CASE \E result : Decide(result, prefix')
    BY <1>1, <1>2, <2>1, DecisionCounted
  <2>2. CASE phase' = "failed" /\ UNCHANGED guardVars
    BY <1>1, <2>2 DEF Screen, Counted, Inv, Accounted, guardVars, clientVars, Guarded
  <2> QED
    BY <1>3, <2>1, <2>2
<1>5. Consecutive' /\ Screened'
  BY <1>1, QuietScreened DEF clientVars
<1> QED
  BY <1>4, <1>5 DEF Screen

-----------------------------------------------------------------------------
(* The stream.                                                              *)

(* What follows a numbered sequence continues its numbers.                  *)
LEMMA ConcatNumbered ==
  ASSUME NEW a \in Seq(Byte), NEW b \in Seq(Byte), NEW k \in Nat,
         Numbered(a, k), Numbered(b, k + Len(a))
  PROVE  Numbered(a \o b, k)
<1> DEFINE c == a \o b
<1>1. /\ c \in Seq(Byte) /\ Len(c) = Len(a) + Len(b)
      /\ \A i \in 1..Len(a) : c[i] = a[i]
      /\ \A i \in (Len(a) + 1)..(Len(a) + Len(b)) : c[i] = b[i - Len(a)]
  BY ConcatElements
<1> HIDE DEF c
<1>2. Len(a) \in Nat /\ Len(b) \in Nat /\ DOMAIN c = 1..(Len(a) + Len(b))
  BY <1>1
<1>3. \A i \in 1..Len(a) : a[i] = k + i
  BY DEF Numbered
<1>4. \A i \in 1..Len(b) : b[i] = k + Len(a) + i
  BY DEF Numbered
<1> SUFFICES ASSUME NEW i \in 1..(Len(a) + Len(b))
             PROVE  c[i] = k + i
  BY <1>2 DEF Numbered, c
<1>5. CASE i <= Len(a)
  BY <1>1, <1>2, <1>3, <1>5
<1>6. CASE ~(i <= Len(a))
  <2> DEFINE j == i - Len(a)
  <2>1. j \in 1..Len(b) /\ i \in (Len(a) + 1)..(Len(a) + Len(b)) /\ i = Len(a) + j
    BY <1>2, <1>6
  <2>2. c[i] = b[j]
    BY <1>1, <2>1
  <2> HIDE DEF j
  <2>3. b[j] = k + Len(a) + j
    BY <1>4, <2>1
  <2> QED
    BY <1>2, <2>1, <2>2, <2>3
<1> QED
  BY <1>5, <1>6

(* A stretch that fills the window does so after more bytes.                *)
LEMMA FillsStays ==
  ASSUME Inv, UNCHANGED body, sent' \in Nat, sent' >= sent
  PROVE  /\ Fills(body.marker) => Fills(body.marker)'
         /\ Fills(body.wide) => Fills(body.wide)'
<1>1. /\ body.blanks \subseteq Nat /\ body.marker \in Nat /\ body.wide \in Nat
      /\ sent \in Nat /\ MaxPending \in Nat
  BY Sizes, BoundsAssumption DEF Inv, Shape, BodyType, Position
<1>2. ASSUME NEW p \in Nat, p < sent, NEW from \in {0} \cup body.blanks,
             NEW to \in body.blanks \cup {sent'}, from <= p, p < to,
             \A lo \in {0} \cup body.blanks, hi \in body.blanks \cup {sent} :
               lo <= p /\ p < hi => hi - lo >= MaxPending
      PROVE  to - from >= MaxPending
  <2>1. CASE to \in body.blanks
    BY <1>2, <2>1
  <2>2. CASE to = sent'
    <3>1. sent - from >= MaxPending
      BY <1>2
    <3> QED
      BY <1>1, <2>2, <3>1
  <2> QED
    BY <2>1, <2>2
<1> QED
  BY <1>1, <1>2 DEF Fills

(* What is received goes to the client, or to the end of the window.        *)
LEMMA ReceiveScreen ==
  ASSUME Inv, Screen, Pulling, NEW bytes \in Seq(Byte), Receive(bytes),
         UNCHANGED <<body, phase, initial, finished, observed>>,
         Numbered(bytes, Through + Len(held)),
         prefix' \in Seq(Byte), overflow' \in Seq(Byte), sent' \in Nat,
         sent' >= sent,
         sent' - Len(overflow') - Len(prefix')
           = sent - Len(overflow) - Len(prefix) + Len(bytes),
         Numbered(prefix', Through + Len(held) + Len(bytes)),
         Numbered(overflow', Through + Len(held) + Len(bytes) + Len(prefix'))
  PROVE  Screen'
<1>1. /\ held \in Seq(Byte) /\ prefix \in Seq(Byte) /\ overflow \in Seq(Byte)
      /\ sent \in Nat /\ finished = FALSE /\ phase = "streaming"
  BY PullingUnfinished DEF Inv, Shape
<1>2. /\ Len(held) \in Nat /\ Len(prefix) \in Nat /\ Len(overflow) \in Nat
      /\ Len(bytes) \in Nat /\ Len(prefix') \in Nat /\ Len(overflow') \in Nat
      /\ Through \in Nat /\ Numbered(held, Through)
  BY <1>1 DEF Screen, Consecutive
<1>3. delivered \in Seq(Item) /\ Byte \subseteq Item
  BY DEF Screen, Counted, Item
<1>4. CASE Filtering
  <2>1. held' = held \o bytes /\ delivered' = delivered
    BY <1>4 DEF Receive
  <2>2. /\ held' \in Seq(Byte) /\ Len(held') = Len(held) + Len(bytes)
        /\ \A i \in 1..Len(held) : held'[i] = held[i]
        /\ \A i \in (Len(held) + 1)..(Len(held) + Len(bytes)) :
             held'[i] = bytes[i - Len(held)]
    BY <1>1, <2>1, ConcatElements
  <2>3. Through' = Through
    BY <1>1, <1>2, <2>2 DEF Through
  <2>4. Numbered(held', Through)
    <3>1. Numbered(held \o bytes, Through)
      BY <1>1, <1>2, ConcatNumbered
    <3> QED
      BY <2>1, <3>1
  <2>5. Consecutive'
    <3>1. /\ Numbered(prefix', Through + Len(held'))
          /\ Numbered(overflow', Through + Len(held') + Len(prefix'))
      <4>1. Through + Len(held') = Through + Len(held) + Len(bytes)
        BY <1>2, <2>2
      <4> QED
        BY <4>1
    <3> QED
      BY <1>2, <2>3, <2>4, <3>1 DEF Consecutive, Numbered
  <2>6. (Excused => Excused') /\ (Fills(body.wide) => Fills(body.wide)')
    BY <1>1, FillsStays DEF Excused, BehindWindow, WithCharacter
  <2>7. Screened'
    BY <1>1, <1>4, <2>1, <2>3, <2>6 DEF Screen, Screened, MarkerIn, Filtering
  <2>8. Counted'
    BY <1>1, <2>1 DEF Screen, Counted
  <2> QED
    BY <2>5, <2>7, <2>8 DEF Screen
<1>5. CASE ~Filtering
  <2>1. held' = <<>> /\ held = <<>> /\ delivered' = delivered \o bytes
    BY <1>5 DEF Receive, Inv, Accounted
  <2>2. Len(held') = 0 /\ Len(held) = 0 /\ DOMAIN held' = {}
    BY <2>1
  <2>3. Through' = Through + Len(bytes)
    BY <1>1, <1>2, <2>2 DEF Through
  <2>4. Consecutive'
    <3>1. /\ Numbered(prefix', Through' + Len(held'))
          /\ Numbered(overflow', Through' + Len(held') + Len(prefix'))
      <4>1. Through' + Len(held') = Through + Len(held) + Len(bytes)
        BY <1>2, <2>2, <2>3
      <4> QED
        BY <4>1
    <3>2. Through' \in Nat /\ Numbered(held', Through')
      BY <1>2, <2>2, <2>3 DEF Numbered
    <3> QED
      BY <3>1, <3>2 DEF Consecutive, Numbered
  <2>5. delivered' \in Seq(Item)
    <3>1. bytes \in Seq(Item)
      BY <1>3
    <3> QED
      BY <1>3, <2>1, <3>1
  <2>6. Counted'
    BY <1>1, <2>5 DEF Screen, Counted
  <2>7. Screened'
    BY <1>5 DEF Screened, Filtering
  <2> QED
    BY <2>4, <2>6, <2>7 DEF Screen
<1> QED
  BY <1>4, <1>5

(* The replayed prefix, what was put back and a new chunk follow each other.*)
LEMMA PullScreen ==
  ASSUME Inv, Screen,
         PullPrefix \/ PullOverflow \/ \E n \in 1..MaxBody : PullChunk(n)
  PROVE  Screen'
<1>1. /\ held \in Seq(Byte) /\ prefix \in Seq(Byte) /\ overflow \in Seq(Byte)
      /\ sent \in Nat /\ <<>> \in Seq(Byte) /\ Len(<<>>) = 0 /\ DOMAIN <<>> = {}
  BY DEF Inv, Shape
<1>2. /\ Len(held) \in Nat /\ Len(prefix) \in Nat /\ Len(overflow) \in Nat
      /\ Through \in Nat /\ Numbered(prefix, Through + Len(held))
      /\ Numbered(overflow, Through + Len(held) + Len(prefix))
      /\ Through = sent - Len(overflow) - Len(prefix) - Len(held)
  BY <1>1 DEF Screen, Consecutive, Through
<1>3. CASE PullPrefix
  <2>1. /\ Pulling /\ Receive(prefix) /\ prefix' = <<>>
        /\ UNCHANGED <<body, phase, sent, overflow, finished, observed>>
        /\ UNCHANGED initial
    BY <1>3 DEF PullPrefix, guardVars
  <2>2. /\ Numbered(prefix', Through + Len(held) + Len(prefix))
        /\ Numbered(overflow',
                    Through + Len(held) + Len(prefix) + Len(prefix'))
    <3>1. Through + Len(held) + Len(prefix) + 0 = Through + Len(held) + Len(prefix)
      BY <1>2
    <3> QED
      BY <1>1, <1>2, <2>1, <3>1 DEF Numbered
  <2>3. sent' - Len(overflow') - Len(prefix')
          = sent - Len(overflow) - Len(prefix) + Len(prefix)
    BY <1>1, <1>2, <2>1
  <2>4. sent' \in Nat /\ sent' >= sent
    BY <1>1, <2>1
  <2>5. prefix' \in Seq(Byte) /\ overflow' \in Seq(Byte)
    BY <1>1, <2>1
  <2> QED
    BY <1>1, <1>2, <2>1, <2>2, <2>3, <2>4, <2>5, ReceiveScreen
<1>4. CASE PullOverflow
  <2>1. /\ Pulling /\ Receive(overflow) /\ prefix = <<>> /\ prefix' = <<>>
        /\ overflow' = <<>>
        /\ UNCHANGED <<body, phase, sent, finished, observed>>
        /\ UNCHANGED initial
    BY <1>4 DEF PullOverflow, Replayed, guardVars
  <2>2. Numbered(overflow, Through + Len(held))
    <3>1. Through + Len(held) + 0 = Through + Len(held)
      BY <1>2
    <3> QED
      BY <1>1, <1>2, <2>1, <3>1
  <2>3. /\ Numbered(prefix', Through + Len(held) + Len(overflow))
        /\ Numbered(overflow',
                    Through + Len(held) + Len(overflow) + Len(prefix'))
    BY <1>1, <2>1 DEF Numbered
  <2>4. sent' - Len(overflow') - Len(prefix')
          = sent - Len(overflow) - Len(prefix) + Len(overflow)
    BY <1>1, <1>2, <2>1
  <2> QED
    BY <1>1, <1>2, <2>1, <2>2, <2>3, <2>4, ReceiveScreen
<1>5. ASSUME NEW n \in 1..MaxBody, PullChunk(n)
      PROVE  Screen'
  <2> DEFINE total == sent + n
             chunk == Bytes(sent, total)
  <2>1. /\ Pulling /\ Receive(chunk) /\ prefix = <<>> /\ overflow = <<>>
        /\ prefix' = <<>> /\ overflow' = <<>> /\ sent' = total
        /\ UNCHANGED <<body, phase, finished, observed>>
        /\ UNCHANGED initial
    BY <1>5 DEF PullChunk, Replayed, guardVars
  <2>2. total \in Nat /\ sent <= total /\ total <= MaxBody
    <3>1. body.declared \in 0..Never
      BY DEF Inv, Shape, BodyType
    <3>2. Longest <= MaxBody /\ Longest \in Nat
      BY <3>1, Sizes DEF Longest, Never
    <3> QED
      BY <1>1, <1>5, <3>2, Sizes DEF PullChunk
  <2>3. total - sent = n /\ n \in Nat
    BY <1>1, Sizes
  <2> HIDE DEF total
  <2>4. /\ chunk \in Seq(Byte) /\ Len(chunk) = n
        /\ \A i \in 1..n : chunk[i] = sent + i
    <3>1. /\ chunk \in Seq(Byte) /\ Len(chunk) = total - sent
          /\ \A i \in 1..(total - sent) : chunk[i] = sent + i
      BY <1>1, <2>2, BytesShape
    <3> QED
      BY <2>3, <3>1
  <2> HIDE DEF chunk
  <2>5. Through + Len(held) = sent
    BY <1>1, <1>2, <2>1
  <2>6. Numbered(chunk, Through + Len(held))
    BY <2>3, <2>4, <2>5 DEF Numbered
  <2>7. /\ Numbered(prefix', Through + Len(held) + Len(chunk))
        /\ Numbered(overflow', Through + Len(held) + Len(chunk) + Len(prefix'))
    BY <1>1, <2>1 DEF Numbered
  <2>8. sent' - Len(overflow') - Len(prefix')
          = sent - Len(overflow) - Len(prefix) + Len(chunk)
    <3>1. total - 0 - 0 = sent - 0 - 0 + n
      BY <1>1, <2>2, <2>3
    <3> QED
      BY <1>1, <2>1, <2>4, <3>1
  <2>9. sent' \in Nat /\ sent' >= sent
    BY <1>1, <2>1, <2>2
  <2> QED
    BY <1>1, <2>1, <2>4, <2>6, <2>7, <2>8, <2>9, ReceiveScreen
<1> QED
  BY <1>3, <1>4, <1>5

(* The end of the upstream's stream shows nothing new to the filter.        *)
LEMMA StreamEndsScreen ==
  ASSUME Inv, Screen, PullError \/ PullEof
  PROVE  Screen'
<1>1. /\ Pulling /\ prefix = <<>> /\ overflow = <<>>
      /\ UNCHANGED <<body, sent, prefix, overflow, pulled, held, delivered>>
      /\ UNCHANGED guardVars
  BY DEF PullError, PullEof, Replayed
<1>2. phase = "streaming" /\ finished = FALSE
  BY <1>1, PullingUnfinished
<1>3. \/ Break
      \/ UNCHANGED observed /\ phase' \in {"streaming", "done"}
  BY <1>2 DEF PullError, PullEof
<1>4. observed = 0
  BY <1>2 DEF Screen, Counted
<1>5. Counted'
  <2>1. phase' \in {"streaming", "done", "broken"}
    BY <1>3 DEF Break
  <2>2. observed' \in {0, 1} /\ (phase' # "broken" => observed' = 0)
    BY <1>3, <1>4 DEF Break
  <2> QED
    BY <1>1, <2>1, <2>2 DEF Screen, Counted, guardVars
<1>6. Consecutive' /\ Screened'
  BY <1>1, <1>2, QuietScreened
<1> QED
  BY <1>5, <1>6 DEF Screen

(* The elements of a concatenation.                                         *)
LEMMA ConcatToSet ==
  ASSUME NEW S, NEW a \in Seq(S), NEW b \in Seq(S)
  PROVE  ToSet(a \o b) = ToSet(a) \cup ToSet(b)
<1>1. /\ a \o b \in Seq(S)
      /\ Len(a \o b) = Len(a) + Len(b)
      /\ \A i \in 1..Len(a) : (a \o b)[i] = a[i]
      /\ \A i \in (Len(a) + 1)..(Len(a) + Len(b)) : (a \o b)[i] = b[i - Len(a)]
  BY ConcatElements
<1> DEFINE c == a \o b
<1> HIDE DEF c
<1>2. /\ Len(a) \in Nat /\ Len(b) \in Nat /\ DOMAIN a = 1..Len(a)
      /\ DOMAIN b = 1..Len(b) /\ DOMAIN c = 1..(Len(a) + Len(b))
      /\ \A i \in 1..Len(a) : c[i] = a[i]
      /\ \A i \in (Len(a) + 1)..(Len(a) + Len(b)) : c[i] = b[i - Len(a)]
  BY <1>1 DEF c
<1>3. ASSUME NEW i \in DOMAIN c
      PROVE  c[i] \in ToSet(a) \cup ToSet(b)
  <2>1. CASE i <= Len(a)
    BY <1>2, <2>1 DEF ToSet
  <2>2. CASE ~(i <= Len(a))
    <3>1. i - Len(a) \in DOMAIN b /\ c[i] = b[i - Len(a)]
      BY <1>2, <2>2
    <3> QED
      BY <3>1 DEF ToSet
  <2> QED
    BY <2>1, <2>2
<1>4. ASSUME NEW i \in DOMAIN a
      PROVE  a[i] \in ToSet(c)
  <2>1. i \in DOMAIN c /\ c[i] = a[i]
    BY <1>2
  <2> QED
    BY <2>1 DEF ToSet
<1>5. ASSUME NEW i \in DOMAIN b
      PROVE  b[i] \in ToSet(c)
  <2> DEFINE j == Len(a) + i
  <2>1. j \in DOMAIN c /\ j \in (Len(a) + 1)..(Len(a) + Len(b)) /\ j - Len(a) = i
    BY <1>2
  <2>2. c[j] = b[j - Len(a)]
    BY <1>2, <2>1
  <2> QED
    BY <2>1, <2>2 DEF ToSet
<1>6. ToSet(c) = ToSet(a) \cup ToSet(b)
  <2>1. ToSet(c) \subseteq ToSet(a) \cup ToSet(b)
    BY <1>3 DEF ToSet
  <2>2. ToSet(a) \subseteq ToSet(c)
    BY <1>4 DEF ToSet
  <2>3. ToSet(b) \subseteq ToSet(c)
    BY <1>5 DEF ToSet
  <2> QED
    BY <2>1, <2>2, <2>3
<1> QED
  BY <1>6 DEF c

(* A part of a numbered sequence has the bytes between its ends.            *)
LEMMA PartNumbered ==
  ASSUME NEW unit \in Seq(Byte), NEW k \in Nat, Numbered(unit, k),
         NEW lo \in 1..(Len(unit) + 1), NEW hi \in 0..Len(unit)
  PROVE  LET part == SubSeq(unit, lo, hi)
         IN /\ part \in Seq(Byte) /\ ToSet(part) \subseteq ToSet(unit)
            /\ \A b \in ToSet(part) : k + lo <= b /\ b <= k + hi
<1> DEFINE part == SubSeq(unit, lo, hi)
           n == IF lo <= hi THEN hi - lo + 1 ELSE 0
<1>1. /\ Len(unit) \in Nat /\ DOMAIN unit = 1..Len(unit)
      /\ \A i \in 1..Len(unit) : unit[i] = k + i /\ unit[i] \in Byte
  BY LenProperties DEF Numbered
<1>2. /\ part \in Seq(Byte) /\ Len(part) = n
      /\ \A i \in 1..n : part[i] = unit[lo + i - 1]
  <2>1. \A i \in lo..hi : unit[i] \in Byte
    BY <1>1
  <2> QED
    BY <1>1, <2>1, SubSeqProperties
<1>3. \A i \in 1..n : /\ lo + i - 1 \in DOMAIN unit
                      /\ lo <= lo + i - 1 /\ lo + i - 1 <= hi
  BY <1>1
<1>4. DOMAIN part = 1..n
  BY <1>2
<1> HIDE DEF part, n
<1>5. ASSUME NEW b \in ToSet(part)
      PROVE  b \in ToSet(unit) /\ k + lo <= b /\ b <= k + hi
  <2>1. PICK i \in 1..n : b = part[i]
    BY <1>4 DEF ToSet
  <2> DEFINE j == lo + i - 1
  <2>2. j \in DOMAIN unit /\ lo <= j /\ j <= hi /\ b = unit[j]
    BY <1>2, <1>3, <2>1
  <2> HIDE DEF j
  <2>3. b = k + j /\ j \in Nat
    BY <1>1, <2>2
  <2> QED
    BY <1>1, <2>2, <2>3 DEF ToSet
<1> QED
  BY <1>2, <1>5 DEF part

(* What a rule leaves of a unit: bytes of the unit and what replaces the    *)
(* marker, and the marker only if the unit, being text, did not hold it      *)
(* whole.                                                                    *)
LEMMA FilteredUnit ==
  ASSUME Inv, NEW k \in Nat, NEW unit \in Seq(Byte), Numbered(unit, k)
  PROVE  /\ Filtered(unit) \in Seq(Item)
         /\ ToSet(Filtered(unit)) \subseteq ToSet(unit) \cup {Blocked, Redacted}
         /\ \A b \in ToSet(Filtered(unit)) : b <= k + Len(unit)
         /\ MarkerIn(unit) /\ Text(unit) =>
              body.marker + 1 \notin ToSet(Filtered(unit))
<1> DEFINE F == Filtered(unit)
           m == body.marker
<1>1. /\ Len(unit) \in Nat /\ DOMAIN unit = 1..Len(unit)
      /\ \A i \in 1..Len(unit) : unit[i] = k + i /\ unit[i] \in Byte
  BY LenProperties DEF Numbered
<1>2. m \in Nat \ {0}
  BY Sizes DEF Inv, Shape, BodyType, Position
<1>3. /\ Blocked = -1 /\ Redacted = 0 /\ Byte \subseteq Item
      /\ Blocked \in Item /\ Redacted \in Item
  BY DEF Blocked, Redacted, Item
<1>4. \A b \in ToSet(unit) \cup {Blocked, Redacted} : b <= k + Len(unit)
  BY <1>1, <1>3 DEF ToSet
<1>5. CASE ~MarkerIn(unit) \/ ~Text(unit)
  <2>1. F = unit
    BY <1>5 DEF Filtered
  <2>2. unit \in Seq(Item)
    BY <1>3, SeqMonotonic
  <2> QED
    BY <1>4, <1>5, <2>1, <2>2
<1>6. CASE MarkerIn(unit) /\ Text(unit) /\ body.rule = "reject"
  <2>1. F = <<Blocked>>
    BY <1>6 DEF Filtered
  <2>2. F \in Seq(Item) /\ ToSet(F) = {Blocked}
    BY <1>3, <2>1 DEF ToSet
  <2>3. m + 1 # Blocked
    BY <1>2, <1>3
  <2> QED
    BY <1>4, <2>2, <2>3
<1>7. CASE MarkerIn(unit) /\ Text(unit) /\ body.rule # "reject"
  <2> DEFINE at == CHOOSE i \in DOMAIN unit : unit[i] = m
             a == SubSeq(unit, 1, at - 1)
             b == SubSeq(unit, at + 2, Len(unit))
  <2>1. F = a \o <<Redacted>> \o b
    BY <1>7 DEF Filtered
  <2>2. at \in DOMAIN unit /\ unit[at] = m
    <3>1. \E i \in DOMAIN unit : unit[i] = m
      BY <1>7 DEF MarkerIn, ToSet
    <3> QED
      BY <3>1
  <2>3. \E i \in DOMAIN unit : unit[i] = m + 1
    BY <1>7 DEF MarkerIn, ToSet
  <2> HIDE DEF at
  <2>4. at \in 1..Len(unit) /\ k + at = m /\ at + 1 <= Len(unit)
    BY <1>1, <1>2, <2>2, <2>3
  <2>5. /\ a \in Seq(Byte) /\ ToSet(a) \subseteq ToSet(unit)
        /\ \A c \in ToSet(a) : c < m
    <3>1. 1 \in 1..(Len(unit) + 1) /\ at - 1 \in 0..Len(unit)
      BY <1>1, <2>4
    <3>2. /\ a \in Seq(Byte) /\ ToSet(a) \subseteq ToSet(unit)
          /\ \A c \in ToSet(a) : k + 1 <= c /\ c <= k + (at - 1)
      BY <3>1, PartNumbered
    <3>3. \A c \in ToSet(unit) : c \in Nat
      BY <1>1 DEF ToSet, Byte
    <3> QED
      BY <1>1, <2>4, <3>2, <3>3
  <2>6. /\ b \in Seq(Byte) /\ ToSet(b) \subseteq ToSet(unit)
        /\ \A c \in ToSet(b) : c > m + 1
    <3>1. at + 2 \in 1..(Len(unit) + 1) /\ Len(unit) \in 0..Len(unit)
      BY <1>1, <2>4
    <3>2. /\ b \in Seq(Byte) /\ ToSet(b) \subseteq ToSet(unit)
          /\ \A c \in ToSet(b) : k + (at + 2) <= c /\ c <= k + Len(unit)
      BY <3>1, PartNumbered
    <3>3. \A c \in ToSet(unit) : c \in Nat
      BY <1>1 DEF ToSet, Byte
    <3> QED
      BY <1>1, <2>4, <3>2, <3>3
  <2> DEFINE r == <<Redacted>>
  <2>7. r \in Seq(Item) /\ ToSet(r) = {Redacted}
    BY <1>3 DEF ToSet
  <2> HIDE DEF a, b, r
  <2>8. a \in Seq(Item) /\ b \in Seq(Item)
    BY <1>3, <2>5, <2>6, SeqMonotonic
  <2>9. a \o r \in Seq(Item) /\ ToSet(a \o r) = ToSet(a) \cup {Redacted}
    BY <2>7, <2>8, ConcatToSet, ConcatElements
  <2>10. F \in Seq(Item) /\ ToSet(F) = ToSet(a) \cup {Redacted} \cup ToSet(b)
    <3> DEFINE c == a \o r
    <3>1. F = c \o b
      BY <2>1 DEF r
    <3>2. c \in Seq(Item) /\ ToSet(c) = ToSet(a) \cup {Redacted}
      BY <2>9
    <3> HIDE DEF F, c
    <3>3. c \o b \in Seq(Item) /\ ToSet(c \o b) = ToSet(c) \cup ToSet(b)
      BY <2>8, <3>2, ConcatToSet, ConcatElements
    <3> QED
      BY <3>1, <3>2, <3>3
  <2>11. m + 1 # Redacted
    BY <1>2, <1>3
  <2> HIDE DEF F, m
  <2>12. ToSet(F) \subseteq ToSet(unit) \cup {Blocked, Redacted} /\ m + 1 \notin ToSet(F)
    BY <1>2, <2>5, <2>6, <2>10, <2>11
  <2> QED
    BY <1>4, <2>10, <2>12 DEF F, m
<1> QED
  BY <1>5, <1>6, <1>7

(* The bytes the filter holds are some of those sent.                       *)
LEMMA HeldNumbered ==
  ASSUME Inv, Screen
  PROVE  /\ Through \in Nat /\ Len(held) \in Nat /\ sent \in Nat
         /\ Through + Len(held) <= sent
         /\ prefix = <<>> /\ overflow = <<>> => Through + Len(held) = sent
         /\ \A i \in 1..Len(held) : held[i] = Through + i
         /\ body.blanks \subseteq Nat
         /\ body.marker \in Nat /\ body.wide \in Nat
<1>1. /\ held \in Seq(Byte) /\ sent \in Nat /\ prefix \in Seq(Byte)
      /\ overflow \in Seq(Byte) /\ Through \in Nat /\ Numbered(held, Through)
      /\ body.blanks \subseteq Nat /\ body.marker \in Nat /\ body.wide \in Nat
  BY Sizes DEF Inv, Shape, BodyType, Position, Screen, Consecutive
<1>2. /\ Len(held) \in Nat /\ Len(prefix) \in Nat /\ Len(overflow) \in Nat
      /\ prefix = <<>> => Len(prefix) = 0
      /\ overflow = <<>> => Len(overflow) = 0
  BY <1>1
<1>3. Through + Len(held) = sent - Len(overflow) - Len(prefix)
  BY <1>1, <1>2 DEF Through
<1>4. \A i \in 1..Len(held) : held[i] = Through + i
  BY <1>1 DEF Numbered
<1> QED
  BY <1>1, <1>2, <1>3, <1>4

(* The blank lines in what is held are the ends of its events.              *)
LEMMA BlankHeld ==
  ASSUME Inv, Screen, NEW e \in body.blanks, Through + 2 <= e,
         e <= Through + Len(held)
  PROVE  e - Through \in EventEnds
<1> DEFINE k == Through
           i == e - k
<1>1. k \in Nat /\ Len(held) \in Nat /\ e \in Nat
  BY HeldNumbered
<1>2. /\ i \in 2..Len(held) /\ i - 1 \in 1..Len(held) /\ i \in 1..Len(held)
      /\ k + i = e /\ k + (i - 1) = e - 1
  <2> HIDE DEF k
  <2> QED
    BY <1>1 DEF k
<1> HIDE DEF i
<1>3. held[i] = e /\ held[i - 1] = e - 1
  BY <1>2, HeldNumbered
<1> QED
  BY <1>2, <1>3 DEF EventEnds, i

(* A unit has no blank line before its end, and ends with one, or where the *)
(* window was full, or with the stream.                                     *)
LEMMA UnitKinds ==
  ASSUME Inv, Screen, UnitDue, held # <<>>
  PROVE  LET k == Through
             u == UnitLength
             NoBlank(n) == \A e \in body.blanks : ~(k + 2 <= e /\ e <= k + n)
         IN /\ u \in 1..Len(held)
            /\ \/ k + u \in body.blanks
                    /\ \A e \in body.blanks : ~(k + 2 <= e /\ e < k + u)
               \/ NoBlank(Len(held)) /\ Len(held) > MaxPending
                    /\ u = Len(held) - Overlap
               \/ NoBlank(Len(held)) /\ u = Len(held) /\ finished
<1> DEFINE k == Through
           u == UnitLength
           NoBlank(n) == \A e \in body.blanks : ~(k + 2 <= e /\ e <= k + n)
<1>1. /\ k \in Nat /\ Len(held) \in Nat /\ body.blanks \subseteq Nat
      /\ \A i \in 1..Len(held) : held[i] = k + i
  BY HeldNumbered
<1>2. Len(held) # 0
  BY DEF Inv, Shape
<1>3. CASE EventEnds # {}
  <2>1. EventEnds \subseteq Nat
    BY <1>1 DEF EventEnds
  <2>2. u \in EventEnds /\ \A j \in EventEnds : u <= j
    <3>1. PICK i \in EventEnds : \A j \in EventEnds : ~(<<j, i>> \in OpToRel(<, Nat))
      BY <1>3, <2>1, NatLessThanWellFounded, WFMin
    <3>2. \A j \in EventEnds : i <= j
      <4> TAKE j \in EventEnds
      <4>1. i \in Nat /\ j \in Nat /\ ~(j < i)
        BY <2>1, <3>1 DEF OpToRel
      <4> QED
        BY <4>1
    <3>3. UnitLength = CHOOSE e \in EventEnds : \A j \in EventEnds : e <= j
      BY <1>3 DEF UnitLength
    <3> QED
      BY <3>2, <3>3
  <2>3. u \in 1..Len(held) /\ held[u] \in body.blanks
    BY <1>1, <2>2 DEF EventEnds
  <2>4. k + u \in body.blanks
    BY <1>1, <2>3
  <2>5. ASSUME NEW e \in body.blanks, k + 2 <= e, e < k + u
        PROVE  FALSE
    <3>1. e \in Nat /\ u \in Nat /\ u <= Len(held)
      BY <1>1, <2>3
    <3>2. e <= k + Len(held)
      <4> HIDE DEF k, u
      <4> QED
        BY <1>1, <2>5, <3>1
    <3>3. e - k \in EventEnds
      BY <2>5, <3>2, BlankHeld
    <3>4. u <= e - k
      BY <2>2, <3>3
    <3> HIDE DEF k, u
    <3> QED
      BY <1>1, <2>5, <3>1, <3>4
  <2> QED
    BY <2>3, <2>4, <2>5
<1>4. CASE EventEnds = {}
  <2>1. NoBlank(Len(held))
    BY <1>4, BlankHeld
  <2>2. CASE Len(held) > MaxPending
    <3>1. u = Len(held) - Overlap
      BY <1>4, <2>2 DEF UnitLength
    <3>2. u \in 1..Len(held)
      BY <1>1, <2>2, <3>1, BoundsAssumption
    <3> QED
      BY <2>1, <2>2, <3>1, <3>2
  <2>3. CASE ~(Len(held) > MaxPending)
    <3>1. u = Len(held) /\ finished
      BY <1>4, <2>3 DEF UnitLength, UnitDue
    <3>2. u \in 1..Len(held)
      BY <1>1, <1>2, <3>1
    <3> QED
      BY <2>1, <3>1, <3>2
  <2> QED
    BY <2>2, <2>3
<1> QED
  BY <1>3, <1>4

(* A byte of a unit that a full window released is in a stretch that fills it.*)
LEMMA WindowFills ==
  ASSUME Inv, Screen, Len(held) > MaxPending,
         \A e \in body.blanks : ~(Through + 2 <= e /\ e <= Through + Len(held)),
         NEW p \in Nat, Through < p, p < Through + Len(held)
  PROVE  Fills(p)
<1> DEFINE k == Through
           n == Len(held)
<1>1. /\ k \in Nat /\ n \in Nat /\ sent \in Nat /\ k + n <= sent
      /\ body.blanks \subseteq Nat /\ MaxPending \in Nat
  BY HeldNumbered, BoundsAssumption
<1>2. n > MaxPending /\ k < p /\ p < k + n
      /\ \A e \in body.blanks : ~(k + 2 <= e /\ e <= k + n)
  OBVIOUS
<1> HIDE DEF k, n
<1>3. p < sent
  BY <1>1, <1>2
<1>4. ASSUME NEW from \in {0} \cup body.blanks, NEW to \in body.blanks \cup {sent},
             from <= p, p < to
      PROVE  to - from >= MaxPending
  <2>1. from \in Nat /\ to \in Nat
    BY <1>1
  <2>2. from <= k + 1
    BY <1>1, <1>2, <1>4, <2>1
  <2>3. to >= k + n
    BY <1>1, <1>2, <1>4, <2>1
  <2> QED
    BY <1>1, <1>2, <2>1, <2>2, <2>3
<1> QED
  BY <1>3, <1>4 DEF Fills

(* A unit ends inside the match where a blank line is in the match, where   *)
(* the window was full, or with the stream.                                 *)
LEMMA UnitBoundary ==
  ASSUME Inv, Screen, UnitDue, held # <<>>,
         Through + UnitLength = body.marker
  PROVE  Excused \/ (finished /\ UnitLength = Len(held))
<1> DEFINE k == Through
           u == UnitLength
           n == Len(held)
           m == body.marker
<1>1. /\ k \in Nat /\ n \in Nat /\ m \in Nat /\ u \in 1..n /\ k + u = m
      /\ body.blanks \subseteq Nat /\ MaxPending \in Nat
      /\ Overlap \in Nat \ {0}
  BY UnitKinds, HeldNumbered, BoundsAssumption
<1>2. CASE m \in body.blanks
  BY <1>2 DEF Excused
<1>3. CASE /\ \A e \in body.blanks : ~(k + 2 <= e /\ e <= k + n)
           /\ n > MaxPending /\ u = n - Overlap
  <2>1. k < m /\ m < k + n
    <3> HIDE DEF k, u, n, m
    <3> QED
      BY <1>1, <1>3
  <2>2. Fills(m)
    BY <1>1, <1>3, <2>1, WindowFills
  <2>3. ASSUME NEW from \in {0} \cup body.blanks, from <= m
        PROVE  m + 1 > from + MaxPending - Overlap
    <3> HIDE DEF k, u, n, m
    <3>1. from <= k + 1
      BY <1>1, <1>3, <2>1, <2>3
    <3> QED
      BY <1>1, <1>3, <3>1
  <2>4. BehindWindow
    BY <2>3 DEF BehindWindow
  <2> QED
    BY <2>2, <2>4 DEF Excused
<1>4. CASE u = n /\ finished
  BY <1>4
<1> QED
  BY <1>1, <1>2, <1>3, <1>4, UnitKinds

(* A unit ends inside the character where the window was full, or with the  *)
(* stream: no blank line does.                                              *)
LEMMA CharacterBoundary ==
  ASSUME Inv, Screen, UnitDue, held # <<>>,
         Through + UnitLength = body.wide
  PROVE  Fills(body.wide) \/ (finished /\ UnitLength = Len(held))
<1> DEFINE k == Through
           u == UnitLength
           n == Len(held)
           w == body.wide
<1>1. /\ k \in Nat /\ n \in Nat /\ w \in Nat /\ u \in 1..n /\ k + u = w
      /\ Overlap \in Nat \ {0}
  BY UnitKinds, HeldNumbered, BoundsAssumption
<1>2. w \notin body.blanks
  BY BodiesAssumption DEF Screen, Counted
<1>3. CASE /\ \A e \in body.blanks : ~(k + 2 <= e /\ e <= k + n)
           /\ n > MaxPending /\ u = n - Overlap
  <2>1. k < w /\ w < k + n
    <3> HIDE DEF k, u, n, w
    <3> QED
      BY <1>1, <1>3
  <2> QED
    BY <1>1, <1>3, <2>1, WindowFills
<1>4. CASE u = n /\ finished
  BY <1>4
<1> QED
  BY <1>1, <1>2, <1>3, <1>4, UnitKinds

(* A unit that holds the match whole and is no text was cut inside the      *)
(* character, at its end now or at its beginning before.                    *)
LEMMA CharacterCut ==
  ASSUME Inv, Screen, Filtering, UnitDue, held # <<>>,
         Through < body.marker, body.marker + 1 <= Through + UnitLength,
         \/ Through + UnitLength = body.wide
         \/ Through = body.wide
  PROVE  Excused
<1> DEFINE k == Through
           u == UnitLength
           n == Len(held)
           m == body.marker
           w == body.wide
<1>1. /\ k \in Nat /\ n \in Nat /\ m \in Nat /\ w \in Nat /\ u \in 1..n
      /\ k < m /\ m + 1 <= k + u /\ k + n <= sent /\ sent \in Nat
      /\ body.blanks \subseteq Nat
      /\ Overlap \in Nat \ {0}
      /\ prefix = <<>> /\ overflow = <<>> => k + n = sent
  BY UnitKinds, HeldNumbered, BoundsAssumption
<1>2. \A e \in body.blanks : w \notin {e - 2, e - 1, e}
  BY BodiesAssumption DEF Screen, Counted
<1>3. \A e \in body.blanks : ~(k + 2 <= e /\ e < k + u)
  <2> HIDE DEF k, u, n
  <2>1. ASSUME NEW e \in body.blanks, k + 2 <= e, e < k + u
        PROVE  e <= k + n
    BY <1>1, <2>1
  <2> QED
    BY <2>1, UnitKinds DEF k, u, n
<1>4. CASE k = w
  <2>1. Fills(w)
    BY <1>4 DEF Screen, Screened
  <2>2. \A e \in body.blanks : e <= w <=> e <= m
    <3> SUFFICES ASSUME NEW e \in body.blanks
                 PROVE  e <= w <=> e <= m
      OBVIOUS
    <3>1. e \in Nat /\ w # e - 2 /\ w # e - 1 /\ ~(k + 2 <= e /\ e < k + u)
      BY <1>1, <1>2, <1>3
    <3> HIDE DEF k, u, n, m, w
    <3> QED
      BY <1>1, <1>4, <3>1
  <2>3. m < sent /\ w < m
    <3> HIDE DEF k, u, n, m, w
    <3> QED
      BY <1>1, <1>4
  <2>4. ASSUME NEW from \in {0} \cup body.blanks, NEW to \in body.blanks \cup {sent},
               from <= m, m < to
        PROVE  to - from >= MaxPending
    <3>1. from <= w
      <4> HIDE DEF w, m
      <4> QED
        BY <1>1, <2>2, <2>4
    <3>2. w < to
      <4>1. to \in Nat
        BY <1>1
      <4> HIDE DEF w, m
      <4> QED
        BY <1>1, <2>3, <2>4, <4>1
    <3> QED
      BY <2>1, <3>1, <3>2 DEF Fills
  <2>5. Fills(m)
    BY <2>3, <2>4 DEF Fills
  <2> QED
    BY <2>2, <2>5 DEF Excused, WithCharacter
<1>5. CASE k + u = w
  <2>1. k + u \notin body.blanks
    BY <1>2, <1>5
  <2>2. \A e \in body.blanks : ~(k + 2 <= e /\ e <= k + n)
    BY <2>1, UnitKinds
  <2>3. WithCharacter
    <3> SUFFICES ASSUME NEW e \in body.blanks
                 PROVE  e <= w <=> e <= m
      BY DEF WithCharacter
    <3>1. e \in Nat /\ ~(k + 2 <= e /\ e <= k + n)
      BY <1>1, <2>2
    <3> HIDE DEF k, u, n, m, w
    <3> QED
      BY <1>1, <1>5, <3>1
  <2>4. CASE n > MaxPending
    <3>1. m < k + n
      <4> HIDE DEF k, u, n, m
      <4> QED
        BY <1>1
    <3>2. Fills(m)
      BY <1>1, <2>2, <2>4, <3>1, WindowFills
    <3> QED
      BY <2>3, <3>2 DEF Excused
  <2>5. CASE u = n /\ finished
    <3>1. prefix = <<>> /\ overflow = <<>>
      BY <2>5 DEF Screen, Screened
    <3>2. sent = w
      <4> HIDE DEF k, u, n, w
      <4> QED
        BY <1>1, <1>5, <2>5, <3>1
    <3> QED
      BY <2>3, <2>5, <3>2 DEF Excused
  <2> QED
    BY <2>1, <2>4, <2>5, UnitKinds
<1> QED
  BY <1>4, <1>5

(* A unit that is released takes no marker past the filter.                 *)
LEMMA ReleaseScreen ==
  ASSUME Inv, Screen, Release
  PROVE  Screen'
<1> DEFINE u == UnitLength
           k == Through
           m == body.marker
           unit == SubSeq(held, 1, u)
           rest == SubSeq(held, u + 1, Len(held))
           out == Filtered(unit)
<1>1. /\ phase = "streaming" /\ Filtering /\ UnitDue /\ held # <<>>
      /\ delivered' = delivered \o out /\ held' = rest
      /\ UNCHANGED <<body, phase, sent, prefix, overflow, pulled, finished,
                     observed>>
      /\ UNCHANGED guardVars
  BY DEF Release
<1>2. /\ held \in Seq(Byte) /\ prefix \in Seq(Byte) /\ overflow \in Seq(Byte)
      /\ sent \in Nat /\ m \in Nat \ {0}
  BY Sizes DEF Inv, Shape, BodyType, Position
<1>3. /\ Len(held) \in Nat /\ Len(prefix) \in Nat /\ Len(overflow) \in Nat
      /\ k \in Nat /\ Numbered(held, k)
      /\ Numbered(prefix, k + Len(held))
      /\ Numbered(overflow, k + Len(held) + Len(prefix))
  BY <1>2 DEF Screen, Consecutive
<1>4. u \in 0..Len(held)
  BY <1>1, UnitWithin
<1>5. /\ unit \in Seq(Byte) /\ Len(unit) = u /\ \A i \in 1..u : unit[i] = k + i
  <2>1. \A i \in 1..u : held[i] \in Byte /\ held[i] = k + i
    BY <1>2, <1>3, <1>4 DEF Numbered
  <2>2. /\ unit \in Seq(Byte) /\ Len(unit) = IF 1 <= u THEN u - 1 + 1 ELSE 0
        /\ \A i \in 1..(u - 1 + 1) : unit[i] = held[1 + i - 1]
    BY <1>4, <2>1, SubSeqProperties
  <2> HIDE DEF u, k, unit
  <2>3. u \in Nat
    BY <1>3, <1>4
  <2>4. u - 1 + 1 = u /\ \A i \in 1..u : 1 + i - 1 = i
    BY <2>3
  <2> QED
    BY <2>1, <2>2, <2>3, <2>4
<1>6. /\ rest \in Seq(Byte) /\ Len(rest) = Len(held) - u
      /\ \A i \in 1..(Len(held) - u) : rest[i] = k + u + i
  <2>1. /\ rest \in Seq(Byte) /\ Len(rest) = Len(held) - u
        /\ \A i \in 1..(Len(held) - u) : rest[i] = held[u + i]
    <3> HIDE DEF u, k
    <3> QED
      BY <1>2, <1>3, <1>4
  <2>2. \A i \in 1..Len(held) : held[i] = k + i
    BY <1>2 DEF Screen, Consecutive, Numbered
  <2> HIDE DEF u, k, rest
  <2> QED
    BY <1>3, <1>4, <2>1, <2>2
<1>7. Through' = k + u
  <2>1. Through' = sent - Len(overflow) - Len(prefix) - Len(rest)
    BY <1>1 DEF Through
  <2> HIDE DEF u, rest
  <2> QED
    BY <1>2, <1>3, <1>4, <1>6, <2>1 DEF Through
<1>8. Numbered(unit, k) /\ Numbered(rest, k + u)
  <2> HIDE DEF unit, rest, k, u
  <2>1. u \in Nat /\ Len(held) \in Nat /\ u <= Len(held)
    BY <1>3, <1>4
  <2>2. DOMAIN unit = 1..u /\ DOMAIN rest = 1..(Len(held) - u)
    BY <1>5, <1>6, <2>1
  <2> QED
    BY <1>5, <1>6, <2>2 DEF Numbered
<1>9. /\ out \in Seq(Item)
      /\ ToSet(out) \subseteq ToSet(unit) \cup {Blocked, Redacted}
      /\ \A b \in ToSet(out) : b <= k + u
      /\ MarkerIn(unit) /\ Text(unit) => m + 1 \notin ToSet(out)
  <2>1. k \in Nat
    BY <1>3
  <2> HIDE DEF k
  <2> QED
    BY <1>5, <1>8, <2>1, FilteredUnit
<1>10. \A b \in ToSet(unit) : k < b /\ b <= k + u
  <2> HIDE DEF u, k, unit
  <2> QED
    BY <1>3, <1>5 DEF ToSet
<1>11. m \notin {Blocked, Redacted} /\ m + 1 \notin {Blocked, Redacted}
  <2> HIDE DEF m
  <2> QED
    BY <1>2 DEF Blocked, Redacted
<1>12. Consecutive'
  <2>1. k + u + Len(rest) = k + Len(held)
    <3> HIDE DEF u, k, rest
    <3> QED
      BY <1>3, <1>4, <1>6
  <2>2. /\ Numbered(prefix, k + u + Len(rest))
        /\ Numbered(overflow, k + u + Len(rest) + Len(prefix))
    BY <1>3, <2>1
  <2>3. k + u \in Nat
    BY <1>3, <1>4
  <2> HIDE DEF u, k, rest
  <2> QED
    BY <1>1, <1>7, <1>8, <2>2, <2>3 DEF Consecutive, Numbered
<1>13. delivered \in Seq(Item) /\ delivered' \in Seq(Item)
       /\ ToSet(delivered') = ToSet(delivered) \cup ToSet(out)
  <2>1. delivered \in Seq(Item)
    BY DEF Screen, Counted
  <2> HIDE DEF out
  <2> QED
    BY <1>1, <1>9, <2>1, ConcatElements, ConcatToSet
<1>14. Counted'
  BY <1>1, <1>13 DEF Screen, Counted, guardVars
<1>15. /\ \A b \in ToSet(delivered) : b <= k
       /\ MarkerIn(delivered) => Excused
       /\ m \in ToSet(delivered) /\ k = m => Excused
       /\ finished => prefix = <<>> /\ overflow = <<>>
  BY <1>1 DEF Screen, Screened
<1>16. Excused' = Excused /\ Filtering' /\ Fills(body.wide)' = Fills(body.wide)
  BY <1>1 DEF Excused, Filtering, Fills, BehindWindow, WithCharacter
<1>17. \A b \in ToSet(delivered) \cup ToSet(out) : b <= k + u
  <2>1. \A b \in Item : b \in Int
    BY DEF Item, Byte, Blocked, Redacted
  <2>2. \A b \in ToSet(delivered) : b \in Int
    BY <1>13, <2>1 DEF ToSet
  <2> HIDE DEF u, k, out
  <2> QED
    BY <1>3, <1>4, <1>9, <1>15, <2>2
<1>18. MarkerIn(delivered') => Excused
  <2> SUFFICES ASSUME m \in ToSet(delivered'), m + 1 \in ToSet(delivered')
               PROVE  Excused
    BY <1>1 DEF MarkerIn
  <2>1. CASE m \in ToSet(delivered) /\ m + 1 \in ToSet(delivered)
    BY <1>15, <2>1 DEF MarkerIn
  <2>2. CASE m \in ToSet(delivered) /\ m + 1 \in ToSet(out)
    <3>1. m <= k /\ k < m + 1
      BY <1>9, <1>10, <1>11, <1>15, <2>2
    <3>2. k = m
      <4> HIDE DEF k, m
      <4> QED
        BY <1>2, <1>3, <3>1
    <3> QED
      BY <1>15, <2>2, <3>2
  <2>3. CASE m \in ToSet(out) /\ m + 1 \in ToSet(delivered)
    <3>1. k < m /\ m + 1 <= k
      BY <1>9, <1>10, <1>11, <1>15, <2>3
    <3>2. FALSE
      <4> HIDE DEF k, m
      <4> QED
        BY <1>2, <1>3, <3>1
    <3> QED
      BY <3>2
  <2>4. CASE m \in ToSet(out) /\ m + 1 \in ToSet(out)
    <3>1. m \in ToSet(unit) /\ m + 1 \in ToSet(unit)
      BY <1>9, <1>11, <2>4
    <3>2. MarkerIn(unit)
      BY <3>1 DEF MarkerIn
    <3>3. ~Text(unit)
      BY <1>9, <2>4, <3>2
    <3>4. k < m /\ m + 1 <= k + u
      BY <1>10, <3>1
    <3>5. k + u = body.wide \/ k = body.wide
      <4> DEFINE w == body.wide
      <4>1. w \in Nat \ {0}
        BY Sizes DEF Inv, Shape, BodyType, Position
      <4>2. \A b \in Nat : k < b /\ b <= k + u => b \in ToSet(unit)
        <5> SUFFICES ASSUME NEW b \in Nat, k < b, b <= k + u
                     PROVE  b \in ToSet(unit)
          OBVIOUS
        <5> DEFINE i == b - k
        <5> HIDE DEF k, u, unit
        <5>1. i \in 1..u /\ k + i = b
          BY <1>3, <1>4
        <5>2. DOMAIN unit = 1..u
          BY <1>3, <1>4, <1>5
        <5> HIDE DEF i
        <5> QED
          BY <1>5, <5>1, <5>2 DEF ToSet
      <4>3. (w \in ToSet(unit) /\ w + 1 \notin ToSet(unit))
              \/ (w \notin ToSet(unit) /\ w + 1 \in ToSet(unit))
        BY <3>3 DEF Text
      <4> HIDE DEF k, u, unit, w
      <4>4. k + u = w \/ k = w
        BY <1>3, <1>4, <1>10, <4>1, <4>2, <4>3
      <4> QED
        BY <4>4 DEF w
    <3> QED
      BY <1>1, <3>4, <3>5, CharacterCut
  <2> QED
    BY <1>13, <2>1, <2>2, <2>3, <2>4
<1>19. u = Len(held) => held' = <<>>
  <2> HIDE DEF u, rest
  <2>1. u = Len(held) => Len(rest) = 0
    BY <1>3, <1>6
  <2> QED
    BY <1>1, <1>6, <2>1
<1>20. Through' = body.wide => Fills(body.wide) \/ (finished /\ held' = <<>>)
  BY <1>1, <1>7, <1>19, CharacterBoundary
<1>21. m \in ToSet(delivered') /\ Through' = m =>
         Excused \/ (finished /\ held' = <<>>)
  <2> SUFFICES ASSUME m \in ToSet(delivered'), k + u = m
               PROVE  Excused \/ (finished /\ held' = <<>>)
    BY <1>7
  <2>1. CASE m \in ToSet(delivered)
    <3>1. m <= k
      BY <1>15, <2>1
    <3>2. k = m
      <4> HIDE DEF k, m, u
      <4> QED
        BY <1>2, <1>3, <1>4, <3>1
    <3> QED
      BY <1>15, <2>1, <3>2
  <2>2. CASE m \in ToSet(out)
    <3>1. m \in ToSet(unit)
      BY <1>9, <1>11, <2>2
    <3>2. k < m
      BY <1>10, <3>1
    <3>3. Excused \/ (finished /\ u = Len(held))
      BY <1>1, UnitBoundary
    <3> QED
      BY <1>19, <3>3
  <2> QED
    BY <1>13, <2>1, <2>2
<1>22. Screened'
  <2>1. \A b \in ToSet(delivered') : b <= Through'
    BY <1>7, <1>13, <1>17
  <2>2. MarkerIn(delivered)' = MarkerIn(delivered')
    BY <1>1 DEF MarkerIn
  <2> QED
    BY <1>1, <1>15, <1>16, <1>18, <1>21, <1>20, <2>1, <2>2 DEF Screened
<1> QED
  BY <1>12, <1>14, <1>22 DEF Screen

(* The filter has nothing left.                                             *)
LEMMA FilterEndsScreen ==
  ASSUME Inv, Screen, FilterEnds
  PROVE  Screen'
<1>1. /\ phase = "streaming" /\ phase' = "done"
      /\ UNCHANGED <<body, sent, upstream, prefix, overflow>>
      /\ UNCHANGED <<guardVars, clientVars>>
  BY DEF FilterEnds
<1>2. Counted'
  BY <1>1 DEF Screen, Counted, guardVars, clientVars
<1>3. Consecutive' /\ Screened'
  BY <1>1, QuietScreened DEF clientVars
<1> QED
  BY <1>2, <1>3 DEF Screen

(* Every step keeps what is known of the filter.                            *)
LEMMA NextScreen ==
  ASSUME Inv, Screen, [Next]_vars
  PROVE  Screen'
<1>1. CASE Begin
  BY <1>1, BeginScreen
<1>2. CASE Deadline \/ PeekError \/ PeekEof
  BY <1>2, GuardEndsScreen
<1>3. ASSUME NEW n \in 1..MaxBody, Peek(n)
      PROVE  Screen'
  BY <1>3, PeekScreen
<1>4. CASE PullPrefix \/ PullOverflow \/ \E n \in 1..MaxBody : PullChunk(n)
  BY <1>4, PullScreen
<1>5. CASE PullError \/ PullEof
  BY <1>5, StreamEndsScreen
<1>6. CASE Release
  BY <1>6, ReleaseScreen
<1>7. CASE FilterEnds
  BY <1>7, FilterEndsScreen
<1>8. CASE UNCHANGED vars
  <2>1. UNCHANGED <<body, phase, sent, prefix, overflow, initial, pulled, held,
                    finished, delivered, observed>>
    BY <1>8 DEF vars
  <2>2. Counted'
    BY <2>1 DEF Screen, Counted
  <2>3. Consecutive' /\ Screened'
    BY <2>1, QuietScreened
  <2> QED
    BY <2>2, <2>3 DEF Screen
<1> QED
  BY <1>1, <1>2, <1>3, <1>4, <1>5, <1>6, <1>7, <1>8 DEF Next, Ended

(* The filter's window holds in every reachable state.                      *)
LEMMA SpecScreen == Spec => [](Inv /\ Screen)
<1>1. Init => Inv /\ Screen
  BY InitInv, InitScreen
<1>2. (Inv /\ Screen) /\ [Next]_vars => (Inv /\ Screen)'
  BY NextInv, NextScreen
<1> QED
  BY <1>1, <1>2, PTL DEF Spec

(* The peeked prefix never exceeds the cap, the counters never what was     *)
(* sent, and a stream is reported as failed once at most.                   *)
THEOREM GuardTypes == Spec => []TypeOK
<1>1. ASSUME Inv, Screen
      PROVE  TypeOK
  <2>1. /\ body \in Bodies /\ phase \in Phase /\ outcome \in Outcome
        /\ sent \in 0..MaxBody /\ upstream \in {"open", "ended", "broken"}
        /\ Len(prefix) <= MaxBytes /\ finished \in BOOLEAN
        /\ initial \in 0..MaxBytes
    BY <1>1, Sizes DEF Inv, Shape, Screen, Counted
  <2>2. observed \in 0..1
    BY <1>1 DEF Screen, Counted
  <2>3. pulled \in 0..MaxBody
    <3>1. pulled \in Nat /\ initial \in Nat /\ sent \in 0..MaxBody
          /\ Len(overflow) \in Nat
      BY <1>1 DEF Inv, Shape
    <3>2. pulled = 0 \/ initial + pulled + Len(overflow) = sent
      <4>1. phase \in Phase
        BY <2>1
      <4> QED
        BY <1>1, <4>1 DEF Phase, Inv, Accounted, Screen, Counted, Guarded, Passed
    <3> QED
      BY <3>1, <3>2, Sizes
  <2>4. \A bytes \in {prefix, overflow, held} : ToSet(bytes) \subseteq 1..MaxBody
    <3>1. \A bytes \in {prefix, overflow, held} : bytes \in Seq(Byte)
      BY <1>1 DEF Inv, Shape
    <3>2. \A bytes \in Seq(Byte) : \A i \in DOMAIN bytes : bytes[i] \in Byte
      OBVIOUS
    <3>3. \A bytes \in Seq(Byte) : ToSet(bytes) \subseteq Byte
      BY <3>2 DEF ToSet
    <3> QED
      BY <3>1, <3>3 DEF Byte
  <2>5. ToSet(delivered) \subseteq {Blocked, Redacted} \cup 1..MaxBody
    <3>1. delivered \in Seq(Item)
      BY <1>1 DEF Screen, Counted
    <3> QED
      BY <3>1 DEF ToSet, Item, Byte
  <2> QED
    BY <2>1, <2>2, <2>3, <2>4, <2>5 DEF TypeOK
<1> QED
  BY <1>1, SpecScreen, PTL

(* What must not reach the client does not, whichever chunks it came in: a  *)
(* whole error envelope in the peeked prefix; and a match of a rule without *)
(* a blank line in it, in any event or stretch between two blank lines that *)
(* the filter's window can hold, unless the body ends inside a character of *)
(* that stretch (inspect_success_prefix, filter_response_stream).  In a     *)
(* longer stretch only a match in what the first release of the window      *)
(* takes is sure to be replaced, and only without a cut character.          *)
THEOREM NothingLeaks == Spec => []WithheldFromClient
<1>1. ASSUME Inv, Screen
      PROVE  WithheldFromClient
  <2>1. ErrorNotDelivered
    BY <1>1 DEF Inv, Ending, Inconclusive, Structured, ErrorNotDelivered
  <2>2. MarkerWithheld
    <3>1. Fills(body.marker) => Overfull
      BY DEF Fills, Overfull
    <3> QED
      BY <1>1, <3>1 DEF Screen, Screened, Excused, MarkerWithheld
  <2> QED
    BY <2>1, <2>2 DEF WithheldFromClient
<1> QED
  BY <1>1, SpecScreen, PTL
=============================================================================
