--------------------------- MODULE MCSuccessGuard ---------------------------
EXTENDS SuccessGuard

(* What the guard looks at: a JSON or SSE value may close under, at or       *)
(* beyond the cap, or not at all; a marker lies within it or behind it.  An   *)
(* encoded body is no JSON and has no event; its length is declared or not    *)
(* like any other.  A first event ends with its blank line.                   *)
GuardCases ==
    {[kind |-> k, encoded |-> e, opens |-> o, closes |-> c, spoils |-> s,
      value |-> v, declared |-> d, marker |-> m, rule |-> r,
      blanks |-> IF k = "sse" THEN {c} \ {Never} ELSE {}, wide |-> Never] :
        k \in {"json", "sse", "other"}, e \in BOOLEAN, o \in {1, 2},
        c \in {2, 3, 4, 5, Never}, s \in {3, 4, 5, 6, Never},
        v \in {"error", "plain", "garbled"}, d \in {0, 2, 5, Never},
        m \in {1, 2, 3, Never}, r \in {"none", "redact", "reject"}}

GuardBodies ==
    {b \in GuardCases :
        /\ b.kind = "json" => b.opens = 1
        /\ b.opens < b.closes
        /\ b.spoils \in {b.closes + 1, Never} /\ (b.kind # "json" => b.spoils = Never)
        /\ b.rule = "none" => b.marker = Never
        /\ b.encoded => b.value = "garbled" /\ b.rule = "redact" /\ b.marker = 1
                        /\ b.closes = IF b.kind = "json" THEN 2 ELSE Never
        /\ b.kind = "other" => b.value = "garbled" /\ b.closes = Never /\ b.opens = 1}

(* What the filter looks at: any blank lines, a match before, between, across *)
(* and behind them, in stretches that the window holds and that it does not,  *)
(* and a character that a release, or the end of the body, can cut.           *)
FilterCases ==
    {[kind |-> k, encoded |-> FALSE, opens |-> 1,
      closes |-> IF k = "sse" /\ blanks # {}
                 THEN CHOOSE e \in blanks : \A f \in blanks : e <= f ELSE Never,
      spoils |-> Never, value |-> IF k = "sse" THEN "plain" ELSE "garbled",
      declared |-> Never, marker |-> m, rule |-> r, blanks |-> blanks, wide |-> w] :
        k \in {"json", "sse", "other"}, m \in 1..5, r \in {"redact", "reject"},
        blanks \in {{}, {2}, {3}, {4}, {5}, {6}, {2, 3}, {2, 5}, {2, 6}, {3, 6}},
        w \in {2, 3, 4, 6, Never}}

FilterBodies ==
    {b \in FilterCases :
        /\ b.wide \notin {b.marker - 1, b.marker + 1}
        /\ \A e \in b.blanks : b.wide \notin {e - 2, e - 1, e}}

MCBodies == GuardBodies \cup FilterBodies
=============================================================================
