----------------------------- MODULE MC_Services -----------------------------
(* Each service with one request at a time and with two or three at once. *)
EXTENDS Services, FiniteSetsExt, TLC

CONSTANTS h1, h2, h3, a1, a2, k1, c1, m1, m2, like, sad, t1, t2, t3, d1, d2, d3,
          x1, x2, x3

ThreeHandlers == {h1, h2, h3}
TwoAdults == {a1, a2}
OneKid == {k1}
OneTopic == {c1}
TwoMarks == {<<a1, m1>>, <<a2, m1>>}
TwoEmojis == {like, sad}
ThreeTags == {t1, t2, t3}
ThreeDocs == {d1, d2, d3}
ThreeEnvelopes == {x1, x2, x3}

(* In units of five minutes; the limits are scaled down. *)
BothLimits == [otpVerify |-> [max |-> 2, window |-> 1, lock |-> 3],
               otpIssue |-> [max |-> 1, window |-> 3, lock |-> 0]]

AtOnce(n, kinds) == {[crowd |-> c, kinds |-> kinds] : c \in kSubset(n, ThreeHandlers)}
OneByOne(kinds) == AtOnce(1, kinds)
TwoAtOnce(kinds) == AtOnce(2, kinds)
ThreeAtOnce(kinds) == AtOnce(3, kinds)

ServiceLoads ==
    OneByOne({"open", "sync", "family"})
    \cup OneByOne({"open", "topic", "notify", "post", "read"})
    \cup TwoAtOnce({"open", "sync"}) \cup TwoAtOnce({"open", "notify"})
    \cup TwoAtOnce({"notify", "post", "read"})
    \cup OneByOne({"react", "tag"}) \cup TwoAtOnce({"react"}) \cup TwoAtOnce({"tag"})
    \cup OneByOne({"upload", "discard"}) \cup TwoAtOnce({"upload"})
    \cup OneByOne({"recovery"}) \cup TwoAtOnce({"recovery"})
    \cup OneByOne({"stats"}) \cup TwoAtOnce({"stats"}) \cup ThreeAtOnce({"stats"})
    \cup OneByOne({"limit"})

Symmetry == Permutations(ThreeHandlers) \cup Permutations(TwoAdults)
=============================================================================
