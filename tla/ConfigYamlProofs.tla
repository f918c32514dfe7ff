------------------------- MODULE ConfigYamlProofs ---------------------------
(***************************************************************************)
(* Theorems about ConfigYaml: what SerializeYAML writes, ParseYAML reads   *)
(* back, and a text whose interval line was edited reads as before but for *)
(* the interval.                                                           *)
(***************************************************************************)
EXTENDS ConfigYaml, SequenceTheorems, NaturalsInduction, WellFoundedInduction, TLAPS

\* yaml.go:67-165: what holds before the first line, and after a line when it did
\* before, holds to the end.
LEMMA LineByLine ==
    ASSUME NEW S, NEW N \in Nat, 0 \in S, \A n \in 1..N : n - 1 \in S => n \in S
    PROVE  0..N \subseteq S
<1> DEFINE B == (0..N) \ S
           R == OpToRel(<, Nat)
<1>1. IsWellFoundedOn(R, Nat)
  BY NatLessThanWellFounded
<1>2. \A x, y \in Nat : <<x, y>> \in R <=> x < y
  BY DEF OpToRel
<1> HIDE DEF R
<1>3. ASSUME B # {} PROVE FALSE
  <2>1. PICK x \in B : \A y \in B : ~(<<y, x>> \in R)
    <3>1. B \subseteq Nat
      OBVIOUS
    <3> HIDE DEF B
    <3>2. QED
      BY <1>1, <1>3, <3>1, WFMin
  <2>2. x \in 1..N
    BY <2>1
  <2>3. x - 1 \in B
    BY <2>1, <2>2
  <2>4. x - 1 \in Nat /\ x \in Nat /\ x - 1 < x
    BY <2>2
  <2>5. QED
    BY <1>2, <2>1, <2>3, <2>4
<1>4. QED
  BY <1>3

After(p, lines, f) ==
    f = [n \in 0..Len(lines) |-> IF n = 0 THEN p ELSE ParseLine(f[n - 1], lines[n])]

\* yaml.go:67-165: the parser reads line after line.
LEMMA ParseIs ==
    ASSUME NEW p, NEW lines, Len(lines) \in Nat
    PROVE  \E f : After(p, lines, f) /\ Parse(p, lines) = f[Len(lines)]
<1> DEFINE N == Len(lines)
           S == {n \in 0..N : \E f :
                   f = [m \in 0..n |-> IF m = 0 THEN p ELSE ParseLine(f[m - 1], lines[m])]}
<1>1. 0 \in S
  <2> DEFINE f == [m \in 0..0 |-> p]
  <2>1. f = [m \in 0..0 |-> IF m = 0 THEN p ELSE ParseLine(f[m - 1], lines[m])]
    OBVIOUS
  <2> HIDE DEF f
  <2>2. \E g : g = [m \in 0..0 |-> IF m = 0 THEN p ELSE ParseLine(g[m - 1], lines[m])]
    BY <2>1
  <2>3. QED
    BY <2>2
<1>2. ASSUME NEW n \in 1..N, n - 1 \in S PROVE n \in S
  <2>1. PICK f : f = [m \in 0..(n - 1) |->
                        IF m = 0 THEN p ELSE ParseLine(f[m - 1], lines[m])]
    BY <1>2
  <2> DEFINE g == [m \in 0..n |-> IF m = n THEN ParseLine(f[n - 1], lines[n]) ELSE f[m]]
  <2>2. ASSUME NEW m \in 0..n
        PROVE  g[m] = IF m = 0 THEN p ELSE ParseLine(g[m - 1], lines[m])
    <3>1. CASE m = 0
      <4>1. g[m] = f[m] /\ 0 \in 0..(n - 1)
        BY <3>1
      <4>2. QED
        BY <2>1, <3>1, <4>1
    <3>2. CASE m # 0
      <4>1. m - 1 \in 0..n /\ m - 1 # n /\ m - 1 \in 0..(n - 1)
        BY <3>2
      <4>2. g[m - 1] = f[m - 1]
        BY <4>1
      <4>3. m # n => f[m] = ParseLine(f[m - 1], lines[m])
        <5>1. m # n => m \in 0..(n - 1)
          OBVIOUS
        <5>2. QED
          BY <2>1, <3>2, <5>1
      <4>4. QED
        BY <3>2, <4>2, <4>3
    <3>3. QED
      BY <3>1, <3>2
  <2>3. g = [m \in 0..n |-> IF m = 0 THEN p ELSE ParseLine(g[m - 1], lines[m])]
    BY <2>2
  <2> HIDE DEF g
  <2>4. \E x : x = [m \in 0..n |-> IF m = 0 THEN p ELSE ParseLine(x[m - 1], lines[m])]
    BY <2>3
  <2>5. QED
    BY <2>4
<1>3. N \in S
  <2> HIDE DEF S
  <2>1. 0..N \subseteq S
    BY <1>1, <1>2, LineByLine
  <2>2. QED
    BY <2>1
<1> DEFINE after == CHOOSE f : After(p, lines, f)
<1>4. After(p, lines, after)
  BY <1>3 DEF After
<1>5. Parse(p, lines) = after[Len(lines)]
  BY DEF Parse, After
<1>6. QED
  BY <1>4, <1>5

\* yaml.go:67-165: where the parser is after each line.
LEMMA AfterSteps ==
    ASSUME NEW p, NEW lines, NEW f, Len(lines) \in Nat, After(p, lines, f)
    PROVE  /\ f[0] = p
           /\ \A n \in 1..Len(lines) : f[n] = ParseLine(f[n - 1], lines[n])
<1> DEFINE N == Len(lines)
<1>1. f = [n \in 0..N |-> IF n = 0 THEN p ELSE ParseLine(f[n - 1], lines[n])] /\ N \in Nat
  BY DEF After
<1> HIDE DEF N
<1>2. f[0] = p
  BY <1>1
<1>3. ASSUME NEW n \in 1..N PROVE f[n] = ParseLine(f[n - 1], lines[n])
  <2>1. n \in 0..N /\ n # 0
    BY <1>1
  <2>2. QED
    BY <1>1, <2>1
<1>4. QED
  BY <1>2, <1>3 DEF N

\* yaml.go:67-165: no line leaves the parser where it is, one is one step.
LEMMA ParseShort ==
    ASSUME NEW p, NEW ln
    PROVE  Parse(p, <<>>) = p /\ Parse(p, <<ln>>) = ParseLine(p, ln)
<1>1. PICK f : After(p, <<>>, f) /\ Parse(p, <<>>) = f[0]
  BY ParseIs
<1>2. PICK g : After(p, <<ln>>, g) /\ Parse(p, <<ln>>) = g[1]
  BY ParseIs
<1>3. f[0] = p
  BY <1>1 DEF After
<1>4. g[0] = p /\ g[1] = ParseLine(g[0], ln)
  BY <1>2 DEF After
<1>5. QED
  BY <1>1, <1>2, <1>3, <1>4

\* yaml.go:67-165: the parser reads the lines of one part, then those of the next.
LEMMA ParseConcat ==
    ASSUME NEW p, NEW S, NEW a \in Seq(S), NEW b \in Seq(S)
    PROVE  Parse(p, a \o b) = Parse(Parse(p, a), b)
<1> DEFINE q == Parse(p, a)
           M == Len(a)
           N == Len(b)
<1>1. M \in Nat /\ N \in Nat /\ Len(a \o b) = M + N
      /\ \A i \in 1..(M + N) : (a \o b)[i] = IF i <= M THEN a[i] ELSE b[i - M]
  BY ConcatProperties, LenProperties
<1>2. PICK f : After(p, a \o b, f) /\ Parse(p, a \o b) = f[M + N]
  <2>1. Len(a \o b) \in Nat
    BY <1>1
  <2>2. PICK f : After(p, a \o b, f) /\ Parse(p, a \o b) = f[Len(a \o b)]
    BY <2>1, ParseIs
  <2>3. QED
    BY <1>1, <2>2
<1>3. PICK g : After(p, a, g) /\ q = g[M]
  BY <1>1, ParseIs
<1>4. PICK h : After(q, b, h) /\ Parse(q, b) = h[N]
  BY <1>1, ParseIs
<1> HIDE DEF q
<1>5. f[0] = p /\ \A n \in 1..(M + N) :
         f[n] = ParseLine(f[n - 1], IF n <= M THEN a[n] ELSE b[n - M])
  <2>1. f[0] = p /\ \A n \in 1..(M + N) : f[n] = ParseLine(f[n - 1], (a \o b)[n])
    <3> DEFINE ab == a \o b
    <3>1. Len(ab) \in Nat /\ Len(ab) = M + N /\ After(p, ab, f)
      BY <1>1, <1>2
    <3> HIDE DEF ab
    <3>2. f[0] = p /\ \A n \in 1..Len(ab) : f[n] = ParseLine(f[n - 1], ab[n])
      BY <3>1, AfterSteps
    <3>3. QED
      BY <3>1, <3>2 DEF ab
  <2>2. QED
    BY <1>1, <2>1
<1>6. g[0] = p /\ \A n \in 1..M : g[n] = ParseLine(g[n - 1], a[n])
  BY <1>1, <1>3, AfterSteps
<1>7. h[0] = q /\ \A n \in 1..N : h[n] = ParseLine(h[n - 1], b[n])
  BY <1>1, <1>4, AfterSteps
<1> HIDE DEF M, N
<1>8. f[M] = g[M]
  <2> DEFINE S1 == {n \in 0..M : f[n] = g[n]}
  <2>1. 0 \in S1
    BY <1>1, <1>5, <1>6
  <2>2. \A n \in 1..M : n - 1 \in S1 => n \in S1
    BY <1>1, <1>5, <1>6
  <2> HIDE DEF S1
  <2>3. 0..M \subseteq S1
    BY <1>1, <2>1, <2>2, LineByLine
  <2>4. QED
    BY <1>1, <2>3 DEF S1
<1>9. f[M + N] = h[N]
  <2> DEFINE S2 == {n \in 0..N : f[M + n] = h[n]}
  <2>1. 0 \in S2
    BY <1>1, <1>3, <1>7, <1>8
  <2>2. ASSUME NEW n \in 1..N, n - 1 \in S2 PROVE n \in S2
    <3>1. M + n \in 1..(M + N) /\ ~(M + n <= M) /\ (M + n) - 1 = M + (n - 1) /\ (M + n) - M = n
      BY <1>1
    <3>2. f[M + n] = ParseLine(f[M + (n - 1)], b[n])
      BY <1>5, <3>1
    <3>3. QED
      BY <1>7, <2>2, <3>2
  <2> HIDE DEF S2
  <2>3. 0..N \subseteq S2
    BY <1>1, <2>1, <2>2, LineByLine
  <2>4. QED
    BY <1>1, <2>3 DEF S2
<1>10. QED
  BY <1>2, <1>4, <1>9 DEF q, N, M

Modes == {"top", "alerts", "provider_order", "providers", "provider", "plan"}

\* The parser's state has all its fields.
StateFits(p) ==
    /\ DOMAIN p = {"ok", "mode", "base", "fresh", "fc"}
    /\ DOMAIN p.fc = {"interval_sec", "listen", "device_token", "tz", "alerts",
                      "providers", "provider_order"}
    /\ p.mode \in Modes

\* The parser had it read the interval x.
ReadInterval(p, x) == [p EXCEPT !.fc.interval_sec = x]

\* What a line may do to a state, whatever interval was read.
Aside(x, r, s) == StateFits(r) /\ s = ReadInterval(r, x)

\* yaml.go:89-97: the interval read earlier is one field, and nothing else.
LEMMA IntervalRead ==
    ASSUME NEW p, NEW x, StateFits(p)
    PROVE  LET q == ReadInterval(p, x)
           IN  /\ StateFits(q)
               /\ q.ok = p.ok /\ q.mode = p.mode /\ q.base = p.base /\ q.fresh = p.fresh
               /\ q.fc.interval_sec = x
               /\ \A f \in DOMAIN p.fc \ {"interval_sec"} : q.fc[f] = p.fc[f]
  BY DEF StateFits, ReadInterval

\* yaml.go:155-156: a line that fails does so whatever interval was read.
LEMMA FailAside ==
    ASSUME NEW p, NEW x, StateFits(p)
    PROVE  Aside(x, Fail(p), Fail(ReadInterval(p, x)))
  BY DEF StateFits, ReadInterval, Aside, Fail

\* yaml.go:97-153: a field of the file's other than the interval, with or without
\* the parser moving on.
LEMMA FieldAside ==
    ASSUME NEW p, NEW x, NEW r, NEW s, NEW f, NEW v, StateFits(p), r.mode \in Modes,
           f \in DOMAIN p.fc \ {"interval_sec"},
           r = [p EXCEPT !.mode = r.mode, !.fresh = r.fresh, !.fc = [p.fc EXCEPT ![f] = v]],
           s = [ReadInterval(p, x) EXCEPT !.mode = r.mode, !.fresh = r.fresh,
                                          !.fc = [ReadInterval(p, x).fc EXCEPT ![f] = v]]
    PROVE  Aside(x, r, s)
<1> DEFINE q == ReadInterval(p, x)
<1>1. /\ DOMAIN q = DOMAIN p /\ q.ok = p.ok /\ q.base = p.base
      /\ q.fc = [p.fc EXCEPT !.interval_sec = x]
  BY DEF StateFits, ReadInterval
<1>2. s = [q EXCEPT !.mode = r.mode, !.fresh = r.fresh, !.fc = [q.fc EXCEPT ![f] = v]]
  OBVIOUS
<1> HIDE DEF q
<1>3. [q.fc EXCEPT ![f] = v] = [[p.fc EXCEPT ![f] = v] EXCEPT !.interval_sec = x]
  BY <1>1 DEF StateFits
<1>4. StateFits(r) /\ r.fc = [p.fc EXCEPT ![f] = v] /\ r.ok = p.ok /\ r.base = p.base
  BY DEF StateFits
<1>5. /\ DOMAIN s = DOMAIN p /\ s.fc = [r.fc EXCEPT !.interval_sec = x] /\ s.ok = r.ok
      /\ s.base = r.base /\ s.mode = r.mode /\ s.fresh = r.fresh
  BY <1>1, <1>2, <1>3, <1>4 DEF StateFits
<1>6. s = [k \in DOMAIN p |-> s[k]]
  BY <1>1, <1>2
<1>7. s = [r EXCEPT !.fc = [r.fc EXCEPT !.interval_sec = x]]
  BY <1>4, <1>5, <1>6 DEF StateFits
<1>8. QED
  BY <1>4, <1>7 DEF Aside, ReadInterval

\* yaml.go:77-159: so does a key at column 0.
LEMMA TopAside ==
    ASSUME NEW p, NEW x, NEW ln, StateFits(p), ln.key # "interval_sec"
    PROVE  Aside(x, Top(p, ln), Top(ReadInterval(p, x), ln))
<1> DEFINE q == ReadInterval(p, x)
<1>1. StateFits(q)
  BY IntervalRead
<1>2. CASE ln.indent # 0 \/ ln.item
  <2>1. Top(p, ln) = Fail(p) /\ Top(q, ln) = Fail(q)
    BY <1>2 DEF Top
  <2>2. QED
    BY <2>1, FailAside
<1>3. CASE ~(ln.indent # 0 \/ ln.item) /\ ln.key \in Texted /\ HasValue(ln)
  <2>1. Top(p, ln) = [p EXCEPT !.mode = "top", !.fc[ln.key] = ln.text]
    BY <1>3 DEF Top, Texted, Blocks
  <2>2. Top(q, ln) = [q EXCEPT !.mode = "top", !.fc[ln.key] = ln.text]
    BY <1>3 DEF Top, Texted, Blocks
  <2> DEFINE r == [p EXCEPT !.mode = "top", !.fc[ln.key] = ln.text]
             s == [q EXCEPT !.mode = "top", !.fc[ln.key] = ln.text]
  <2>3. /\ r.mode = "top" /\ r.fresh = p.fresh /\ ln.key \in DOMAIN p.fc \ {"interval_sec"}
        /\ q.mode = p.mode /\ q.fresh = p.fresh
    BY <1>3, IntervalRead DEF StateFits, Texted
  <2>4. r = [p EXCEPT !.mode = r.mode, !.fresh = r.fresh, !.fc = [p.fc EXCEPT ![ln.key] = ln.text]]
    BY <2>3 DEF StateFits
  <2>5. s = [q EXCEPT !.mode = r.mode, !.fresh = r.fresh, !.fc = [q.fc EXCEPT ![ln.key] = ln.text]]
    BY <1>1, <2>3 DEF StateFits
  <2>6. r.mode \in Modes
    BY <1>3, <2>3 DEF Modes, Texted, StateFits
  <2> HIDE DEF r, s
  <2>7. Aside(x, r, s)
    BY <2>3, <2>4, <2>5, <2>6, FieldAside
  <2>8. QED
    BY <2>1, <2>2, <2>7 DEF r, s
<1>4. CASE ~(ln.indent # 0 \/ ln.item) /\ ln.key = "alerts" /\ ~HasValue(ln)
  <2>1. Top(p, ln) = [p EXCEPT !.mode = "alerts", !.fresh = TRUE]
    BY <1>4 DEF Top, Texted, Blocks
  <2>2. Top(q, ln) = [q EXCEPT !.mode = "alerts", !.fresh = TRUE]
    BY <1>4 DEF Top, Texted, Blocks
  <2>3. QED
    BY <1>4, <2>1, <2>2 DEF Aside, StateFits, ReadInterval, Modes
<1>5. CASE ~(ln.indent # 0 \/ ln.item) /\ ln.key \in Blocks \ {"alerts"} /\ ~HasValue(ln)
  <2>1. Top(p, ln) = [p EXCEPT !.mode = ln.key, !.fresh = TRUE, !.fc[ln.key] = <<>>]
    BY <1>5 DEF Top, Texted, Blocks
  <2>2. Top(q, ln) = [q EXCEPT !.mode = ln.key, !.fresh = TRUE, !.fc[ln.key] = <<>>]
    BY <1>5 DEF Top, Texted, Blocks
  <2> DEFINE r == [p EXCEPT !.mode = ln.key, !.fresh = TRUE, !.fc[ln.key] = <<>>]
             s == [q EXCEPT !.mode = ln.key, !.fresh = TRUE, !.fc[ln.key] = <<>>]
  <2>3. /\ r.mode = ln.key /\ r.fresh = TRUE /\ ln.key \in DOMAIN p.fc \ {"interval_sec"}
        /\ q.mode = p.mode /\ q.fresh = p.fresh
    BY <1>5, IntervalRead DEF StateFits, Blocks
  <2>4. r = [p EXCEPT !.mode = r.mode, !.fresh = r.fresh, !.fc = [p.fc EXCEPT ![ln.key] = <<>>]]
    BY <2>3 DEF StateFits
  <2>5. s = [q EXCEPT !.mode = r.mode, !.fresh = r.fresh, !.fc = [q.fc EXCEPT ![ln.key] = <<>>]]
    BY <1>1, <2>3 DEF StateFits
  <2>6. r.mode \in Modes
    BY <1>5, <2>3 DEF Modes, Blocks, StateFits
  <2> HIDE DEF r, s
  <2>7. Aside(x, r, s)
    BY <2>3, <2>4, <2>5, <2>6, FieldAside
  <2>8. QED
    BY <2>1, <2>2, <2>7 DEF r, s
<1>6. CASE /\ ~(ln.indent # 0 \/ ln.item)
           /\ ~(ln.key \in Texted /\ HasValue(ln))
           /\ ~(ln.key = "alerts" /\ ~HasValue(ln))
           /\ ~(ln.key \in Blocks \ {"alerts"} /\ ~HasValue(ln))
  <2>1. Top(p, ln) = Fail(p) /\ Top(q, ln) = Fail(q)
    BY <1>6 DEF Top
  <2>2. QED
    BY <2>1, FailAside
<1>7. QED
  BY <1>2, <1>3, <1>4, <1>5, <1>6

\* yaml.go:243-283: so does a line in the block of the thresholds.
LEMMA AlertAside ==
    ASSUME NEW p, NEW x, NEW ln, StateFits(p), ln.key # "interval_sec"
    PROVE  Aside(x, AlertStep(p, ln), AlertStep(ReadInterval(p, x), ln))
<1> DEFINE q == ReadInterval(p, x)
<1>1. StateFits(q) /\ q.fresh = p.fresh
  BY IntervalRead
<1>2. CASE p.fresh /\ ln.indent # 2
  BY <1>1, <1>2, FailAside DEF AlertStep
<1>3. CASE ~p.fresh /\ ln.indent # 2
  BY <1>1, <1>3, TopAside DEF AlertStep
<1>4. CASE ln.indent = 2 /\ (ln.item \/ ln.key \notin AlertKeys \/ ln.num = Missing)
  BY <1>1, <1>4, FailAside DEF AlertStep
<1>5. CASE ln.indent = 2 /\ ~(ln.item \/ ln.key \notin AlertKeys \/ ln.num = Missing)
  <2> DEFINE new == [k \in {ln.key} |-> ln.num[1]]
  <2>1. AlertStep(p, ln) = [p EXCEPT !.fresh = FALSE, !.fc.alerts = Layered(@, new)]
    BY <1>5 DEF AlertStep
  <2>2. AlertStep(q, ln) = [q EXCEPT !.fresh = FALSE, !.fc.alerts = Layered(@, new)]
    BY <1>5 DEF AlertStep
  <2> HIDE DEF new
  <2> DEFINE r == [p EXCEPT !.fresh = FALSE, !.fc.alerts = Layered(@, new)]
             s == [q EXCEPT !.fresh = FALSE, !.fc.alerts = Layered(@, new)]
  <2>3. /\ r.mode = p.mode /\ r.fresh = FALSE /\ "alerts" \in DOMAIN p.fc \ {"interval_sec"}
        /\ q.mode = p.mode /\ q.fresh = p.fresh
        /\ q.fc.alerts = p.fc.alerts
    BY <1>5, IntervalRead DEF StateFits
  <2>4. r = [p EXCEPT !.mode = r.mode, !.fresh = r.fresh,
                      !.fc = [p.fc EXCEPT !["alerts"] = Layered(p.fc.alerts, new)]]
    BY <2>3 DEF StateFits
  <2>5. s = [q EXCEPT !.mode = r.mode, !.fresh = r.fresh,
                      !.fc = [q.fc EXCEPT !["alerts"] = Layered(p.fc.alerts, new)]]
    BY <1>1, <2>3 DEF StateFits
  <2>6. r.mode \in Modes
    BY <1>5, <2>3 DEF Modes, StateFits
  <2> HIDE DEF r, s
  <2>7. Aside(x, r, s)
    BY <2>3, <2>4, <2>5, <2>6, FieldAside
  <2>8. QED
    BY <2>1, <2>2, <2>7 DEF r, s
<1>6. QED
  BY <1>2, <1>3, <1>4, <1>5

\* yaml.go:285-307: so does an item of the display order.
LEMMA OrderAside ==
    ASSUME NEW p, NEW x, NEW ln, StateFits(p), ln.key # "interval_sec"
    PROVE  Aside(x, OrderStep(p, ln), OrderStep(ReadInterval(p, x), ln))
<1> DEFINE q == ReadInterval(p, x)
<1>1. StateFits(q) /\ q.fresh = p.fresh
  BY IntervalRead
<1>2. CASE p.fresh /\ ln.indent # 2
  BY <1>1, <1>2, FailAside DEF OrderStep
<1>3. CASE ~(p.fresh /\ ln.indent # 2) /\ ~(ln.indent = 2 /\ ln.item)
  BY <1>1, <1>3, TopAside DEF OrderStep
<1>4. CASE ln.indent = 2 /\ ln.item
  <2>1. OrderStep(p, ln) = [p EXCEPT !.fresh = FALSE, !.fc.provider_order = Append(@, ln.text)]
    BY <1>4 DEF OrderStep
  <2>2. OrderStep(q, ln) = [q EXCEPT !.fresh = FALSE, !.fc.provider_order = Append(@, ln.text)]
    BY <1>4 DEF OrderStep
  <2> DEFINE r == [p EXCEPT !.fresh = FALSE, !.fc.provider_order = Append(@, ln.text)]
             s == [q EXCEPT !.fresh = FALSE, !.fc.provider_order = Append(@, ln.text)]
  <2>3. /\ r.mode = p.mode /\ r.fresh = FALSE /\ "provider_order" \in DOMAIN p.fc \ {"interval_sec"}
        /\ q.mode = p.mode /\ q.fresh = p.fresh
        /\ q.fc.provider_order = p.fc.provider_order
    BY <1>4, IntervalRead DEF StateFits
  <2>4. r = [p EXCEPT !.mode = r.mode, !.fresh = r.fresh,
                      !.fc = [p.fc EXCEPT !["provider_order"] = Append(p.fc.provider_order, ln.text)]]
    BY <2>3 DEF StateFits
  <2>5. s = [q EXCEPT !.mode = r.mode, !.fresh = r.fresh,
                      !.fc = [q.fc EXCEPT !["provider_order"] = Append(p.fc.provider_order, ln.text)]]
    BY <1>1, <2>3 DEF StateFits
  <2>6. r.mode \in Modes
    BY <1>4, <2>3 DEF Modes, StateFits
  <2> HIDE DEF r, s
  <2>7. Aside(x, r, s)
    BY <2>3, <2>4, <2>5, <2>6, FieldAside
  <2>8. QED
    BY <2>1, <2>2, <2>7 DEF r, s
<1>5. QED
  BY <1>2, <1>3, <1>4

\* yaml.go:322-366: so does a change of the provider in hand.
LEMMA WithLastAside ==
    ASSUME NEW p, NEW x, NEW prov, StateFits(p)
    PROVE  /\ Aside(x, WithLast(p, prov), WithLast(ReadInterval(p, x), prov))
           /\ Last(ReadInterval(p, x)) = Last(p)
           /\ StateFits(WithLast(p, prov))
  BY DEF Aside, StateFits, ReadInterval, WithLast, Last

\* yaml.go:425-460: so does a field of a provider.
LEMMA ProviderFieldAside ==
    ASSUME NEW p, NEW x, NEW ln, StateFits(p)
    PROVE  Aside(x, ProviderField(p, ln), ProviderField(ReadInterval(p, x), ln))
<1> DEFINE q == ReadInterval(p, x)
<1>1. Last(q) = Last(p)
  BY WithLastAside
<1> HIDE DEF q
<1>2. CASE ln.key = "id"
  <2>1. ProviderField(p, ln) = WithLast(p, [Last(p) EXCEPT !.id = ln.text])
    BY <1>2 DEF ProviderField
  <2>2. ProviderField(q, ln) = WithLast(q, [Last(p) EXCEPT !.id = ln.text])
    BY <1>1, <1>2 DEF ProviderField
  <2>3. QED
    BY <2>1, <2>2, WithLastAside DEF q
<1>3. CASE ln.key = "label"
  <2>1. ProviderField(p, ln) = WithLast(p, [Last(p) EXCEPT !.label = ln.text])
    BY <1>3 DEF ProviderField
  <2>2. ProviderField(q, ln) = WithLast(q, [Last(p) EXCEPT !.label = ln.text])
    BY <1>1, <1>3 DEF ProviderField
  <2>3. QED
    BY <2>1, <2>2, WithLastAside DEF q
<1>4. CASE ln.key = "enabled" /\ ln.num \in {<<0>>, <<1>>}
  <2>1. ProviderField(p, ln) = WithLast(p, [Last(p) EXCEPT !.enabled = (ln.num = <<1>>)])
    BY <1>4 DEF ProviderField
  <2>2. ProviderField(q, ln) = WithLast(q, [Last(p) EXCEPT !.enabled = (ln.num = <<1>>)])
    BY <1>1, <1>4 DEF ProviderField
  <2>3. QED
    BY <2>1, <2>2, WithLastAside DEF q
<1>5. CASE ln.key = "probe" /\ ln.num \in {<<0>>, <<1>>}
  <2>1. ProviderField(p, ln) =
           WithLast(p, [Last(p) EXCEPT !.probe = (ln.num = <<1>>), !.hasProbe = TRUE])
    BY <1>5 DEF ProviderField
  <2>2. ProviderField(q, ln) =
           WithLast(q, [Last(p) EXCEPT !.probe = (ln.num = <<1>>), !.hasProbe = TRUE])
    BY <1>1, <1>5 DEF ProviderField
  <2>3. QED
    BY <2>1, <2>2, WithLastAside DEF q
<1>6. CASE ln.key = "key_env" /\ ln.text \notin KeyShaped
  <2>1. ProviderField(p, ln) = WithLast(p, [Last(p) EXCEPT !.keyEnv = ln.text])
    BY <1>6 DEF ProviderField
  <2>2. ProviderField(q, ln) = WithLast(q, [Last(p) EXCEPT !.keyEnv = ln.text])
    BY <1>1, <1>6 DEF ProviderField
  <2>3. QED
    BY <2>1, <2>2, WithLastAside DEF q
<1>7. CASE /\ ln.key \notin {"id", "label"}
           /\ ~(ln.key = "enabled" /\ ln.num \in {<<0>>, <<1>>})
           /\ ~(ln.key = "probe" /\ ln.num \in {<<0>>, <<1>>})
           /\ ~(ln.key = "key_env" /\ ln.text \notin KeyShaped)
  <2>1. ProviderField(p, ln) = Fail(p) /\ ProviderField(q, ln) = Fail(q)
    BY <1>7 DEF ProviderField
  <2>2. QED
    BY <2>1, FailAside DEF q
<1>8. QED
  BY <1>2, <1>3, <1>4, <1>5, <1>6, <1>7 DEF q

\* yaml.go:312-336: so does an item of the list of providers.
LEMMA ListAside ==
    ASSUME NEW p, NEW x, NEW ln, StateFits(p), ln.key # "interval_sec"
    PROVE  Aside(x, ListStep(p, ln), ListStep(ReadInterval(p, x), ln))
<1> DEFINE q == ReadInterval(p, x)
           base == IF p.fresh THEN ln.indent ELSE p.base
           p1 == [p EXCEPT !.mode = "providers", !.base = base, !.fresh = FALSE]
           q1 == [q EXCEPT !.mode = "providers", !.base = base, !.fresh = FALSE]
           p2 == [p1 EXCEPT !.mode = "provider", !.fc.providers = Append(@, NewProvider)]
           q2 == [q1 EXCEPT !.mode = "provider", !.fc.providers = Append(@, NewProvider)]
<1>1. StateFits(q) /\ q.fresh = p.fresh /\ q.base = p.base
  BY IntervalRead
<1>2. ListStep(p, ln) = IF ln.indent = base /\ ln.item THEN ProviderField(p2, ln)
                                                       ELSE Top(p1, ln)
  BY DEF ListStep
<1>3. ListStep(q, ln) = IF ln.indent = base /\ ln.item THEN ProviderField(q2, ln)
                                                       ELSE Top(q1, ln)
  BY <1>1 DEF ListStep
<1> HIDE DEF base
<1>4. StateFits(p1) /\ q1 = ReadInterval(p1, x)
  BY DEF StateFits, ReadInterval, Modes
<1> HIDE DEF p1, q1, q
<1>5. StateFits(p2) /\ q2 = ReadInterval(p2, x)
  BY <1>4 DEF StateFits, ReadInterval, Modes
<1> HIDE DEF p2, q2
<1>6. Aside(x, Top(p1, ln), Top(q1, ln))
  BY <1>4, TopAside
<1>7. Aside(x, ProviderField(p2, ln), ProviderField(q2, ln))
  BY <1>5, ProviderFieldAside
<1>8. QED
  BY <1>2, <1>3, <1>6, <1>7 DEF Aside, q

\* yaml.go:338-366: so does a key below an item.
LEMMA ProviderAside ==
    ASSUME NEW p, NEW x, NEW ln, StateFits(p), ln.key # "interval_sec"
    PROVE  Aside(x, ProviderStep(p, ln), ProviderStep(ReadInterval(p, x), ln))
<1> DEFINE q == ReadInterval(p, x)
           p1 == [p EXCEPT !.mode = "provider"]
           q1 == [q EXCEPT !.mode = "provider"]
<1>1. StateFits(q) /\ q.base = p.base
  BY IntervalRead
<1>2. StateFits(p1) /\ q1 = ReadInterval(p1, x)
  BY DEF StateFits, ReadInterval, Modes
<1>3. CASE ln.indent # p.base + 2
  <2>1. ProviderStep(p, ln) = ListStep(p, ln) /\ ProviderStep(q, ln) = ListStep(q, ln)
    BY <1>1, <1>3 DEF ProviderStep
  <2>2. QED
    BY <2>1, ListAside
<1>4. CASE ln.indent = p.base + 2 /\ ln.key = "plan" /\ ~HasValue(ln)
  <2> DEFINE p2 == [p1 EXCEPT !.mode = "plan", !.fresh = TRUE]
             q2 == [q1 EXCEPT !.mode = "plan", !.fresh = TRUE]
             prov == [Last(p1) EXCEPT !.plan = <<NewPlan>>]
  <2>1. ProviderStep(p, ln) = WithLast(p2, prov)
    BY <1>4 DEF ProviderStep
  <2>2. ProviderStep(q, ln) = WithLast(q2, [Last(q1) EXCEPT !.plan = <<NewPlan>>])
    BY <1>1, <1>4 DEF ProviderStep
  <2>3. Last(q1) = Last(p1)
    BY <1>2, WithLastAside
  <2> HIDE DEF p1, q1, q
  <2>4. StateFits(p2) /\ q2 = ReadInterval(p2, x)
    BY <1>2 DEF StateFits, ReadInterval, Modes
  <2> HIDE DEF p2, q2
  <2>5. ProviderStep(q, ln) = WithLast(q2, prov)
    BY <2>2, <2>3
  <2> HIDE DEF prov
  <2>6. QED
    BY <2>1, <2>4, <2>5, WithLastAside DEF Aside, q
<1>5. CASE ln.indent = p.base + 2 /\ ~(ln.key = "plan" /\ ~HasValue(ln))
  <2>1. ProviderStep(p, ln) = ProviderField(p1, ln)
    BY <1>5 DEF ProviderStep
  <2>2. ProviderStep(q, ln) = ProviderField(q1, ln)
    BY <1>1, <1>5 DEF ProviderStep
  <2> HIDE DEF p1, q1
  <2>3. QED
    BY <1>2, <2>1, <2>2, ProviderFieldAside DEF Aside
<1>6. QED
  BY <1>3, <1>4, <1>5

\* yaml.go:371-423: so does a key of a plan.
LEMMA PlanAside ==
    ASSUME NEW p, NEW x, NEW ln, StateFits(p), ln.key # "interval_sec"
    PROVE  Aside(x, PlanStep(p, ln), PlanStep(ReadInterval(p, x), ln))
<1> DEFINE q == ReadInterval(p, x)
           plan == Last(p).plan[1]
           p1 == [p EXCEPT !.fresh = FALSE]
           q1 == [q EXCEPT !.fresh = FALSE]
           set(new) == [Last(p) EXCEPT !.plan = <<new>>]
<1>1. StateFits(q) /\ q.base = p.base /\ q.fresh = p.fresh /\ Last(q) = Last(p)
  BY IntervalRead, WithLastAside
<1>2. StateFits(p1) /\ q1 = ReadInterval(p1, x)
  BY DEF StateFits, ReadInterval, Modes
<1>3. CASE p.fresh /\ ln.indent # p.base + 4
  <2>1. PlanStep(p, ln) = Fail(p) /\ PlanStep(q, ln) = Fail(q)
    BY <1>1, <1>3 DEF PlanStep
  <2>2. QED
    BY <2>1, FailAside
<1>4. CASE ~p.fresh /\ ln.indent # p.base + 4
  <2>1. PlanStep(p, ln) = ProviderStep(p, ln) /\ PlanStep(q, ln) = ProviderStep(q, ln)
    BY <1>1, <1>4 DEF PlanStep
  <2>2. QED
    BY <2>1, ProviderAside
<1>5. CASE ln.indent = p.base + 4 /\ ln.key = "cost" /\ ln.num # Missing
  <2>1. PlanStep(p, ln) = WithLast(p1, set([plan EXCEPT !.cost = ln.num[1]]))
    BY <1>5 DEF PlanStep
  <2>2. PlanStep(q, ln) = WithLast(q1, set([plan EXCEPT !.cost = ln.num[1]]))
    BY <1>1, <1>5 DEF PlanStep
  <2> HIDE DEF p1, q1, set, plan
  <2>3. QED
    BY <1>2, <2>1, <2>2, WithLastAside DEF Aside
<1>6. CASE ln.indent = p.base + 4 /\ ln.key = "cost_usd" /\ ln.num # Missing
  <2>1. PlanStep(p, ln) = WithLast(p1, set([plan EXCEPT !.usd = ln.num[1], !.hasUsd = TRUE]))
    BY <1>6 DEF PlanStep
  <2>2. PlanStep(q, ln) = WithLast(q1, set([plan EXCEPT !.usd = ln.num[1], !.hasUsd = TRUE]))
    BY <1>1, <1>6 DEF PlanStep
  <2> HIDE DEF p1, q1, set, plan
  <2>3. QED
    BY <1>2, <2>1, <2>2, WithLastAside DEF Aside
<1>7. CASE ln.indent = p.base + 4 /\ ln.key = "currency" /\ HasValue(ln)
  <2>1. PlanStep(p, ln) = WithLast(p1, set([plan EXCEPT !.currency = ln.text]))
    BY <1>7 DEF PlanStep
  <2>2. PlanStep(q, ln) = WithLast(q1, set([plan EXCEPT !.currency = ln.text]))
    BY <1>1, <1>7 DEF PlanStep
  <2> HIDE DEF p1, q1, set, plan
  <2>3. QED
    BY <1>2, <2>1, <2>2, WithLastAside DEF Aside
<1>7a. CASE ln.indent = p.base + 4 /\ ln.key = "label" /\ HasValue(ln)
  <2>1. PlanStep(p, ln) = WithLast(p1, set([plan EXCEPT !.label = ln.text]))
    BY <1>7a DEF PlanStep
  <2>2. PlanStep(q, ln) = WithLast(q1, set([plan EXCEPT !.label = ln.text]))
    BY <1>1, <1>7a DEF PlanStep
  <2> HIDE DEF p1, q1, set, plan
  <2>3. QED
    BY <1>2, <2>1, <2>2, WithLastAside DEF Aside
<1>8. CASE /\ ln.indent = p.base + 4
           /\ ~(ln.key = "cost" /\ ln.num # Missing)
           /\ ~(ln.key = "cost_usd" /\ ln.num # Missing)
           /\ ~(ln.key \in {"currency", "label"} /\ HasValue(ln))
  <2>1. PlanStep(p, ln) = Fail(p) /\ PlanStep(q, ln) = Fail(q)
    BY <1>1, <1>8 DEF PlanStep
  <2>2. QED
    BY <2>1, FailAside
<1>9. QED
  BY <1>3, <1>4, <1>5, <1>6, <1>7, <1>7a, <1>8

\* yaml.go:77-159: so does any line but the interval's.
LEMMA LineAside ==
    ASSUME NEW p, NEW x, NEW ln, StateFits(p), ln.key # "interval_sec"
    PROVE  Aside(x, ParseLine(p, ln), ParseLine(ReadInterval(p, x), ln))
<1> DEFINE q == ReadInterval(p, x)
<1>1. q.ok = p.ok /\ q.mode = p.mode
  BY IntervalRead
<1> HIDE DEF q
<1>2. CASE ~p.ok \/ ln.text \in RawControl
  <2>1. ParseLine(p, ln) = Fail(p) /\ ParseLine(q, ln) = Fail(q)
    BY <1>1, <1>2 DEF ParseLine
  <2>2. QED
    BY <2>1, FailAside DEF q
<1>3. CASE ~(~p.ok \/ ln.text \in RawControl)
  <2>1. CASE p.mode = "top"
    <3>1. ParseLine(p, ln) = Top(p, ln) /\ ParseLine(q, ln) = Top(q, ln)
      BY <1>1, <1>3, <2>1 DEF ParseLine
    <3>2. QED
      BY <3>1, TopAside DEF q
  <2>2. CASE p.mode = "alerts"
    <3>1. ParseLine(p, ln) = AlertStep(p, ln) /\ ParseLine(q, ln) = AlertStep(q, ln)
      BY <1>1, <1>3, <2>2 DEF ParseLine
    <3>2. QED
      BY <3>1, AlertAside DEF q
  <2>3. CASE p.mode = "provider_order"
    <3>1. ParseLine(p, ln) = OrderStep(p, ln) /\ ParseLine(q, ln) = OrderStep(q, ln)
      BY <1>1, <1>3, <2>3 DEF ParseLine
    <3>2. QED
      BY <3>1, OrderAside DEF q
  <2>4. CASE p.mode = "providers"
    <3>1. ParseLine(p, ln) = ListStep(p, ln) /\ ParseLine(q, ln) = ListStep(q, ln)
      BY <1>1, <1>3, <2>4 DEF ParseLine
    <3>2. QED
      BY <3>1, ListAside DEF q
  <2>5. CASE p.mode = "provider"
    <3>1. ParseLine(p, ln) = ProviderStep(p, ln) /\ ParseLine(q, ln) = ProviderStep(q, ln)
      BY <1>1, <1>3, <2>5 DEF ParseLine
    <3>2. QED
      BY <3>1, ProviderAside DEF q
  <2>6. CASE p.mode = "plan"
    <3>1. ParseLine(p, ln) = PlanStep(p, ln) /\ ParseLine(q, ln) = PlanStep(q, ln)
      BY <1>1, <1>3, <2>6 DEF ParseLine
    <3>2. QED
      BY <3>1, PlanAside DEF q
  <2>7. QED
    BY <2>1, <2>2, <2>3, <2>4, <2>5, <2>6 DEF StateFits, Modes
<1>4. QED
  BY <1>2, <1>3

\* Lines that say nothing of the interval.
LineKeys == {"listen", "tz", "alerts", "provider_order", "providers", NoText,
             "id", "enabled", "label", "key_env", "probe", "plan",
             "cost", "currency", "cost_usd"} \cup AlertKeys
OtherLines == [indent : Nat, item : BOOLEAN, key : LineKeys,
               text : Words \cup {Garbled}, num : Seq(Int)]

\* yaml.go:77-159: and so do all of them, one after the other.
LEMMA ParseAside ==
    ASSUME NEW p, NEW x, NEW lines \in Seq(OtherLines), StateFits(p)
    PROVE  Aside(x, Parse(p, lines), Parse(ReadInterval(p, x), lines))
<1> DEFINE q == ReadInterval(p, x)
           N == Len(lines)
<1>1. N \in Nat /\ \A n \in 1..N : lines[n].key # "interval_sec"
  <2>1. N \in Nat /\ \A n \in 1..N : lines[n] \in OtherLines
    OBVIOUS
  <2>1a. \A ln \in OtherLines : ln.key \in LineKeys
    BY DEF OtherLines
  <2>2. "interval_sec" \notin LineKeys
    BY DEF LineKeys, NoText, AlertKeys
  <2>3. QED
    BY <2>1, <2>1a, <2>2
<1>2. PICK f : After(p, lines, f) /\ Parse(p, lines) = f[N]
  BY <1>1, ParseIs
<1>3. PICK g : After(q, lines, g) /\ Parse(q, lines) = g[N]
  BY <1>1, ParseIs
<1>4. f[0] = p /\ \A n \in 1..N : f[n] = ParseLine(f[n - 1], lines[n])
  BY <1>1, <1>2, AfterSteps
<1>5. g[0] = q /\ \A n \in 1..N : g[n] = ParseLine(g[n - 1], lines[n])
  BY <1>1, <1>3, AfterSteps
<1> HIDE DEF N
<1> DEFINE S == {n \in 0..N : StateFits(f[n]) /\ g[n] = ReadInterval(f[n], x)}
<1>6. 0 \in S
  BY <1>1, <1>4, <1>5
<1>7. ASSUME NEW n \in 1..N, n - 1 \in S PROVE n \in S
  <2>1. StateFits(f[n - 1]) /\ g[n - 1] = ReadInterval(f[n - 1], x)
    BY <1>7
  <2>2. Aside(x, ParseLine(f[n - 1], lines[n]), ParseLine(g[n - 1], lines[n]))
    BY <1>1, <2>1, LineAside
  <2>3. n \in 0..N
    BY <1>1
  <2>4. QED
    BY <1>4, <1>5, <2>2, <2>3 DEF Aside
<1> HIDE DEF S
<1>8. 0..N \subseteq S
  BY <1>1, <1>6, <1>7, LineByLine
<1>9. N \in S
  BY <1>1, <1>8
<1>10. QED
  BY <1>2, <1>3, <1>9 DEF S, Aside, N

\* serialize.go:13-81: the parts of a list, one after the other.
LEMMA FlattenIs ==
    ASSUME NEW seqs, Len(seqs) \in Nat
    PROVE  /\ Len(seqs) = 0 => Seqs!FlattenSeq(seqs) = seqs
           /\ Len(seqs) > 0 =>
                \E f : /\ f[1] = seqs[1]
                       /\ \A n \in 2..Len(seqs) : f[n] = f[n - 1] \o seqs[n]
                       /\ Seqs!FlattenSeq(seqs) = f[Len(seqs)]
<1> DEFINE N == Len(seqs)
           Eq(g, n) == g = [m \in 1..n |-> IF m = 1 THEN seqs[m] ELSE g[m - 1] \o seqs[m]]
           S == {n \in 0..N : n = 0 \/ \E g : Eq(g, n)}
<1>0. Len(seqs) = 0 => Seqs!FlattenSeq(seqs) = seqs
  BY DEF Seqs!FlattenSeq
<1>1. 0 \in S
  OBVIOUS
<1>2. ASSUME NEW n \in 1..N, n - 1 \in S PROVE n \in S
  <2>1. CASE n = 1
    <3> DEFINE g == [m \in 1..1 |-> seqs[m]]
    <3>1. Eq(g, 1)
      OBVIOUS
    <3> HIDE DEF g
    <3>2. \E x : Eq(x, 1)
      BY <3>1
    <3> HIDE DEF Eq
    <3>3. QED
      BY <2>1, <3>2
  <2>2. CASE n # 1
    <3>1. PICK f : Eq(f, n - 1)
      <4> HIDE DEF Eq
      <4>1. QED
        BY <1>2, <2>2
    <3> DEFINE g == [m \in 1..n |-> IF m = n THEN f[n - 1] \o seqs[n] ELSE f[m]]
    <3>2. ASSUME NEW m \in 1..n
          PROVE  g[m] = IF m = 1 THEN seqs[m] ELSE g[m - 1] \o seqs[m]
      <4>1. CASE m = 1
        <5>1. g[m] = f[m] /\ m \in 1..(n - 1)
          BY <2>2, <4>1
        <5>2. QED
          BY <3>1, <4>1, <5>1
      <4>2. CASE m # 1
        <5>1. m - 1 \in 1..n /\ m - 1 # n /\ m - 1 \in 1..(n - 1)
          BY <4>2
        <5>2. g[m - 1] = f[m - 1]
          BY <5>1
        <5>3. m # n => m \in 1..(n - 1)
          OBVIOUS
        <5>4. m # n => f[m] = f[m - 1] \o seqs[m]
          BY <3>1, <4>2, <5>3
        <5>5. QED
          BY <4>2, <5>2, <5>4
      <4>3. QED
        BY <4>1, <4>2
    <3>3. Eq(g, n)
      BY <3>2
    <3> HIDE DEF g
    <3>4. \E x : Eq(x, n)
      BY <3>3
    <3> HIDE DEF Eq
    <3>5. QED
      BY <3>4
  <2>3. QED
    BY <2>1, <2>2
<1>3. N \in S
  <2> HIDE DEF S
  <2>1. 0..N \subseteq S
    BY <1>1, <1>2, LineByLine
  <2>2. QED
    BY <2>1
<1>4. ASSUME N > 0
      PROVE  \E f : /\ f[1] = seqs[1]
                    /\ \A n \in 2..N : f[n] = f[n - 1] \o seqs[n]
                    /\ Seqs!FlattenSeq(seqs) = f[N]
  <2> DEFINE f == CHOOSE g : Eq(g, N)
  <2>1. Eq(f, N)
    <3> HIDE DEF Eq
    <3>1. \E g : Eq(g, N)
      BY <1>3, <1>4
    <3>2. QED
      BY <3>1
  <2>2. Seqs!FlattenSeq(seqs) = f[N]
    BY <1>4 DEF Seqs!FlattenSeq
  <2> HIDE DEF f
  <2>3. f[1] = seqs[1]
    <3>1. 1 \in 1..N
      BY <1>4
    <3>2. QED
      BY <2>1, <3>1
  <2>4. ASSUME NEW n \in 2..N PROVE f[n] = f[n - 1] \o seqs[n]
    <3>1. n \in 1..N /\ n # 1
      OBVIOUS
    <3>2. QED
      BY <2>1, <3>1
  <2>5. QED
    BY <2>2, <2>3, <2>4
<1>5. QED
  BY <1>0, <1>4

\* What the fields of a file, its providers and their plans may be.
PlanVals == [cost : Int, currency : Words, usd : Int, hasUsd : BOOLEAN, label : Words]
ProviderVals ==
    [id : Words, enabled : BOOLEAN, label : Words, keyEnv : Words,
     probe : BOOLEAN, hasProbe : BOOLEAN, plan : Seq(PlanVals)]
FileTyped(fc) ==
    /\ DOMAIN fc = DOMAIN NoFile
    /\ fc.interval_sec \in Nat
    /\ fc.listen \in Words /\ fc.tz \in Words
    /\ \A k \in DOMAIN fc.alerts : fc.alerts[k] \in Int
    /\ fc.providers \in Seq(ProviderVals)
    /\ fc.provider_order \in Seq(Words)

\* serialize.go:22-27: the line of a text is a line other than the interval's.
LEMMA LineTyped ==
    ASSUME NEW n \in Nat, NEW item \in BOOLEAN, NEW key \in LineKeys,
           NEW t \in Words, NEW num \in Seq(Int)
    PROVE  <<Line(n, item, key, ReadText(t), num)>> \in Seq(OtherLines)
<1>1. ReadText(t) \in Words \cup {Garbled}
  BY DEF ReadText
<1>2. Line(n, item, key, ReadText(t), num) \in OtherLines
  BY <1>1 DEF Line, OtherLines
<1>3. QED
  BY <1>2

\* serialize.go:13-81: so is a line without a text,
LEMMA BlankTyped ==
    ASSUME NEW n \in Nat, NEW item \in BOOLEAN, NEW key \in LineKeys,
           NEW num \in Seq(Int)
    PROVE  <<Line(n, item, key, NoText, num)>> \in Seq(OtherLines)
<1>1. Line(n, item, key, NoText, num) \in OtherLines
  BY DEF Line, OtherLines, Words
<1>2. QED
  BY <1>1

\* serialize.go:29-30: the line that opens a block,
LEMMA HeaderTyped ==
    ASSUME NEW n \in Nat, NEW key \in LineKeys
    PROVE  Header(n, key) \in Seq(OtherLines)
<1>1. Missing \in Seq(Int)
  BY DEF Missing
<1>2. QED
  BY <1>1, BlankTyped DEF Header

\* serialize.go:83-94: that of a text, or none,
LEMMA ScalarTyped ==
    ASSUME NEW n \in Nat, NEW key \in LineKeys, NEW t \in Words
    PROVE  Scalar(n, key, t) \in Seq(OtherLines)
<1>1. Missing \in Seq(Int)
  BY DEF Missing
<1>2. <<Line(n, FALSE, key, ReadText(t), Missing)>> \in Seq(OtherLines)
  BY <1>1, LineTyped
<1>3. <<>> \in Seq(OtherLines)
  OBVIOUS
<1>4. QED
  BY <1>2, <1>3 DEF Scalar

\* serialize.go:19-21: that of a number, or none,
LEMMA NumberTyped ==
    ASSUME NEW n \in Nat, NEW key \in LineKeys, NEW v \in Int
    PROVE  Number(n, key, v) \in Seq(OtherLines) /\ Amount(n, key, v) \in Seq(OtherLines)
<1>1. <<v>> \in Seq(Int)
  OBVIOUS
<1>2. Number(n, key, v) \in Seq(OtherLines)
  BY <1>1, BlankTyped DEF Number
<1>3. <<>> \in Seq(OtherLines)
  OBVIOUS
<1>4. QED
  BY <1>2, <1>3 DEF Amount

\* serialize.go:49-61: that of a truth value,
LEMMA TruthTyped ==
    ASSUME NEW n \in Nat, NEW key \in LineKeys, NEW b \in BOOLEAN
    PROVE  Truth(n, key, b) \in Seq(OtherLines)
<1>1. Number(n, key, 0) \in Seq(OtherLines) /\ Number(n, key, 1) \in Seq(OtherLines)
  BY NumberTyped
<1>2. QED
  BY <1>1 DEF Truth

\* serialize.go:31-35: and that of a threshold.
LEMMA AlertTyped ==
    ASSUME NEW alerts, NEW key \in LineKeys,
           \A k \in DOMAIN alerts : alerts[k] \in Int
    PROVE  AlertLine(alerts, key) \in Seq(OtherLines)
<1>1. key \in DOMAIN alerts => Number(2, key, alerts[key]) \in Seq(OtherLines)
  BY NumberTyped
<1>2. <<>> \in Seq(OtherLines)
  OBVIOUS
<1>3. QED
  BY <1>1, <1>2 DEF AlertLine

\* serialize.go:62-76: the lines of a plan are such lines.
LEMMA PlanTyped ==
    ASSUME NEW plan \in PlanVals
    PROVE  /\ Header(2, "plan") \in Seq(OtherLines)
           /\ Amount(4, "cost", plan.cost) \in Seq(OtherLines)
           /\ Scalar(4, "currency", plan.currency) \in Seq(OtherLines)
           /\ Scalar(4, "label", plan.label) \in Seq(OtherLines)
           /\ Number(4, "cost_usd", plan.usd) \in Seq(OtherLines)
           /\ PlanLines(plan) \in Seq(OtherLines)
<1> DEFINE L == Seq(OtherLines)
<1>0. (\A a, b \in L : a \o b \in L) /\ <<>> \in L
  BY ConcatProperties
<1>1. plan.cost \in Int /\ plan.currency \in Words /\ plan.label \in Words /\ plan.usd \in Int
  BY DEF PlanVals
<1> HIDE DEF L
<1>2. Header(2, "plan") \in L
  BY HeaderTyped DEF L, LineKeys
<1>3. Amount(4, "cost", plan.cost) \in L
  BY <1>1, NumberTyped DEF L, LineKeys
<1>4. Scalar(4, "currency", plan.currency) \in L
  BY <1>1, ScalarTyped DEF L, LineKeys
<1>5. Scalar(4, "label", plan.label) \in L
  BY <1>1, ScalarTyped DEF L, LineKeys
<1>6. Number(4, "cost_usd", plan.usd) \in L
  BY <1>1, NumberTyped DEF L, LineKeys
<1>7. PlanLines(plan) \in L
  BY <1>0, <1>2, <1>3, <1>4, <1>5, <1>6 DEF PlanLines
<1>8. QED
  BY <1>2, <1>3, <1>4, <1>5, <1>6, <1>7 DEF L

\* serialize.go:47-77: so are those of a provider.
LEMMA ProviderTyped ==
    ASSUME NEW p \in ProviderVals
    PROVE  /\ <<Line(0, TRUE, "id", ReadText(p.id), Missing)>> \in Seq(OtherLines)
           /\ Truth(2, "enabled", FALSE) \in Seq(OtherLines)
           /\ Scalar(2, "label", p.label) \in Seq(OtherLines)
           /\ Scalar(2, "key_env", p.keyEnv) \in Seq(OtherLines)
           /\ Truth(2, "probe", p.probe) \in Seq(OtherLines)
           /\ p.plan # NoPlan => /\ p.plan[1] \in PlanVals
                                 /\ PlanLines(p.plan[1]) \in Seq(OtherLines)
           /\ ProviderLines(p) \in Seq(OtherLines)
<1> DEFINE L == Seq(OtherLines)
<1>0. (\A a, b \in L : a \o b \in L) /\ <<>> \in L
  BY ConcatProperties
<1>1. p.id \in Words /\ p.label \in Words /\ p.keyEnv \in Words /\ p.probe \in BOOLEAN
  BY DEF ProviderVals
<1>2. <<Line(0, TRUE, "id", ReadText(p.id), Missing)>> \in L
  <2>1. Missing \in Seq(Int)
    BY DEF Missing
  <2>2. QED
    BY <1>1, <2>1, LineTyped DEF LineKeys
<1> HIDE DEF L
<1>3. Truth(2, "enabled", FALSE) \in L
  BY TruthTyped DEF L, LineKeys
<1>4. Scalar(2, "label", p.label) \in L
  BY <1>1, ScalarTyped DEF L, LineKeys
<1>5. Scalar(2, "key_env", p.keyEnv) \in L
  BY <1>1, ScalarTyped DEF L, LineKeys
<1>6. Truth(2, "probe", p.probe) \in L
  BY <1>1, TruthTyped DEF L, LineKeys
<1>7. p.plan # NoPlan => p.plan[1] \in PlanVals
  <2>1. p.plan \in Seq(PlanVals)
    BY DEF ProviderVals
  <2>2. QED
    BY <2>1 DEF NoPlan
<1>8. p.plan # NoPlan => PlanLines(p.plan[1]) \in L
  BY <1>7, PlanTyped DEF L
<1>9. ProviderLines(p) \in L
  BY <1>0, <1>2, <1>3, <1>4, <1>5, <1>6, <1>8 DEF ProviderLines
<1>10. QED
  BY <1>2, <1>3, <1>4, <1>5, <1>6, <1>7, <1>8, <1>9 DEF L

\* serialize.go:29-36: so are those of the thresholds.
LEMMA AlertsTyped ==
    ASSUME NEW alerts, \A k \in DOMAIN alerts : alerts[k] \in Int
    PROVE  AlertsLines(alerts) \in Seq(OtherLines)
<1> DEFINE L == Seq(OtherLines)
<1>1. AlertLine(alerts, "openrouter_low_usd") \in L
  BY AlertTyped DEF LineKeys, AlertKeys
<1>2. AlertLine(alerts, "quota_warn_5h_pct") \in L
  BY AlertTyped DEF LineKeys, AlertKeys
<1>3. AlertLine(alerts, "quota_warn_weekly_pct") \in L
  BY AlertTyped DEF LineKeys, AlertKeys
<1>4. Header(0, "alerts") \in L
  BY HeaderTyped DEF LineKeys
<1>5. (\A a, b \in L : a \o b \in L) /\ <<>> \in L
  BY ConcatProperties
<1> HIDE DEF L
<1>6. AlertsLines(alerts) \in L
  BY <1>1, <1>2, <1>3, <1>4, <1>5 DEF AlertsLines
<1>7. QED
  BY <1>6 DEF L

\* serialize.go:38-43: so are those of the display order.
LEMMA OrderTyped ==
    ASSUME NEW order \in Seq(Words)
    PROVE  /\ OrderLines(order) \in Seq(OtherLines)
           /\ [i \in DOMAIN order |-> Line(2, TRUE, NoText, ReadText(order[i]), Missing)]
                 \in Seq(OtherLines)
<1> DEFINE L == Seq(OtherLines)
           items == [i \in DOMAIN order |->
                        Line(2, TRUE, NoText, ReadText(order[i]), Missing)]
<1>1. ASSUME NEW i \in 1..Len(order)
      PROVE  Line(2, TRUE, NoText, ReadText(order[i]), Missing) \in OtherLines
  <2>1. order[i] \in Words
    OBVIOUS
  <2>2. ReadText(order[i]) \in Words \cup {Garbled}
    BY <2>1 DEF ReadText
  <2>3. Missing \in Seq(Int) /\ NoText \in LineKeys
    BY DEF Missing, LineKeys
  <2>4. QED
    BY <2>2, <2>3 DEF Line, OtherLines
<1>2. Len(order) \in Nat /\ DOMAIN order = 1..Len(order)
  OBVIOUS
<1>3. items \in L
  <2> DEFINE N == Len(order)
             item(i) == Line(2, TRUE, NoText, ReadText(order[i]), Missing)
  <2>1. items = [i \in 1..N |-> item(i)] /\ N \in Nat /\ \A i \in 1..N : item(i) \in OtherLines
    BY <1>1, <1>2
  <2> HIDE DEF N, item, items
  <2>2. items \in [1..N -> OtherLines]
    BY <2>1
  <2>3. QED
    BY <2>1, <2>2
<1>4. Header(0, "provider_order") \in L
  BY HeaderTyped DEF LineKeys
<1>5. (\A a, b \in L : a \o b \in L) /\ <<>> \in L
  BY ConcatProperties
<1>6. OrderLines(order) = IF order = <<>> THEN <<>> ELSE Header(0, "provider_order") \o items
  BY DEF OrderLines
<1> HIDE DEF L, items
<1>7. OrderLines(order) \in L
  BY <1>3, <1>4, <1>5, <1>6
<1>8. QED
  BY <1>3, <1>7 DEF L, items

\* serialize.go:45-78: so are those of the list of providers.
LEMMA ProvidersTyped ==
    ASSUME NEW provs \in Seq(ProviderVals)
    PROVE  ProvidersLines(provs) \in Seq(OtherLines)
<1> DEFINE L == Seq(OtherLines)
           N == Len(provs)
           parts == [i \in DOMAIN provs |-> ProviderLines(provs[i])]
<1>1. N \in Nat /\ DOMAIN provs = 1..N /\ \A i \in 1..N : provs[i] \in ProviderVals
  OBVIOUS
<1>2. \A i \in 1..N : ProviderLines(provs[i]) \in L
  BY <1>1, ProviderTyped
<1>3. Len(parts) = N /\ \A i \in 1..N : parts[i] \in L
  <2>1. parts = [i \in 1..N |-> ProviderLines(provs[i])]
    BY <1>1
  <2>2. parts \in Seq(L)
    BY <1>1, <1>2
  <2>3. QED
    BY <1>1, <1>2, <2>1, <2>2
<1>4. (\A a, b \in L : a \o b \in L) /\ <<>> \in L
  BY ConcatProperties
<1>5. Header(0, "providers") \in L
  BY HeaderTyped DEF LineKeys
<1>6. ProvidersLines(provs) = IF provs = <<>> THEN <<>>
                              ELSE Header(0, "providers") \o Seqs!FlattenSeq(parts)
  BY DEF ProvidersLines
<1>7. provs # <<>> => N > 0
  BY <1>1
<1> HIDE DEF parts, N, L
<1>8. ASSUME N > 0 PROVE Seqs!FlattenSeq(parts) \in L
  <2>1. PICK f : /\ f[1] = parts[1]
                 /\ \A n \in 2..N : f[n] = f[n - 1] \o parts[n]
                 /\ Seqs!FlattenSeq(parts) = f[N]
    BY <1>1, <1>3, <1>8, FlattenIs
  <2> DEFINE S == {n \in 0..N : n = 0 \/ f[n] \in L}
  <2>2. 0 \in S
    BY <1>1
  <2>3. ASSUME NEW n \in 1..N, n - 1 \in S PROVE n \in S
    <3>1. n \in 0..N
      BY <1>1
    <3>2. CASE n = 1
      BY <1>3, <2>1, <3>1, <3>2
    <3>3. CASE n # 1
      <4>1. n \in 2..N /\ f[n - 1] \in L
        BY <1>1, <2>3, <3>3
      <4>2. f[n] \in L
        BY <1>3, <1>4, <2>1, <4>1
      <4>3. QED
        BY <3>1, <4>2
    <3>4. QED
      BY <3>2, <3>3
  <2> HIDE DEF S
  <2>4. 0..N \subseteq S
    BY <1>1, <2>2, <2>3, LineByLine
  <2>5. QED
    BY <1>1, <1>8, <2>1, <2>4 DEF S
<1>9. ProvidersLines(provs) \in L
  BY <1>4, <1>5, <1>6, <1>7, <1>8
<1>10. QED
  BY <1>9 DEF L

\* yaml.go:77-159: reading the file is reading its parts one after the other.
LEMMA ReadInOrder ==
    ASSUME NEW fc, FileTyped(fc)
    PROVE  LET a == Parse(Start, IntervalLines(fc.interval_sec))
               b == Parse(a, Scalar(0, "listen", fc.listen))
               c == Parse(b, Scalar(0, "tz", fc.tz))
               d == Parse(c, AlertsLines(fc.alerts))
               e == Parse(d, OrderLines(fc.provider_order))
           IN  Parse(Start, SerializeYAML(fc)) = Parse(e, ProvidersLines(fc.providers))
<1> DEFINE v == fc.interval_sec
           A == OtherLines \cup {Line(0, FALSE, "interval_sec", NoText, <<v>>)}
           L == Seq(A)
           i == IntervalLines(v)
           li == Scalar(0, "listen", fc.listen)
           tz == Scalar(0, "tz", fc.tz)
           al == AlertsLines(fc.alerts)
           or == OrderLines(fc.provider_order)
           pr == ProvidersLines(fc.providers)
<1>1. i \in L
  <2>1. <<Line(0, FALSE, "interval_sec", NoText, <<v>>)>> \in L
    <3> DEFINE ln == Line(0, FALSE, "interval_sec", NoText, <<v>>)
    <3>1. ln \in A
      OBVIOUS
    <3> HIDE DEF ln, A
    <3>2. <<ln>> \in L
      BY <3>1
    <3>3. QED
      BY <3>2 DEF ln
  <2>2. <<>> \in L
    OBVIOUS
  <2> HIDE DEF L, v
  <2>3. QED
    BY <2>1, <2>2 DEF IntervalLines, Number
<1>2. li \in Seq(OtherLines) /\ tz \in Seq(OtherLines)
  <2>1. fc.listen \in Words /\ fc.tz \in Words
    BY DEF FileTyped
  <2>2. li \in Seq(OtherLines)
    BY <2>1, ScalarTyped DEF LineKeys
  <2>3. tz \in Seq(OtherLines)
    BY <2>1, ScalarTyped DEF LineKeys
  <2>4. QED
    BY <2>2, <2>3
<1>3. al \in Seq(OtherLines) /\ or \in Seq(OtherLines) /\ pr \in Seq(OtherLines)
  BY AlertsTyped, OrderTyped, ProvidersTyped DEF FileTyped
<1>4. Seq(OtherLines) \subseteq L
  <2>1. OtherLines \subseteq A
    OBVIOUS
  <2> HIDE DEF A
  <2>2. ASSUME NEW s \in Seq(OtherLines) PROVE s \in Seq(A)
    <3>1. Len(s) \in Nat /\ s \in [1..Len(s) -> OtherLines]
      OBVIOUS
    <3>2. s \in [1..Len(s) -> A]
      BY <2>1, <3>1
    <3>3. QED
      BY <3>1, <3>2
  <2>3. QED
    BY <2>2
<1>5. SerializeYAML(fc) = i \o li \o tz \o al \o or \o pr
  BY DEF SerializeYAML
<1>6. \A x, y \in L : x \o y \in L
  BY ConcatProperties
<1> HIDE DEF i, li, tz, al, or, pr
<1>7. \A x, y \in L : \A p : Parse(p, x \o y) = Parse(Parse(p, x), y)
  BY ParseConcat
<1> HIDE DEF L, v
<1>8. li \in L /\ tz \in L /\ al \in L /\ or \in L /\ pr \in L
  BY <1>2, <1>3, <1>4
<1>9. i \o li \in L /\ i \o li \o tz \in L /\ i \o li \o tz \o al \in L
      /\ i \o li \o tz \o al \o or \in L
  BY <1>1, <1>6, <1>8
<1>10. Parse(Start, i \o li \o tz \o al \o or \o pr)
         = Parse(Parse(Parse(Parse(Parse(Parse(Start, i), li), tz), al), or), pr)
  BY <1>1, <1>7, <1>8, <1>9
<1>11. QED
  BY <1>5, <1>10 DEF i, li, tz, al, or, pr, v

\* serialize.go:19-21, yaml.go:89-97: the line of the interval gives it.
LEMMA IntervalReads ==
    ASSUME NEW sec \in Nat
    PROVE  /\ StateFits(Start)
           /\ Parse(Start, IntervalLines(sec)) = ReadInterval(Start, sec)
<1>1. StateFits(Start)
  BY DEF StateFits, Start, NoFile, Modes
<1>2. CASE sec = 0
  <2>1. IntervalLines(sec) = <<>>
    BY <1>2 DEF IntervalLines
  <2>2. ReadInterval(Start, sec) = Start
    <3> DEFINE fc == [NoFile EXCEPT !.interval_sec = sec]
    <3>1. fc = NoFile
      BY <1>2 DEF NoFile
    <3>2. ReadInterval(Start, sec) = [Start EXCEPT !.fc = fc]
      BY DEF ReadInterval, Start
    <3> HIDE DEF fc
    <3>3. [Start EXCEPT !.fc = NoFile] = Start
      <4> DEFINE t == [Start EXCEPT !.fc = NoFile]
      <4>1. /\ DOMAIN t = {"ok", "mode", "base", "fresh", "fc"}
            /\ t.ok = TRUE /\ t.mode = "top" /\ t.base = 0 /\ t.fresh = FALSE
            /\ t.fc = NoFile
        BY DEF Start
      <4>2. t = [k \in DOMAIN t |-> t[k]]
        OBVIOUS
      <4> HIDE DEF t
      <4>3. t = Start
        BY <4>1, <4>2 DEF Start
      <4>4. QED
        BY <4>3 DEF t
    <3>4. QED
      BY <3>1, <3>2, <3>3
  <2>3. QED
    BY <1>1, <2>1, <2>2, ParseShort
<1>3. CASE sec > 0
  <2> DEFINE ln == Line(0, FALSE, "interval_sec", NoText, <<sec>>)
  <2>1. IntervalLines(sec) = <<ln>>
    BY <1>3 DEF IntervalLines, Number
  <2>2. ln.indent = 0 /\ ~ln.item /\ ln.key = "interval_sec" /\ ln.num = <<sec>>
        /\ ln.text = NoText
    BY DEF Line
  <2> HIDE DEF ln
  <2>3. NoText \notin RawControl
    BY BuiltinAssumption DEF Plain
  <2>4. ParseLine(Start, ln) = Top(Start, ln)
    BY <2>2, <2>3 DEF ParseLine, Start
  <2>5. Top(Start, ln) = [Start EXCEPT !.mode = "top", !.fc.interval_sec = sec]
    BY <2>2 DEF Top, Missing, Texted, Blocks
  <2>6. @ = ReadInterval(Start, sec)
    <3> DEFINE fc == [NoFile EXCEPT !.interval_sec = sec]
    <3>1. [Start EXCEPT !.mode = "top", !.fc.interval_sec = sec]
             = [Start EXCEPT !.mode = "top", !.fc = fc]
      BY DEF Start
    <3>2. ReadInterval(Start, sec) = [Start EXCEPT !.fc = fc]
      BY DEF ReadInterval, Start
    <3> HIDE DEF fc
    <3>3. QED
      BY <3>1, <3>2 DEF Start
  <2>7. QED
    BY <1>1, <2>1, <2>4, <2>5, <2>6, ParseShort
<1>4. QED
  BY <1>2, <1>3

\* yaml.go:161-180: what reads from a file and from the file with another interval.
LEMMA ReadAside ==
    ASSUME NEW fc, NEW sec \in Nat, FileTyped(fc)
    PROVE  Aside(sec,
                 Parse(Start, SerializeYAML(fc)),
                 Parse(Start, SerializeYAML([fc EXCEPT !.interval_sec = sec])))
<1> DEFINE gc == [fc EXCEPT !.interval_sec = sec]
           v == fc.interval_sec
           a == Parse(Start, IntervalLines(v))
           b == Parse(a, Scalar(0, "listen", fc.listen))
           c == Parse(b, Scalar(0, "tz", fc.tz))
           d == Parse(c, AlertsLines(fc.alerts))
           e == Parse(d, OrderLines(fc.provider_order))
           f == Parse(e, ProvidersLines(fc.providers))
           a1 == Parse(Start, IntervalLines(sec))
           b1 == Parse(a1, Scalar(0, "listen", fc.listen))
           c1 == Parse(b1, Scalar(0, "tz", fc.tz))
           d1 == Parse(c1, AlertsLines(fc.alerts))
           e1 == Parse(d1, OrderLines(fc.provider_order))
           f1 == Parse(e1, ProvidersLines(fc.providers))
<1>1. /\ gc.interval_sec = sec /\ gc.listen = fc.listen /\ gc.tz = fc.tz
      /\ gc.alerts = fc.alerts /\ gc.provider_order = fc.provider_order
      /\ gc.providers = fc.providers /\ FileTyped(gc)
  BY DEF FileTyped, NoFile
<1>2. Parse(Start, SerializeYAML(fc)) = f
  BY ReadInOrder
<1>3. Parse(Start, SerializeYAML(gc)) = f1
  <2> HIDE DEF gc
  <2>1. QED
    BY <1>1, ReadInOrder
<1>4. v \in Nat
  BY DEF FileTyped
<1>5. StateFits(a) /\ a1 = ReadInterval(a, sec)
  <2>1. a = ReadInterval(Start, v) /\ a1 = ReadInterval(Start, sec) /\ StateFits(Start)
    BY <1>4, IntervalReads
  <2>2. StateFits(ReadInterval(Start, v))
    BY <2>1, IntervalRead
  <2>3. ReadInterval(ReadInterval(Start, v), sec) = ReadInterval(Start, sec)
    BY <2>1 DEF ReadInterval, StateFits
  <2>4. QED
    BY <2>1, <2>2, <2>3
<1>6. fc.listen \in Words /\ fc.tz \in Words
  BY DEF FileTyped
<1>7. /\ Scalar(0, "listen", fc.listen) \in Seq(OtherLines)
      /\ Scalar(0, "tz", fc.tz) \in Seq(OtherLines)
  <2>1. Scalar(0, "listen", fc.listen) \in Seq(OtherLines)
    BY <1>6, ScalarTyped DEF LineKeys
  <2>2. Scalar(0, "tz", fc.tz) \in Seq(OtherLines)
    BY <1>6, ScalarTyped DEF LineKeys
  <2>3. QED
    BY <2>1, <2>2
<1>8. /\ AlertsLines(fc.alerts) \in Seq(OtherLines)
      /\ OrderLines(fc.provider_order) \in Seq(OtherLines)
      /\ ProvidersLines(fc.providers) \in Seq(OtherLines)
  BY AlertsTyped, OrderTyped, ProvidersTyped DEF FileTyped
<1> HIDE DEF a, a1
<1>9. StateFits(b) /\ b1 = ReadInterval(b, sec)
  BY <1>5, <1>7, ParseAside DEF Aside
<1> HIDE DEF b, b1
<1>10. StateFits(c) /\ c1 = ReadInterval(c, sec)
  BY <1>7, <1>9, ParseAside DEF Aside
<1> HIDE DEF c, c1
<1>11. StateFits(d) /\ d1 = ReadInterval(d, sec)
  BY <1>8, <1>10, ParseAside DEF Aside
<1> HIDE DEF d, d1
<1>12. StateFits(e) /\ e1 = ReadInterval(e, sec)
  BY <1>8, <1>11, ParseAside DEF Aside
<1> HIDE DEF e, e1
<1>13. StateFits(f) /\ f1 = ReadInterval(f, sec)
  BY <1>8, <1>12, ParseAside DEF Aside
<1> HIDE DEF f, f1
<1>14. QED
  BY <1>2, <1>3, <1>13 DEF Aside, gc

\* server.go:963-996: a text whose interval was edited reads as before, but for
\* the interval.
THEOREM EditReads ==
    ASSUME NEW fc, NEW sec \in Nat, FileTyped(fc)
    PROVE  LET old == Parsed(SerializeYAML(fc))
               new == Parsed(SerializeYAML([fc EXCEPT !.interval_sec = sec]))
           IN  /\ new.ok = old.ok
               /\ new.fc = [old.fc EXCEPT !.interval_sec = sec]
               /\ DOMAIN old.fc = DOMAIN NoFile
<1> DEFINE p == Parse(Start, SerializeYAML(fc))
           q == Parse(Start, SerializeYAML([fc EXCEPT !.interval_sec = sec]))
<1>1. StateFits(p) /\ q = ReadInterval(p, sec)
  BY ReadAside DEF Aside
<1>2. /\ Parsed(SerializeYAML(fc)) = Result(p)
      /\ Parsed(SerializeYAML([fc EXCEPT !.interval_sec = sec])) = Result(q)
  BY DEF Parsed
<1> HIDE DEF p, q
<1>3. /\ q.ok = p.ok /\ q.mode = p.mode /\ q.fresh = p.fresh
      /\ q.fc = [p.fc EXCEPT !.interval_sec = sec]
      /\ q.fc.providers = p.fc.providers
  BY <1>1 DEF StateFits, ReadInterval
<1>4. Result(q).ok = Result(p).ok
  BY <1>3 DEF Result
<1>5. Result(q).fc = q.fc /\ Result(p).fc = p.fc
  BY DEF Result
<1>6. DOMAIN p.fc = DOMAIN NoFile
  BY <1>1 DEF StateFits, NoFile
<1>7. QED
  BY <1>2, <1>3, <1>4, <1>5, <1>6

\* Where the parser is, in a text with no error whose lists are at column 0: past
\* the first line of the block it is in, and before it.
At(mode, fc) == [ok |-> TRUE, mode |-> mode, base |-> 0, fresh |-> FALSE, fc |-> fc]
Opened(mode, fc) == [ok |-> TRUE, mode |-> mode, base |-> 0, fresh |-> TRUE, fc |-> fc]

\* A state with these fields is one of the two.
LEMMA IsAt ==
    ASSUME NEW p, DOMAIN p = {"ok", "mode", "base", "fresh", "fc"},
           p = [k \in DOMAIN p |-> p[k]], p.ok = TRUE, p.base = 0
    PROVE  /\ p.fresh = FALSE => p = At(p.mode, p.fc)
           /\ p.fresh = TRUE => p = Opened(p.mode, p.fc)
  BY DEF At, Opened

\* serialize.go:83-94, yaml.go:234-241: a plain text reads back.
LEMMA PlainReads ==
    /\ NoText \in Plain
    /\ \A t \in Plain : t \notin RawControl /\ ReadText(t) = t /\ t \in Words
  BY BuiltinAssumption DEF Plain, ReadText

\* yaml.go:77-82: a key at column 0 ends the block that was open.
LEMMA TopReads ==
    ASSUME NEW p, NEW ln, p.ok, p.mode \in {"top", "alerts", "provider_order"}, ~p.fresh,
           ln.indent = 0, ~ln.item, ln.text \notin RawControl
    PROVE  ParseLine(p, ln) = Top(p, ln)
<1>1. CASE p.mode = "top"
  BY <1>1 DEF ParseLine
<1>2. CASE p.mode = "alerts"
  BY <1>2 DEF ParseLine, AlertStep
<1>3. CASE p.mode = "provider_order"
  BY <1>3 DEF ParseLine, OrderStep
<1>4. QED
  BY <1>1, <1>2, <1>3

\* yaml.go:99-115: a text.
LEMMA ScalarReads ==
    ASSUME NEW key \in {"listen", "tz"}, NEW fc, NEW t \in Plain \ {NoText}
    PROVE  Parse(At("top", fc), Scalar(0, key, t))
             = At("top", [fc EXCEPT ![key] = t])
<1> DEFINE ln == Line(0, FALSE, key, ReadText(t), Missing)
           p == At("top", fc)
<1>1. Scalar(0, key, t) = <<ln>>
  BY DEF Scalar
<1>2. /\ ln.indent = 0 /\ ln.item = FALSE /\ ln.key = key /\ ln.text = t
      /\ ln.num = Missing /\ t \notin RawControl
  BY PlainReads DEF Line
<1> HIDE DEF ln
<1>2a. Parse(p, <<ln>>) = ParseLine(p, ln)
  BY ParseShort
<1>3. ParseLine(p, ln) = Top(p, ln)
  <2>1. p.ok /\ p.mode = "top" /\ ~p.fresh
    BY DEF At, Opened
  <2> HIDE DEF p
  <2>2. QED
    BY <1>2, <2>1, TopReads
<1>4. Top(p, ln) = [p EXCEPT !.mode = "top", !.fc[key] = t]
  BY <1>2 DEF Top, Texted, Blocks, HasValue
<1>5. [p EXCEPT !.mode = "top", !.fc[key] = t]
       = At("top", [fc EXCEPT ![key] = t])
  <2> DEFINE q == [p EXCEPT !.mode = "top", !.fc[key] = t]
  <2>1. /\ DOMAIN q = {"ok", "mode", "base", "fresh", "fc"} /\ q.ok = TRUE /\ q.base = 0
        /\ q.mode = "top" /\ q.fresh = FALSE
    BY DEF At, Opened
  <2>2. q.fc = [fc EXCEPT ![key] = t]
    BY DEF At, Opened
  <2>3. q = [k \in DOMAIN q |-> q[k]]
    OBVIOUS
  <2> HIDE DEF q
  <2>4. q = At("top", [fc EXCEPT ![key] = t])
    BY <2>1, <2>2, <2>3, IsAt
  <2>5. QED
    BY <2>4 DEF q
<1>6. QED
  BY <1>1, <1>2a, <1>3, <1>4, <1>5

\* yaml.go:117-153: the line that opens a block.
LEMMA HeaderReads ==
    ASSUME NEW m \in {"top", "alerts", "provider_order"}, NEW fc, NEW key \in Blocks
    PROVE  Parse(At(m, fc), Header(0, key))
             = Opened(key, IF key = "alerts" THEN fc ELSE [fc EXCEPT ![key] = <<>>])
<1> DEFINE ln == Line(0, FALSE, key, NoText, Missing)
           p == At(m, fc)
<1>1. Header(0, key) = <<ln>>
  BY DEF Header
<1>2. /\ ln.indent = 0 /\ ln.item = FALSE /\ ln.key = key /\ ln.text = NoText
      /\ ln.num = Missing /\ ln.text \notin RawControl
  BY PlainReads DEF Line
<1> HIDE DEF ln
<1>2a. Parse(p, <<ln>>) = ParseLine(p, ln)
  BY ParseShort
<1>3. ParseLine(p, ln) = Top(p, ln)
  <2>1. p.ok /\ p.mode \in {"top", "alerts", "provider_order"} /\ ~p.fresh
    BY DEF At, Opened
  <2> HIDE DEF p
  <2>2. QED
    BY <1>2, <2>1, TopReads
<1>4. ~HasValue(ln)
  BY <1>2 DEF HasValue
<1>5. CASE key = "alerts"
  <2>1. Top(p, ln) = [p EXCEPT !.mode = "alerts", !.fresh = TRUE]
    BY <1>2, <1>4, <1>5 DEF Top, Texted, Blocks
  <2>2. [p EXCEPT !.mode = "alerts", !.fresh = TRUE]
         = Opened("alerts", fc)
    <3> DEFINE q == [p EXCEPT !.mode = "alerts", !.fresh = TRUE]
    <3>1. /\ DOMAIN q = {"ok", "mode", "base", "fresh", "fc"} /\ q.ok = TRUE /\ q.base = 0
          /\ q.mode = "alerts" /\ q.fresh = TRUE
      BY DEF At, Opened
    <3>2. q.fc = fc
      BY DEF At, Opened
    <3>3. q = [k \in DOMAIN q |-> q[k]]
      OBVIOUS
    <3> HIDE DEF q
    <3>4. q = Opened("alerts", fc)
      BY <3>1, <3>2, <3>3, IsAt
    <3>5. QED
      BY <3>4 DEF q
  <2>3. QED
    BY <1>1, <1>2a, <1>3, <1>5, <2>1, <2>2
<1>6. CASE key # "alerts"
  <2>1. Top(p, ln) = [p EXCEPT !.mode = key, !.fresh = TRUE, !.fc[key] = <<>>]
    BY <1>2, <1>4, <1>6 DEF Top, Texted, Blocks
  <2>2. [p EXCEPT !.mode = key, !.fresh = TRUE, !.fc[key] = <<>>]
         = Opened(key, [fc EXCEPT ![key] = <<>>])
    <3> DEFINE q == [p EXCEPT !.mode = key, !.fresh = TRUE, !.fc[key] = <<>>]
    <3>1. /\ DOMAIN q = {"ok", "mode", "base", "fresh", "fc"} /\ q.ok = TRUE /\ q.base = 0
          /\ q.mode = key /\ q.fresh = TRUE
      BY DEF At, Opened
    <3>2. q.fc = [fc EXCEPT ![key] = <<>>]
      BY DEF At, Opened
    <3>3. q = [k \in DOMAIN q |-> q[k]]
      OBVIOUS
    <3> HIDE DEF q
    <3>4. q = Opened(key, [fc EXCEPT ![key] = <<>>])
      BY <3>1, <3>2, <3>3, IsAt
    <3>5. QED
      BY <3>4 DEF q
  <2>3. QED
    BY <1>1, <1>2a, <1>3, <1>6, <2>1, <2>2
<1>7. QED
  BY <1>5, <1>6

\* A file with other thresholds; one threshold.
Alerted(fc, alerts) == [fc EXCEPT !.alerts = alerts]
One(key, v) == [k \in {key} |-> v]

\* yaml.go:261-279: a threshold.
LEMMA AlertReads ==
    ASSUME NEW key \in AlertKeys, NEW v, NEW fc, NEW alerts,
           fc.alerts = alerts, NEW p \in {At("alerts", fc), Opened("alerts", fc)}
    PROVE  Parse(p, Number(2, key, v))
             = At("alerts", Alerted(fc, Layered(alerts, One(key, v))))
<1> DEFINE ln == Line(2, FALSE, key, NoText, <<v>>)
           new == One(key, v)
<1>1. Number(2, key, v) = <<ln>>
  BY DEF Number
<1>2. /\ ln.indent = 2 /\ ln.item = FALSE /\ ln.key = key /\ ln.text = NoText
      /\ ln.num = <<v>> /\ ln.text \notin RawControl
  BY PlainReads DEF Line
<1> HIDE DEF ln
<1>2a. Parse(p, <<ln>>) = ParseLine(p, ln)
  BY ParseShort
<1>3. ParseLine(p, ln) = AlertStep(p, ln)
  BY <1>2 DEF ParseLine, At, Opened
<1>4. <<v>> # Missing /\ ln.num[1] = v
  BY <1>2 DEF Missing
<1>5. AlertStep(p, ln) = [p EXCEPT !.fresh = FALSE, !.fc.alerts = Layered(@, new)]
  <2> HIDE DEF new
  <2>1. QED
    BY <1>2, <1>4 DEF AlertStep, One, new
<1>6. [p EXCEPT !.fresh = FALSE, !.fc.alerts = Layered(@, new)]
       = At("alerts", Alerted(fc, Layered(alerts, new)))
  <2> DEFINE q == [p EXCEPT !.fresh = FALSE, !.fc.alerts = Layered(@, new)]
  <2>1. /\ DOMAIN q = {"ok", "mode", "base", "fresh", "fc"} /\ q.ok = TRUE /\ q.base = 0
        /\ q.mode = "alerts" /\ q.fresh = FALSE
    BY DEF At, Opened
  <2>2. q.fc = Alerted(fc, Layered(alerts, new))
    BY DEF At, Opened, Alerted
  <2>3. q = [k \in DOMAIN q |-> q[k]]
    OBVIOUS
  <2> HIDE DEF q
  <2>4. q = At("alerts", Alerted(fc, Layered(alerts, new)))
    BY <2>1, <2>2, <2>3, IsAt
  <2>5. QED
    BY <2>4 DEF q
<1>7. QED
  BY <1>1, <1>2a, <1>3, <1>5, <1>6 DEF new

\* A file with one more provider: the one the parser has in hand.
Holding(fc, provs, prov) == [fc EXCEPT !.providers = Append(provs, prov)]

\* What a sequence with one more element is.
LEMMA AppendIs ==
    ASSUME NEW S, NEW s \in Seq(S), NEW x
    PROVE  Append(s, x) = [i \in 1..(Len(s) + 1) |-> IF i <= Len(s) THEN s[i] ELSE x]
<1> DEFINE T == S \cup {x}
           t == Append(s, x)
<1>1. s \in Seq(T) /\ x \in T
  OBVIOUS
<1> HIDE DEF T
<1>2. /\ t \in Seq(T) /\ Len(t) = Len(s) + 1 /\ Len(s) \in Nat
      /\ \A i \in 1..Len(s) : t[i] = s[i]
      /\ t[Len(s) + 1] = x
  BY <1>1, AppendProperties
<1> HIDE DEF t
<1>3. DOMAIN t = 1..(Len(s) + 1) /\ t = [i \in DOMAIN t |-> t[i]]
  BY <1>2
<1>4. t = [i \in 1..(Len(s) + 1) |-> IF i <= Len(s) THEN s[i] ELSE x]
  BY <1>2, <1>3
<1>5. QED
  BY <1>4 DEF t

\* yaml.go:322-366: the provider in hand, and another in its place.
LEMMA InHand ==
    ASSUME NEW m, NEW fc, "providers" \in DOMAIN fc, NEW provs \in Seq(ProviderVals), NEW prov,
           NEW new
    PROVE  LET gc == Holding(fc, provs, prov)
               hc == Holding(fc, provs, new)
           IN  /\ Last(At(m, gc)) = prov /\ Last(Opened(m, gc)) = prov
               /\ WithLast(At(m, gc), new) = At(m, hc)
               /\ WithLast(Opened(m, gc), new) = Opened(m, hc)
<1> DEFINE gc == Holding(fc, provs, prov)
           hc == Holding(fc, provs, new)
           N == Len(provs)
<1>2. DOMAIN gc = DOMAIN fc /\ gc.providers = Append(provs, prov)
  BY DEF Holding
<1>3. N \in Nat /\ Len(Append(provs, prov)) = N + 1 /\ Append(provs, prov)[N + 1] = prov
  <2> DEFINE T == ProviderVals \cup {prov}
  <2>1. provs \in Seq(T) /\ prov \in T
    OBVIOUS
  <2> HIDE DEF T
  <2>2. QED
    BY <2>1, AppendProperties
<1>4. [Append(provs, prov) EXCEPT ![N + 1] = new] = Append(provs, new)
  <2>1. \A x : Append(provs, x) = [i \in 1..(N + 1) |-> IF i <= N THEN provs[i] ELSE x]
    BY AppendIs
  <2> HIDE DEF N
  <2>2. QED
    BY <1>3, <2>1
<1>5. [gc EXCEPT !.providers[N + 1] = new] = hc
  BY <1>2, <1>4 DEF Holding
<1> HIDE DEF gc, hc
<1>6. ASSUME NEW p \in {At(m, gc), Opened(m, gc)}
      PROVE  Last(p) = prov /\ WithLast(p, new) = IF p.fresh THEN Opened(m, hc) ELSE At(m, hc)
  <2>0. p.fc = gc /\ p.ok = TRUE /\ p.base = 0 /\ p.mode = m /\ p.fresh \in BOOLEAN
        /\ DOMAIN p = {"ok", "mode", "base", "fresh", "fc"}
    <3>1. CASE p = At(m, gc)
      BY <3>1 DEF At
    <3>2. CASE p = Opened(m, gc)
      BY <3>2 DEF Opened
    <3>3. QED
      BY <3>1, <3>2
  <2> DEFINE q == WithLast(p, new)
  <2>1. Len(p.fc.providers) = N + 1
    BY <1>2, <1>3, <2>0
  <2>2. q = [p EXCEPT !.fc.providers[N + 1] = new]
    BY <2>1 DEF WithLast
  <2>3. q.fc = hc
    BY <1>5, <2>0, <2>2
  <2>4. /\ DOMAIN q = {"ok", "mode", "base", "fresh", "fc"}
        /\ q.ok = TRUE /\ q.base = 0 /\ q.mode = m /\ q.fresh = p.fresh
    BY <2>0, <2>2
  <2>5. q = [k \in DOMAIN q |-> q[k]]
    BY <2>2
  <2> HIDE DEF q
  <2>6. q = IF p.fresh THEN Opened(m, hc) ELSE At(m, hc)
    BY <2>0, <2>3, <2>4, <2>5, IsAt
  <2>7. Last(p) = prov
    BY <1>2, <1>3, <2>0 DEF Last
  <2>8. QED
    BY <2>6, <2>7 DEF q
<1>7. At(m, gc).fresh = FALSE /\ Opened(m, gc).fresh = TRUE
  BY DEF At, Opened
<1>8. QED
  BY <1>6, <1>7 DEF gc, hc

\* yaml.go:322-326: the provider in hand is the last.
LEMMA LastIs ==
    ASSUME NEW m, NEW fc, "providers" \in DOMAIN fc, NEW provs \in Seq(ProviderVals), NEW prov
    PROVE  /\ Last(At(m, Holding(fc, provs, prov))) = prov
           /\ Last(Opened(m, Holding(fc, provs, prov))) = prov
  BY InHand

\* yaml.go:77-159: the parser moves on from one place to another.
LEMMA Moves ==
    ASSUME NEW m, NEW m1, NEW fc
    PROVE  /\ [At(m, fc) EXCEPT !.mode = m1] = At(m1, fc)
           /\ [At(m, fc) EXCEPT !.mode = m1, !.fresh = TRUE] = Opened(m1, fc)
           /\ [At(m, fc) EXCEPT !.fresh = FALSE] = At(m, fc)
           /\ [Opened(m, fc) EXCEPT !.fresh = FALSE] = At(m, fc)
<1> DEFINE a == [At(m, fc) EXCEPT !.mode = m1]
           b == [At(m, fc) EXCEPT !.mode = m1, !.fresh = TRUE]
           c == [At(m, fc) EXCEPT !.fresh = FALSE]
           d == [Opened(m, fc) EXCEPT !.fresh = FALSE]
           D == {"ok", "mode", "base", "fresh", "fc"}
<1>1. /\ DOMAIN a = D /\ a.ok = TRUE /\ a.base = 0 /\ a.mode = m1 /\ a.fresh = FALSE /\ a.fc = fc
      /\ DOMAIN b = D /\ b.ok = TRUE /\ b.base = 0 /\ b.mode = m1 /\ b.fresh = TRUE /\ b.fc = fc
  BY DEF At
<1>2. /\ DOMAIN c = D /\ c.ok = TRUE /\ c.base = 0 /\ c.mode = m /\ c.fresh = FALSE /\ c.fc = fc
      /\ DOMAIN d = D /\ d.ok = TRUE /\ d.base = 0 /\ d.mode = m /\ d.fresh = FALSE /\ d.fc = fc
  BY DEF At, Opened
<1>3. /\ a = [k \in DOMAIN a |-> a[k]] /\ b = [k \in DOMAIN b |-> b[k]]
      /\ c = [k \in DOMAIN c |-> c[k]] /\ d = [k \in DOMAIN d |-> d[k]]
  OBVIOUS
<1> HIDE DEF a, b, c, d
<1>4. a = At(m1, fc)
  BY <1>1, <1>3, IsAt
<1>5. b = Opened(m1, fc)
  BY <1>1, <1>3, IsAt
<1>6. c = At(m, fc)
  BY <1>2, <1>3, IsAt
<1>7. d = At(m, fc)
  BY <1>2, <1>3, IsAt
<1>8. QED
  BY <1>4, <1>5, <1>6, <1>7 DEF a, b, c, d

\* yaml.go:338-363: a key of the provider in hand.
LEMMA FieldReads ==
    ASSUME NEW fc, NEW ln, ln.indent = 2, ln.key # "plan", ln.text \notin RawControl
    PROVE  Parse(At("provider", fc), <<ln>>) = ProviderField(At("provider", fc), ln)
<1> DEFINE p == At("provider", fc)
<1>1. p.ok /\ p.mode = "provider" /\ p.base = 0
  BY DEF At
<1>2. [p EXCEPT !.mode = "provider"] = p
  <2>1. p = [k \in DOMAIN p |-> p[k]]
    BY DEF At
  <2> HIDE DEF p
  <2>2. QED
    BY <1>1, <2>1
<1> HIDE DEF p
<1>3. ParseLine(p, ln) = ProviderStep(p, ln)
  BY <1>1 DEF ParseLine
<1>4. ProviderStep(p, ln) = ProviderField(p, ln)
  BY <1>1, <1>2 DEF ProviderStep
<1>5. QED
  BY <1>3, <1>4, ParseShort DEF p

\* yaml.go:427-460: what each key sets.
\* A provider that is on when another is.
WithEnabled(prov, p) == [prov EXCEPT !.enabled = p.enabled]

\* yaml.go:431-436: whether the provider is on.
LEMMA EnabledReads ==
    ASSUME NEW fc, "providers" \in DOMAIN fc, NEW provs \in Seq(ProviderVals),
           NEW prov \in ProviderVals, prov.enabled, NEW p \in ProviderVals
    PROVE  Parse(At("provider", Holding(fc, provs, prov)),
                 IF p.enabled THEN <<>> ELSE Truth(2, "enabled", FALSE))
             = At("provider", Holding(fc, provs, WithEnabled(prov, p)))
<1> DEFINE s == At("provider", Holding(fc, provs, prov))
           ln == Line(2, FALSE, "enabled", NoText, <<0>>)
<1>0. p.enabled \in BOOLEAN
  BY DEF ProviderVals
<1>1. CASE p.enabled
  <2>1. WithEnabled(prov, p) = prov
    BY <1>0, <1>1 DEF ProviderVals, WithEnabled
  <2>2. QED
    BY <1>1, <2>1, ParseShort
<1>2. CASE ~p.enabled
  <2>1. Truth(2, "enabled", FALSE) = <<ln>>
    BY DEF Truth, Number
  <2>2. ln.indent = 2 /\ ln.key = "enabled" /\ ln.num = <<0>> /\ ln.text \notin RawControl
    BY PlainReads DEF Line
  <2> HIDE DEF ln
  <2>3. Parse(s, <<ln>>) = ProviderField(s, ln)
    BY <2>2, FieldReads
  <2>4. ProviderField(s, ln) = WithLast(s, [Last(s) EXCEPT !.enabled = FALSE])
    <3> HIDE DEF s
    <3>1. (ln.num = <<1>>) = FALSE /\ ln.num \in {<<0>>, <<1>>}
      BY <2>2
    <3>2. QED
      BY <2>2, <3>1 DEF ProviderField
  <2>5. Last(s) = prov
    BY LastIs
  <2>6. [prov EXCEPT !.enabled = FALSE] = WithEnabled(prov, p)
    BY <1>0, <1>2 DEF WithEnabled
  <2>7. WithLast(s, [prov EXCEPT !.enabled = FALSE])
          = At("provider", Holding(fc, provs, [prov EXCEPT !.enabled = FALSE]))
    BY InHand
  <2>8. QED
    BY <1>2, <2>1, <2>3, <2>4, <2>5, <2>6, <2>7
<1>3. QED
  BY <1>1, <1>2

\* yaml.go:437-438: its label.
LEMMA LabelReads ==
    ASSUME NEW fc, "providers" \in DOMAIN fc, NEW provs \in Seq(ProviderVals),
           NEW prov \in ProviderVals, prov.label = NoText, NEW t \in Plain
    PROVE  Parse(At("provider", Holding(fc, provs, prov)), Scalar(2, "label", t))
             = At("provider", Holding(fc, provs, [prov EXCEPT !.label = t]))
<1> DEFINE s == At("provider", Holding(fc, provs, prov))
           ln == Line(2, FALSE, "label", ReadText(t), Missing)
<1>1. CASE t = NoText
  <2>1. [prov EXCEPT !.label = t] = prov
    BY <1>1 DEF ProviderVals
  <2>2. Scalar(2, "label", t) = <<>>
    BY <1>1 DEF Scalar
  <2>3. QED
    BY <2>1, <2>2, ParseShort
<1>2. CASE t # NoText
  <2>1. Scalar(2, "label", t) = <<ln>>
    BY <1>2 DEF Scalar
  <2>2. ln.indent = 2 /\ ln.key = "label" /\ ln.text = t /\ ln.text \notin RawControl
    BY PlainReads DEF Line
  <2> HIDE DEF ln
  <2>3. Parse(s, <<ln>>) = ProviderField(s, ln)
    BY <2>2, FieldReads
  <2>4. ProviderField(s, ln) = WithLast(s, [Last(s) EXCEPT !.label = t])
    <3> HIDE DEF s
    <3>1. QED
      BY <2>2 DEF ProviderField
  <2>5. Last(s) = prov
    BY LastIs
  <2>6. WithLast(s, [prov EXCEPT !.label = t])
          = At("provider", Holding(fc, provs, [prov EXCEPT !.label = t]))
    BY InHand
  <2>7. QED
    BY <2>1, <2>3, <2>4, <2>5, <2>6
<1>3. QED
  BY <1>1, <1>2

\* yaml.go:439-444: the variable its key is in.
LEMMA KeyEnvReads ==
    ASSUME NEW fc, "providers" \in DOMAIN fc, NEW provs \in Seq(ProviderVals),
           NEW prov \in ProviderVals, prov.keyEnv = NoText, NEW t \in Plain \ KeyShaped
    PROVE  Parse(At("provider", Holding(fc, provs, prov)), Scalar(2, "key_env", t))
             = At("provider", Holding(fc, provs, [prov EXCEPT !.keyEnv = t]))
<1> DEFINE s == At("provider", Holding(fc, provs, prov))
           ln == Line(2, FALSE, "key_env", ReadText(t), Missing)
<1>1. CASE t = NoText
  <2>1. [prov EXCEPT !.keyEnv = t] = prov
    BY <1>1 DEF ProviderVals
  <2>2. Scalar(2, "key_env", t) = <<>>
    BY <1>1 DEF Scalar
  <2>3. QED
    BY <2>1, <2>2, ParseShort
<1>2. CASE t # NoText
  <2>1. Scalar(2, "key_env", t) = <<ln>>
    BY <1>2 DEF Scalar
  <2>2. ln.indent = 2 /\ ln.key = "key_env" /\ ln.text = t /\ ln.text \notin RawControl
    BY PlainReads DEF Line
  <2> HIDE DEF ln
  <2>3. Parse(s, <<ln>>) = ProviderField(s, ln)
    BY <2>2, FieldReads
  <2>4. ProviderField(s, ln) = WithLast(s, [Last(s) EXCEPT !.keyEnv = t])
    <3> HIDE DEF s
    <3>1. QED
      BY <2>2 DEF ProviderField
  <2>5. Last(s) = prov
    BY LastIs
  <2>6. WithLast(s, [prov EXCEPT !.keyEnv = t])
          = At("provider", Holding(fc, provs, [prov EXCEPT !.keyEnv = t]))
    BY InHand
  <2>7. QED
    BY <2>1, <2>3, <2>4, <2>5, <2>6
<1>3. QED
  BY <1>1, <1>2

\* A provider with the probe of another.
WithProbe(prov, p) == [prov EXCEPT !.probe = p.probe, !.hasProbe = p.hasProbe]

\* yaml.go:445-451: whether it is probed, and whether that was said.
LEMMA ProbeReads ==
    ASSUME NEW fc, "providers" \in DOMAIN fc, NEW provs \in Seq(ProviderVals),
           NEW prov \in ProviderVals, ~prov.probe, ~prov.hasProbe, NEW p \in ProviderVals,
           p.probe => p.hasProbe
    PROVE  Parse(At("provider", Holding(fc, provs, prov)),
                 IF p.hasProbe THEN Truth(2, "probe", p.probe) ELSE <<>>)
             = At("provider", Holding(fc, provs, WithProbe(prov, p)))
<1> DEFINE s == At("provider", Holding(fc, provs, prov))
           v == IF p.probe THEN 1 ELSE 0
           ln == Line(2, FALSE, "probe", NoText, <<v>>)
           new == WithProbe(prov, p)
<1>0. p.probe \in BOOLEAN /\ p.hasProbe \in BOOLEAN
  BY DEF ProviderVals
<1>1. CASE ~p.hasProbe
  <2>1. new = prov
    BY <1>0, <1>1 DEF ProviderVals, WithProbe
  <2> HIDE DEF new
  <2>2. QED
    BY <1>1, <2>1, ParseShort DEF new
<1>2. CASE p.hasProbe
  <2>1. Truth(2, "probe", p.probe) = <<ln>>
    BY DEF Truth, Number
  <2>2. ln.indent = 2 /\ ln.key = "probe" /\ ln.num = <<v>> /\ ln.text \notin RawControl
    BY PlainReads DEF Line
  <2> HIDE DEF ln
  <2>3. Parse(s, <<ln>>) = ProviderField(s, ln)
    BY <2>2, FieldReads
  <2>4. ProviderField(s, ln)
          = WithLast(s, [Last(s) EXCEPT !.probe = p.probe, !.hasProbe = TRUE])
    <3> HIDE DEF s
    <3>1. (ln.num = <<1>>) = p.probe /\ ln.num \in {<<0>>, <<1>>}
      BY <1>0, <2>2
    <3> HIDE DEF v
    <3>2. QED
      BY <2>2, <3>1 DEF ProviderField
  <2>5. Last(s) = prov
    BY LastIs
  <2>6. [prov EXCEPT !.probe = p.probe, !.hasProbe = TRUE] = new
    BY <1>0, <1>2 DEF WithProbe
  <2> HIDE DEF new
  <2>7. WithLast(s, new) = At("provider", Holding(fc, provs, new))
    BY InHand
  <2>8. QED
    BY <1>2, <2>1, <2>3, <2>4, <2>5, <2>6, <2>7 DEF new
<1>3. QED
  BY <1>1, <1>2

WithPlan(prov, plan) == [prov EXCEPT !.plan = <<plan>>]

\* The parser in the block of a plan, of which it has read so much.
InPlan(fc, provs, prov, plan) ==
    {At("plan", Holding(fc, provs, WithPlan(prov, plan))),
     Opened("plan", Holding(fc, provs, WithPlan(prov, plan)))}

\* yaml.go:371-423: the plan in hand, and another in its place.
LEMMA PlanIs ==
    ASSUME NEW fc, "providers" \in DOMAIN fc, NEW provs \in Seq(ProviderVals),
           NEW prov, "plan" \in DOMAIN prov, NEW plan, NEW s \in InPlan(fc, provs, prov, plan)
    PROVE  /\ Last(s) = WithPlan(prov, plan) /\ Last(s).plan[1] = plan
           /\ s.base = 0
<1> DEFINE old == WithPlan(prov, plan)
           gc == Holding(fc, provs, old)
<1>1. s.base = 0
  BY DEF InPlan, At, Opened
<1>2. Last(s) = old
  <2> HIDE DEF old
  <2>1. Last(At("plan", gc)) = old /\ Last(Opened("plan", gc)) = old
    BY LastIs
  <2>2. QED
    BY <2>1 DEF InPlan, old
<1>3. old.plan = <<plan>>
  BY DEF WithPlan
<1>4. QED
  BY <1>1, <1>2, <1>3

\* yaml.go:385-419: a key of a plan changes the plan in hand.
LEMMA PlanInHand ==
    ASSUME NEW fc, "providers" \in DOMAIN fc, NEW provs \in Seq(ProviderVals),
           NEW prov, "plan" \in DOMAIN prov, NEW plan, NEW s \in InPlan(fc, provs, prov, plan),
           NEW new
    PROVE  WithLast([s EXCEPT !.fresh = FALSE], [Last(s) EXCEPT !.plan = <<new>>])
             = At("plan", Holding(fc, provs, WithPlan(prov, new)))
<1> DEFINE old == WithPlan(prov, plan)
           gc == Holding(fc, provs, old)
           x == [Last(s) EXCEPT !.plan = <<new>>]
<1>1. [s EXCEPT !.fresh = FALSE] = At("plan", gc)
  <2>1. CASE s = At("plan", gc)
    BY <2>1, Moves
  <2>2. CASE s = Opened("plan", gc)
    BY <2>2, Moves
  <2>3. QED
    BY <2>1, <2>2 DEF InPlan
<1>2. x = WithPlan(prov, new)
  <2>1. Last(s) = old
    BY PlanIs
  <2>2. [old EXCEPT !.plan = <<new>>] = WithPlan(prov, new)
    BY DEF WithPlan
  <2>3. QED
    BY <2>1, <2>2
<1> HIDE DEF x, old
<1>3. WithLast(At("plan", gc), x) = At("plan", Holding(fc, provs, x))
  BY InHand
<1>4. QED
  BY <1>1, <1>2, <1>3 DEF x

\* yaml.go:385-419: a key of the plan in hand.
LEMMA PlanFieldReads ==
    ASSUME NEW fc, NEW provs, NEW prov, NEW plan, NEW s \in InPlan(fc, provs, prov, plan),
           NEW ln, ln.text \notin RawControl
    PROVE  Parse(s, <<ln>>) = PlanStep(s, ln)
<1>1. s.mode = "plan" /\ s.ok
  BY DEF InPlan, At, Opened
<1>2. QED
  BY <1>1, ParseShort DEF ParseLine

\* yaml.go:393-398: the cost of a plan.
LEMMA CostReads ==
    ASSUME NEW fc, "providers" \in DOMAIN fc, NEW provs \in Seq(ProviderVals),
           NEW prov, "plan" \in DOMAIN prov, NEW pl \in PlanVals, pl.cost = 0, NEW v \in Int,
           NEW s \in InPlan(fc, provs, prov, pl)
    PROVE  Parse(s, Amount(4, "cost", v)) \in InPlan(fc, provs, prov, [pl EXCEPT !.cost = v])
<1> DEFINE new == [pl EXCEPT !.cost = v]
           ln == Line(4, FALSE, "cost", NoText, <<v>>)
<1>1. CASE v = 0
  <2>1. new = pl
    BY <1>1 DEF PlanVals
  <2>2. Amount(4, "cost", v) = <<>>
    BY <1>1 DEF Amount
  <2>3. Parse(s, <<>>) = s
    BY ParseShort
  <2> HIDE DEF new
  <2>4. QED
    BY <2>1, <2>2, <2>3 DEF new
<1>2. CASE v # 0
  <2>1. Amount(4, "cost", v) = <<ln>>
    BY <1>2 DEF Amount, Number
  <2>2. ln.indent = 4 /\ ln.key = "cost" /\ ln.text \notin RawControl
    BY PlainReads DEF Line
  <2>3. ln.num = <<v>> /\ ln.num # Missing /\ ln.num[1] = v
    BY <1>2, PlainReads DEF Line, Missing
  <2> HIDE DEF ln
  <2>4. Parse(s, <<ln>>) = PlanStep(s, ln)
    BY <2>2, PlanFieldReads
  <2>5. Last(s).plan[1] = pl /\ s.base = 0
    BY PlanIs
  <2>6. PlanStep(s, ln) = WithLast([s EXCEPT !.fresh = FALSE],
                                   [Last(s) EXCEPT !.plan = <<[Last(s).plan[1] EXCEPT !.cost = v]>>])
    BY <2>2, <2>3, <2>5 DEF PlanStep
  <2>7. @ = WithLast([s EXCEPT !.fresh = FALSE], [Last(s) EXCEPT !.plan = <<new>>])
    BY <2>5
  <2>8. @ = At("plan", Holding(fc, provs, WithPlan(prov, new)))
    <3> HIDE DEF new
    <3>1. QED
      BY PlanInHand
  <2>9. QED
    BY <2>1, <2>4, <2>6, <2>7, <2>8 DEF InPlan
<1>3. QED
  BY <1>1, <1>2

\* yaml.go:399-403: its currency.
LEMMA CurrencyReads ==
    ASSUME NEW fc, "providers" \in DOMAIN fc, NEW provs \in Seq(ProviderVals),
           NEW prov, "plan" \in DOMAIN prov, NEW pl \in PlanVals, pl.currency = NoText,
           NEW v \in Plain,
           NEW s \in InPlan(fc, provs, prov, pl)
    PROVE  Parse(s, Scalar(4, "currency", v)) \in InPlan(fc, provs, prov, [pl EXCEPT !.currency = v])
<1> DEFINE new == [pl EXCEPT !.currency = v]
           ln == Line(4, FALSE, "currency", ReadText(v), Missing)
<1>1. CASE v = NoText
  <2>1. new = pl
    BY <1>1 DEF PlanVals
  <2>2. Scalar(4, "currency", v) = <<>>
    BY <1>1 DEF Scalar
  <2>3. Parse(s, <<>>) = s
    BY ParseShort
  <2> HIDE DEF new
  <2>4. QED
    BY <2>1, <2>2, <2>3 DEF new
<1>2. CASE v # NoText
  <2>1. Scalar(4, "currency", v) = <<ln>>
    BY <1>2 DEF Scalar
  <2>2. ln.indent = 4 /\ ln.key = "currency" /\ ln.text \notin RawControl
    BY PlainReads DEF Line
  <2>3. ln.text = v /\ HasValue(ln)
    BY <1>2, PlainReads DEF Line, HasValue
  <2> HIDE DEF ln
  <2>4. Parse(s, <<ln>>) = PlanStep(s, ln)
    BY <2>2, PlanFieldReads
  <2>5. Last(s).plan[1] = pl /\ s.base = 0
    BY PlanIs
  <2>6. PlanStep(s, ln) = WithLast([s EXCEPT !.fresh = FALSE],
                                   [Last(s) EXCEPT !.plan = <<[Last(s).plan[1] EXCEPT !.currency = v]>>])
    BY <2>2, <2>3, <2>5 DEF PlanStep
  <2>7. @ = WithLast([s EXCEPT !.fresh = FALSE], [Last(s) EXCEPT !.plan = <<new>>])
    BY <2>5
  <2>8. @ = At("plan", Holding(fc, provs, WithPlan(prov, new)))
    <3> HIDE DEF new
    <3>1. QED
      BY PlanInHand
  <2>9. QED
    BY <2>1, <2>4, <2>6, <2>7, <2>8 DEF InPlan
<1>3. QED
  BY <1>1, <1>2

\* yaml.go:411-415: its label.
LEMMA PlanLabelReads ==
    ASSUME NEW fc, "providers" \in DOMAIN fc, NEW provs \in Seq(ProviderVals),
           NEW prov, "plan" \in DOMAIN prov, NEW pl \in PlanVals, pl.label = NoText,
           NEW v \in Plain,
           NEW s \in InPlan(fc, provs, prov, pl)
    PROVE  Parse(s, Scalar(4, "label", v)) \in InPlan(fc, provs, prov, [pl EXCEPT !.label = v])
<1> DEFINE new == [pl EXCEPT !.label = v]
           ln == Line(4, FALSE, "label", ReadText(v), Missing)
<1>1. CASE v = NoText
  <2>1. new = pl
    BY <1>1 DEF PlanVals
  <2>2. Scalar(4, "label", v) = <<>>
    BY <1>1 DEF Scalar
  <2>3. Parse(s, <<>>) = s
    BY ParseShort
  <2> HIDE DEF new
  <2>4. QED
    BY <2>1, <2>2, <2>3 DEF new
<1>2. CASE v # NoText
  <2>1. Scalar(4, "label", v) = <<ln>>
    BY <1>2 DEF Scalar
  <2>2. ln.indent = 4 /\ ln.key = "label" /\ ln.text \notin RawControl
    BY PlainReads DEF Line
  <2>3. ln.text = v /\ HasValue(ln)
    BY <1>2, PlainReads DEF Line, HasValue
  <2> HIDE DEF ln
  <2>4. Parse(s, <<ln>>) = PlanStep(s, ln)
    BY <2>2, PlanFieldReads
  <2>5. Last(s).plan[1] = pl /\ s.base = 0
    BY PlanIs
  <2>6. PlanStep(s, ln) = WithLast([s EXCEPT !.fresh = FALSE],
                                   [Last(s) EXCEPT !.plan = <<[Last(s).plan[1] EXCEPT !.label = v]>>])
    BY <2>2, <2>3, <2>5 DEF PlanStep
  <2>7. @ = WithLast([s EXCEPT !.fresh = FALSE], [Last(s) EXCEPT !.plan = <<new>>])
    BY <2>5
  <2>8. @ = At("plan", Holding(fc, provs, WithPlan(prov, new)))
    <3> HIDE DEF new
    <3>1. QED
      BY PlanInHand
  <2>9. QED
    BY <2>1, <2>4, <2>6, <2>7, <2>8 DEF InPlan
<1>3. QED
  BY <1>1, <1>2

\* A plan with its cost in dollars.
WithUsd(plan, v) == [plan EXCEPT !.usd = v, !.hasUsd = TRUE]

\* yaml.go:404-410: its cost in dollars.
LEMMA UsdReads ==
    ASSUME NEW fc, "providers" \in DOMAIN fc, NEW provs \in Seq(ProviderVals),
           NEW prov, "plan" \in DOMAIN prov, NEW pl \in PlanVals, NEW v \in Int,
           NEW s \in InPlan(fc, provs, prov, pl)
    PROVE  Parse(s, Number(4, "cost_usd", v))
             = At("plan", Holding(fc, provs, WithPlan(prov, WithUsd(pl, v))))
<1> DEFINE new == WithUsd(pl, v)
           ln == Line(4, FALSE, "cost_usd", NoText, <<v>>)
<1>1. Number(4, "cost_usd", v) = <<ln>>
  BY DEF Number
<1>2. ln.indent = 4 /\ ln.key = "cost_usd" /\ ln.text \notin RawControl
  BY PlainReads DEF Line
<1>3. ln.num = <<v>> /\ ln.num # Missing /\ ln.num[1] = v
  BY PlainReads DEF Line, Missing
<1> HIDE DEF ln
<1>4. Parse(s, <<ln>>) = PlanStep(s, ln)
  BY <1>2, PlanFieldReads
<1>5. Last(s).plan[1] = pl /\ s.base = 0
  BY PlanIs
<1>6. PlanStep(s, ln) = WithLast([s EXCEPT !.fresh = FALSE],
                          [Last(s) EXCEPT !.plan = <<[Last(s).plan[1] EXCEPT !.usd = v, !.hasUsd = TRUE]>>])
  BY <1>2, <1>3, <1>5 DEF PlanStep
<1>7. @ = WithLast([s EXCEPT !.fresh = FALSE], [Last(s) EXCEPT !.plan = <<new>>])
  BY <1>5 DEF WithUsd
<1>8. @ = At("plan", Holding(fc, provs, WithPlan(prov, new)))
  <2> HIDE DEF new
  <2>1. QED
    BY PlanInHand
<1>9. QED
  BY <1>1, <1>4, <1>6, <1>7, <1>8

\* yaml.go:346-357: the line that opens the block of a plan.
LEMMA PlanOpens ==
    ASSUME NEW fc, "providers" \in DOMAIN fc, NEW provs \in Seq(ProviderVals), NEW prov
    PROVE  Parse(At("provider", Holding(fc, provs, prov)), Header(2, "plan"))
             \in InPlan(fc, provs, prov, NewPlan)
<1> DEFINE gc == Holding(fc, provs, prov)
           p == At("provider", gc)
           ln == Line(2, FALSE, "plan", NoText, Missing)
           x == WithPlan(prov, NewPlan)
<1>1. Header(2, "plan") = <<ln>>
  BY DEF Header
<1>2. ln.indent = 2 /\ ln.key = "plan" /\ ln.text \notin RawControl /\ ~HasValue(ln)
  BY PlainReads DEF Line, HasValue
<1> HIDE DEF ln
<1>3. Parse(p, <<ln>>) = ParseLine(p, ln)
  BY ParseShort
<1>4. ParseLine(p, ln) = ProviderStep(p, ln)
  BY <1>2 DEF ParseLine, At
<1>5. [p EXCEPT !.mode = "provider"] = p
  <2>1. p = [k \in DOMAIN p |-> p[k]] /\ p.mode = "provider"
    BY DEF At
  <2> HIDE DEF p
  <2>2. QED
    BY <2>1
<1>6. [p EXCEPT !.mode = "plan", !.fresh = TRUE] = Opened("plan", gc)
  <2> DEFINE q == [p EXCEPT !.mode = "plan", !.fresh = TRUE]
  <2>1. /\ DOMAIN q = {"ok", "mode", "base", "fresh", "fc"} /\ q.ok = TRUE /\ q.base = 0
        /\ q.mode = "plan" /\ q.fresh = TRUE /\ q.fc = gc
    BY DEF At
  <2>2. q = [k \in DOMAIN q |-> q[k]]
    OBVIOUS
  <2> HIDE DEF q
  <2>3. q = Opened("plan", gc)
    BY <2>1, <2>2, IsAt
  <2>4. QED
    BY <2>3 DEF q
<1>7. p.base = 0
  BY DEF At
<1>8. Last(p) = prov
  BY LastIs
<1>9. [prov EXCEPT !.plan = <<NewPlan>>] = x
  BY DEF WithPlan
<1> HIDE DEF p, x
<1>10. ProviderStep(p, ln) = WithLast([p EXCEPT !.mode = "plan", !.fresh = TRUE], x)
  <2> DEFINE q == [p EXCEPT !.mode = "provider"]
  <2>1. ProviderStep(p, ln) = WithLast([q EXCEPT !.mode = "plan", !.fresh = TRUE],
                                       [Last(q) EXCEPT !.plan = <<NewPlan>>])
    BY <1>2, <1>7 DEF ProviderStep
  <2>2. q = p
    BY <1>5
  <2> HIDE DEF q
  <2>3. QED
    BY <1>8, <1>9, <2>1, <2>2
<1>11. WithLast(Opened("plan", gc), x) = Opened("plan", Holding(fc, provs, x))
  BY InHand
<1>12. QED
  BY <1>1, <1>3, <1>4, <1>6, <1>10, <1>11 DEF InPlan, p, x

\* yaml.go:371-423: the block of a plan gives the plan it was written from.
LEMMA PlanReads ==
    ASSUME NEW fc, "providers" \in DOMAIN fc, NEW provs \in Seq(ProviderVals),
           NEW prov, "plan" \in DOMAIN prov, NEW pl \in PlanVals, pl.hasUsd,
           pl.currency \in Plain, pl.label \in Plain
    PROVE  Parse(At("provider", Holding(fc, provs, prov)), PlanLines(pl))
             = At("plan", Holding(fc, provs, WithPlan(prov, pl)))
<1> DEFINE L == Seq(OtherLines)
           a == Header(2, "plan")
           b == Amount(4, "cost", pl.cost)
           c == Scalar(4, "currency", pl.currency)
           d == Scalar(4, "label", pl.label)
           e == Number(4, "cost_usd", pl.usd)
           p0 == At("provider", Holding(fc, provs, prov))
           p1 == Parse(p0, a)
           p2 == Parse(p1, b)
           p3 == Parse(p2, c)
           p4 == Parse(p3, d)
           pl2 == [NewPlan EXCEPT !.cost = pl.cost]
           pl3 == [pl2 EXCEPT !.currency = pl.currency]
           pl4 == [pl3 EXCEPT !.label = pl.label]
           pl5 == WithUsd(pl4, pl.usd)
<1>1. a \in L /\ b \in L /\ c \in L /\ d \in L /\ e \in L
  BY PlanTyped
<1>2. PlanLines(pl) = a \o b \o c \o d \o e
  BY DEF PlanLines
<1>3. pl.cost \in Int /\ pl.usd \in Int /\ NoText \in Plain
  BY PlainReads DEF PlanVals
<1>4. NewPlan \in PlanVals /\ NewPlan.cost = 0 /\ NewPlan.currency = NoText
      /\ NewPlan.label = NoText
  BY <1>3 DEF PlanVals, NewPlan, Plain
<1> HIDE DEF pl3
<1>5. pl2 \in PlanVals /\ pl2.cost = pl.cost /\ pl2.currency = NoText /\ pl2.label = NoText
  BY <1>3, <1>4 DEF PlanVals
<1> HIDE DEF pl2
<1>5a. pl3 \in PlanVals /\ pl3.cost = pl.cost /\ pl3.currency = pl.currency /\ pl3.label = NoText
  BY <1>5 DEF PlanVals, pl3
<1> HIDE DEF pl4
<1>5b. pl4 \in PlanVals /\ pl4.cost = pl.cost /\ pl4.currency = pl.currency /\ pl4.label = pl.label
  BY <1>5a DEF PlanVals, pl4
<1> HIDE DEF pl5
<1>5c. pl5 = pl
  <2>1. pl.hasUsd = TRUE
    BY DEF PlanVals
  <2>2. pl5 \in PlanVals /\ pl5.cost = pl.cost /\ pl5.currency = pl.currency /\ pl5.label = pl.label
        /\ pl5.usd = pl.usd /\ pl5.hasUsd = TRUE
    BY <1>3, <1>5b DEF PlanVals, WithUsd, pl5
  <2>3. QED
    BY <2>1, <2>2 DEF PlanVals
<1>6. p1 \in InPlan(fc, provs, prov, NewPlan)
  BY PlanOpens
<1> HIDE DEF p1
<1>7. p2 \in InPlan(fc, provs, prov, pl2)
  BY <1>3, <1>4, <1>6, CostReads DEF pl2
<1> HIDE DEF p2
<1>8. p3 \in InPlan(fc, provs, prov, pl3)
  BY <1>5, <1>7, CurrencyReads DEF pl3
<1> HIDE DEF p3
<1>9. p4 \in InPlan(fc, provs, prov, pl4)
  BY <1>5a, <1>8, PlanLabelReads DEF pl4
<1> HIDE DEF p4
<1>10. Parse(p4, e) = At("plan", Holding(fc, provs, WithPlan(prov, pl5)))
  BY <1>3, <1>5b, <1>9, UsdReads DEF pl5
<1> HIDE DEF a, b, c, d, e
<1>11. /\ \A x, y \in L : x \o y \in L
       /\ \A x, y \in L : \A p : Parse(p, x \o y) = Parse(Parse(p, x), y)
  BY ConcatProperties, ParseConcat
<1> HIDE DEF L, p0
<1>12. a \o b \in L /\ a \o b \o c \in L /\ a \o b \o c \o d \in L
  BY <1>1, <1>11
<1>13. Parse(p0, a \o b \o c \o d \o e)
         = Parse(Parse(Parse(Parse(Parse(p0, a), b), c), d), e)
  BY <1>1, <1>11, <1>12
<1>14. QED
  BY <1>2, <1>5c, <1>10, <1>13 DEF p1, p2, p3, p4, p0

\* Where the parser is when the next provider of the list may begin.
Between(fc) == {Opened("providers", fc), At("provider", fc), At("plan", fc)}

\* A provider whose texts read back as they were written: the plan, if any, has
\* its cost in dollars, as the settings page sends it.
CleanPlan(plan) == plan.hasUsd /\ plan.currency \in Plain /\ plan.label \in Plain
CleanProvider(p) ==
    /\ p.id \in Plain /\ p.label \in Plain /\ p.keyEnv \in Plain \ KeyShaped
    /\ p.probe => p.hasProbe
    /\ p.plan # NoPlan => Len(p.plan) = 1 /\ CleanPlan(p.plan[1])

\* yaml.go:322-336: the line that opens an item of the list.
LEMMA ItemReads ==
    ASSUME NEW fc, "providers" \in DOMAIN fc, NEW provs \in Seq(ProviderVals),
           fc.providers = provs, NEW s \in Between(fc), NEW id \in Plain
    PROVE  Parse(s, <<Line(0, TRUE, "id", ReadText(id), Missing)>>)
             = At("provider", Holding(fc, provs, [NewProvider EXCEPT !.id = id]))
<1> DEFINE ln == Line(0, TRUE, "id", ReadText(id), Missing)
           gc == Holding(fc, provs, NewProvider)
           q == [s EXCEPT !.mode = "providers", !.base = 0, !.fresh = FALSE]
           r == [q EXCEPT !.mode = "provider", !.fc.providers = Append(@, NewProvider)]
           new == [NewProvider EXCEPT !.id = id]
<1>1. ln.indent = 0 /\ ln.item = TRUE /\ ln.key = "id" /\ ln.text = id /\ ln.text \notin RawControl
  BY PlainReads DEF Line
<1> HIDE DEF ln
<1>2. Parse(s, <<ln>>) = ParseLine(s, ln)
  BY ParseShort
<1>3. /\ s.ok = TRUE /\ s.base = 0 /\ s.fc = fc /\ DOMAIN s = {"ok", "mode", "base", "fresh", "fc"}
      /\ \/ s.mode = "providers"
         \/ s.mode \in {"provider", "plan"} /\ s.fresh = FALSE
  BY DEF Between, At, Opened
<1>4. ParseLine(s, ln) = ListStep(s, ln)
  <2>1. CASE s.mode = "providers"
    BY <1>1, <1>3, <2>1 DEF ParseLine
  <2>2. CASE s.mode = "provider"
    BY <1>1, <1>3, <2>2 DEF ParseLine, ProviderStep
  <2>3. CASE s.mode = "plan"
    BY <1>1, <1>3, <2>3 DEF ParseLine, PlanStep, ProviderStep
  <2>4. QED
    BY <1>3, <2>1, <2>2, <2>3
<1>5. ListStep(s, ln) = ProviderField(r, ln)
  <2>1. (IF s.fresh THEN ln.indent ELSE s.base) = 0
    BY <1>1, <1>3
  <2>2. QED
    BY <1>1, <2>1 DEF ListStep
<1>6. r = At("provider", gc)
  <2>1. q.fc = fc /\ q.ok = TRUE /\ q.base = 0 /\ q.fresh = FALSE
        /\ DOMAIN q = {"ok", "mode", "base", "fresh", "fc"}
    BY <1>3
  <2> HIDE DEF q
  <2>2. r.fc = [fc EXCEPT !.providers = Append(@, NewProvider)]
    BY <2>1
  <2>3. r.fc = gc
    BY <2>2 DEF Holding
  <2>4. r.ok = TRUE /\ r.base = 0 /\ r.fresh = FALSE /\ r.mode = "provider"
        /\ DOMAIN r = {"ok", "mode", "base", "fresh", "fc"}
    BY <2>1
  <2>5. r = [k \in DOMAIN r |-> r[k]]
    OBVIOUS
  <2> HIDE DEF r
  <2>6. QED
    BY <2>3, <2>4, <2>5, IsAt
<1> HIDE DEF r
<1>7. ProviderField(r, ln) = WithLast(r, [Last(r) EXCEPT !.id = id])
  BY <1>1 DEF ProviderField
<1>8. Last(r) = NewProvider
  BY <1>6, LastIs
<1>9. WithLast(r, new) = At("provider", Holding(fc, provs, new))
  <2> HIDE DEF new
  <2>1. QED
    BY <1>6, InHand
<1>10. QED
  BY <1>2, <1>4, <1>5, <1>7, <1>8, <1>9 DEF ln

\* yaml.go:309-369: the lines of a provider give the provider they were written from.
LEMMA ProviderReads ==
    ASSUME NEW fc, "providers" \in DOMAIN fc, NEW provs \in Seq(ProviderVals),
           fc.providers = provs, NEW s \in Between(fc),
           NEW p \in ProviderVals, CleanProvider(p)
    PROVE  Parse(s, ProviderLines(p)) \in Between(Holding(fc, provs, p))
<1> DEFINE L == Seq(OtherLines)
           a == <<Line(0, TRUE, "id", ReadText(p.id), Missing)>>
           b == IF p.enabled THEN <<>> ELSE Truth(2, "enabled", FALSE)
           c == Scalar(2, "label", p.label)
           d == Scalar(2, "key_env", p.keyEnv)
           e == IF p.hasProbe THEN Truth(2, "probe", p.probe) ELSE <<>>
           f == IF p.plan # NoPlan THEN PlanLines(p.plan[1]) ELSE <<>>
           s1 == Parse(s, a)
           s2 == Parse(s1, b)
           s3 == Parse(s2, c)
           s4 == Parse(s3, d)
           s5 == Parse(s4, e)
           p1 == [NewProvider EXCEPT !.id = p.id]
           p2 == WithEnabled(p1, p)
           p3 == [p2 EXCEPT !.label = p.label]
           p4 == [p3 EXCEPT !.keyEnv = p.keyEnv]
           p5 == WithProbe(p4, p)
<1>1. a \in L /\ b \in L /\ c \in L /\ d \in L /\ e \in L /\ f \in L
  <2>1. <<>> \in L
    OBVIOUS
  <2>2. /\ a \in L /\ Truth(2, "enabled", FALSE) \in L /\ c \in L /\ d \in L
        /\ Truth(2, "probe", p.probe) \in L
        /\ p.plan # NoPlan => PlanLines(p.plan[1]) \in L
    BY ProviderTyped
  <2> HIDE DEF L
  <2>3. QED
    BY <2>1, <2>2
<1>2. ProviderLines(p) = a \o b \o c \o d \o e \o f
  BY DEF ProviderLines
<1>3. /\ p.id \in Plain /\ p.label \in Plain /\ p.keyEnv \in Plain \ KeyShaped
      /\ p.enabled \in BOOLEAN /\ p.probe \in BOOLEAN /\ p.hasProbe \in BOOLEAN
      /\ p.plan \in Seq(PlanVals) /\ NoText \in Plain /\ Plain \subseteq Words
  BY PlainReads DEF ProviderVals, CleanProvider
<1> HIDE DEF p2
<1>4. /\ p1 \in ProviderVals /\ p1.id = p.id /\ p1.enabled = TRUE /\ p1.label = NoText
      /\ p1.keyEnv = NoText /\ p1.probe = FALSE /\ p1.hasProbe = FALSE /\ p1.plan = NoPlan
  <2>1. <<>> \in Seq(PlanVals)
    OBVIOUS
  <2>2. /\ NewProvider \in ProviderVals /\ NewProvider.enabled = TRUE
        /\ NewProvider.label = NoText /\ NewProvider.keyEnv = NoText
        /\ NewProvider.probe = FALSE /\ NewProvider.hasProbe = FALSE
        /\ NewProvider.plan = NoPlan
    BY <1>3, <2>1 DEF ProviderVals, NewProvider, NoPlan
  <2>3. QED
    BY <1>3, <2>2 DEF ProviderVals
<1> HIDE DEF p1, p3
<1>5. /\ p2 \in ProviderVals /\ p2.id = p.id /\ p2.enabled = p.enabled /\ p2.label = NoText
      /\ p2.keyEnv = NoText /\ p2.probe = FALSE /\ p2.hasProbe = FALSE /\ p2.plan = NoPlan
  BY <1>3, <1>4 DEF ProviderVals, WithEnabled, p2
<1> HIDE DEF p4
<1>6. /\ p3 \in ProviderVals /\ p3.id = p.id /\ p3.enabled = p.enabled /\ p3.label = p.label
      /\ p3.keyEnv = NoText /\ p3.probe = FALSE /\ p3.hasProbe = FALSE /\ p3.plan = NoPlan
  BY <1>3, <1>5 DEF ProviderVals, p3
<1> HIDE DEF p5
<1>7. /\ p4 \in ProviderVals /\ p4.id = p.id /\ p4.enabled = p.enabled /\ p4.label = p.label
      /\ p4.keyEnv = p.keyEnv /\ p4.probe = FALSE /\ p4.hasProbe = FALSE /\ p4.plan = NoPlan
  BY <1>3, <1>6 DEF ProviderVals, p4
<1>8. /\ p5 \in ProviderVals /\ p5.id = p.id /\ p5.enabled = p.enabled /\ p5.label = p.label
      /\ p5.keyEnv = p.keyEnv /\ p5.probe = p.probe /\ p5.hasProbe = p.hasProbe
      /\ p5.plan = NoPlan
  BY <1>3, <1>7 DEF ProviderVals, WithProbe, p5
<1>9. s1 = At("provider", Holding(fc, provs, p1))
  BY <1>3, ItemReads DEF p1
<1> HIDE DEF s1
<1>10. s2 = At("provider", Holding(fc, provs, p2))
  BY <1>4, <1>9, EnabledReads DEF p2
<1> HIDE DEF s2
<1>11. s3 = At("provider", Holding(fc, provs, p3))
  BY <1>3, <1>5, <1>10, LabelReads DEF p3
<1> HIDE DEF s3
<1>12. s4 = At("provider", Holding(fc, provs, p4))
  BY <1>3, <1>6, <1>11, KeyEnvReads DEF p4
<1> HIDE DEF s4
<1>13. s5 = At("provider", Holding(fc, provs, p5))
  <2>1. p.probe => p.hasProbe
    BY DEF CleanProvider
  <2>2. QED
    BY <1>7, <1>12, <2>1, ProbeReads DEF p5
<1> HIDE DEF s5
<1>14. Parse(s5, f) \in Between(Holding(fc, provs, p))
  <2>1. CASE p.plan = NoPlan
    <3>1. p5 = p
      BY <1>3, <1>8, <2>1 DEF ProviderVals
    <3>2. Parse(s5, f) = s5
      BY <2>1, ParseShort
    <3>3. QED
      BY <1>13, <3>1, <3>2 DEF Between
  <2>2. CASE p.plan # NoPlan
    <3> DEFINE pl == p.plan[1]
    <3>1. pl \in PlanVals /\ pl.hasUsd /\ pl.currency \in Plain /\ pl.label \in Plain
          /\ Len(p.plan) = 1
      BY <2>2, ProviderTyped DEF CleanProvider, CleanPlan
    <3>2. p.plan = <<pl>>
      BY <1>3, <3>1
    <3> HIDE DEF pl
    <3>3. WithPlan(p5, pl) = p
      <4> DEFINE q == WithPlan(p5, pl)
      <4>1. /\ q \in ProviderVals /\ q.id = p.id /\ q.enabled = p.enabled /\ q.label = p.label
            /\ q.keyEnv = p.keyEnv /\ q.probe = p.probe /\ q.hasProbe = p.hasProbe
            /\ q.plan = p.plan
        BY <1>3, <1>8, <3>2 DEF ProviderVals, WithPlan
      <4> HIDE DEF q
      <4>2. q = p
        BY <4>1 DEF ProviderVals
      <4>3. QED
        BY <4>2 DEF q
    <3>4. "plan" \in DOMAIN p5
      BY <1>8 DEF ProviderVals
    <3>5. Parse(s5, PlanLines(pl)) = At("plan", Holding(fc, provs, WithPlan(p5, pl)))
      BY <1>13, <3>1, <3>4, PlanReads
    <3>6. f = PlanLines(pl)
      BY <2>2 DEF pl
    <3>7. QED
      BY <3>3, <3>5, <3>6 DEF Between
  <2>3. QED
    BY <2>1, <2>2
<1>15. Parse(s, a \o b \o c \o d \o e \o f)
         = Parse(Parse(Parse(Parse(Parse(Parse(s, a), b), c), d), e), f)
  <2> HIDE DEF a, b, c, d, e, f
  <2>1. /\ \A x, y \in L : x \o y \in L
        /\ \A x, y \in L : \A r : Parse(r, x \o y) = Parse(Parse(r, x), y)
    BY ConcatProperties, ParseConcat
  <2> HIDE DEF L
  <2>2. a \o b \in L /\ a \o b \o c \in L /\ a \o b \o c \o d \in L
        /\ a \o b \o c \o d \o e \in L
    BY <1>1, <2>1
  <2>3. QED
    BY <1>1, <2>1, <2>2
<1>16. QED
  BY <1>2, <1>14, <1>15 DEF s1, s2, s3, s4, s5

\* The first n of a sequence.
Leading(s, n) == [i \in 1..n |-> s[i]]

\* The first n elements are the first n - 1 and one more.
LEMMA LeadingGrows ==
    ASSUME NEW S, NEW s \in Seq(S), NEW n \in 1..Len(s)
    PROVE  /\ Leading(s, n - 1) \in Seq(S)
           /\ Append(Leading(s, n - 1), s[n]) = Leading(s, n)
<1> DEFINE a == Leading(s, n - 1)
<1>1. Len(s) \in Nat /\ n - 1 \in Nat /\ \A i \in 1..Len(s) : s[i] \in S
  OBVIOUS
<1>2. a \in [1..(n - 1) -> S] /\ \A i \in 1..(n - 1) : a[i] = s[i]
  BY <1>1 DEF Leading
<1>3. a \in Seq(S) /\ Len(a) = n - 1
  BY <1>1, <1>2
<1> HIDE DEF a
<1>4. Append(a, s[n]) = [i \in 1..(Len(a) + 1) |-> IF i <= Len(a) THEN a[i] ELSE s[n]]
  BY <1>3, AppendIs
<1>5. [i \in 1..(Len(a) + 1) |-> IF i <= Len(a) THEN a[i] ELSE s[n]] = Leading(s, n)
  <2>1. Len(a) + 1 = n
    BY <1>1, <1>3
  <2>2. \A i \in 1..n : (IF i <= Len(a) THEN a[i] ELSE s[n]) = s[i]
    BY <1>1, <1>2, <1>3
  <2>3. QED
    BY <2>1, <2>2 DEF Leading
<1>6. QED
  BY <1>3, <1>4, <1>5 DEF a

\* None of a sequence is the empty one, and all of it the sequence.
LEMMA LeadingAll ==
    ASSUME NEW S, NEW s \in Seq(S)
    PROVE  Leading(s, 0) = <<>> /\ Leading(s, Len(s)) = s
<1>1. Leading(s, 0) = <<>>
  BY DEF Leading
<1>2. Len(s) \in Nat /\ s = [i \in 1..Len(s) |-> s[i]]
  OBVIOUS
<1>3. QED
  BY <1>1, <1>2 DEF Leading

\* A file with another order.
Ordered(fc, order) == [fc EXCEPT !.provider_order = order]

\* yaml.go:300-304: an item of the order.
LEMMA OrderItemReads ==
    ASSUME NEW fc, NEW order, fc.provider_order = order, NEW t \in Plain,
           NEW p \in {At("provider_order", fc), Opened("provider_order", fc)}
    PROVE  ParseLine(p, Line(2, TRUE, NoText, ReadText(t), Missing))
             = At("provider_order", Ordered(fc, Append(order, t)))
<1> DEFINE ln == Line(2, TRUE, NoText, ReadText(t), Missing)
           q == [p EXCEPT !.fresh = FALSE, !.fc.provider_order = Append(@, t)]
<1>1. ln.indent = 2 /\ ln.item = TRUE /\ ln.text = t /\ ln.text \notin RawControl
  BY PlainReads DEF Line
<1> HIDE DEF ln
<1>2. p.ok = TRUE /\ p.mode = "provider_order" /\ p.base = 0 /\ p.fc = fc
      /\ DOMAIN p = {"ok", "mode", "base", "fresh", "fc"}
  BY DEF At, Opened
<1>3. ParseLine(p, ln) = OrderStep(p, ln)
  BY <1>1, <1>2 DEF ParseLine
<1>4. OrderStep(p, ln) = q
  BY <1>1 DEF OrderStep
<1>5. q.fc = Ordered(fc, Append(order, t))
  BY <1>2 DEF Ordered
<1>6. q.ok = TRUE /\ q.base = 0 /\ q.mode = "provider_order" /\ q.fresh = FALSE
      /\ DOMAIN q = {"ok", "mode", "base", "fresh", "fc"}
  BY <1>2
<1>7. q = [k \in DOMAIN q |-> q[k]]
  OBVIOUS
<1> HIDE DEF q
<1>8. q = At("provider_order", Ordered(fc, Append(order, t)))
  BY <1>5, <1>6, <1>7, IsAt
<1>9. QED
  BY <1>3, <1>4, <1>8 DEF ln

\* yaml.go:285-307: the list of the order gives the order it was written from.
LEMMA OrderReads ==
    ASSUME NEW m \in {"top", "alerts", "provider_order"}, NEW fc,
           "provider_order" \in DOMAIN fc, NEW order \in Seq(Plain), order # <<>>
    PROVE  Parse(At(m, fc), OrderLines(order))
             = At("provider_order", Ordered(fc, order))
<1> DEFINE N == Len(order)
           item(i) == Line(2, TRUE, NoText, ReadText(order[i]), Missing)
           items == [i \in DOMAIN order |-> item(i)]
           h == Header(0, "provider_order")
           L == Seq(OtherLines)
           upto(n) == Ordered(fc, Leading(order, n))
           p == Opened("provider_order", upto(0))
<1>1. N \in Nat \ {0} /\ DOMAIN order = 1..N /\ \A i \in 1..N : order[i] \in Plain
  OBVIOUS
<1>2. order \in Seq(Words)
  <2>1. Plain \subseteq Words
    BY DEF Plain
  <2>2. order \in [1..N -> Words]
    BY <1>1, <2>1
  <2>3. QED
    BY <1>1, <2>2
<1>3. items \in L /\ OrderLines(order) \in L
  BY <1>2, OrderTyped
<1>4. h \in L
  BY HeaderTyped DEF LineKeys
<1>5. OrderLines(order) = h \o items
  BY DEF OrderLines
<1>6. Parse(At(m, fc), OrderLines(order)) = Parse(Parse(At(m, fc), h), items)
  <2> HIDE DEF h, items, L
  <2>1. \A x, y \in L : \A r : Parse(r, x \o y) = Parse(Parse(r, x), y)
    BY ParseConcat DEF L
  <2>2. QED
    BY <1>3, <1>4, <1>5, <2>1
<1>7. Parse(At(m, fc), h) = p
  <2>1. Leading(order, 0) = <<>>
    BY LeadingAll
  <2>2. "provider_order" \in Blocks /\ "provider_order" # "alerts"
    BY DEF Blocks
  <2>3. Parse(At(m, fc), h) = Opened("provider_order", [fc EXCEPT !["provider_order"] = <<>>])
    BY <2>2, HeaderReads
  <2>4. QED
    BY <2>1, <2>3 DEF Ordered
<1>8. Len(items) = N /\ \A i \in 1..N : items[i] = item(i)
  BY <1>1
<1>9. PICK g : After(p, items, g) /\ Parse(p, items) = g[N]
  <2> HIDE DEF p, items, N
  <2>1. Len(items) \in Nat
    BY <1>1, <1>8
  <2>2. PICK g : After(p, items, g) /\ Parse(p, items) = g[Len(items)]
    BY <2>1, ParseIs
  <2>3. QED
    BY <1>8, <2>2
<1>10. g[0] = p /\ \A n \in 1..N : g[n] = ParseLine(g[n - 1], item(n))
  <2> HIDE DEF p, items, item
  <2>1. Len(items) \in Nat
    BY <1>1, <1>8
  <2>2. g[0] = p /\ \A n \in 1..Len(items) : g[n] = ParseLine(g[n - 1], items[n])
    BY <1>9, <2>1, AfterSteps
  <2>3. QED
    BY <1>8, <2>2
<1> DEFINE fits(n) == g[n] \in {At("provider_order", upto(n)), Opened("provider_order", upto(n))}
           S == {n \in 0..N : fits(n) /\ (n > 0 => g[n] = At("provider_order", upto(n)))}
<1>11. 0 \in S
  BY <1>1, <1>10
<1>12. ASSUME NEW n \in 1..N, n - 1 \in S PROVE n \in S
  <2>1. fits(n - 1)
    BY <1>12
  <2>2. Append(Leading(order, n - 1), order[n]) = Leading(order, n)
    BY LeadingGrows
  <2>3. upto(n - 1).provider_order = Leading(order, n - 1)
    BY DEF Ordered
  <2>4. order[n] \in Plain
    BY <1>1
  <2>5. Ordered(upto(n - 1), Leading(order, n)) = upto(n)
    BY DEF Ordered
  <2>6. g[n] = ParseLine(g[n - 1], item(n))
    BY <1>10
  <2> HIDE DEF upto
  <2>7. ParseLine(g[n - 1], item(n))
          = At("provider_order", Ordered(upto(n - 1), Append(Leading(order, n - 1), order[n])))
    BY <2>1, <2>3, <2>4, OrderItemReads
  <2>8. g[n] = At("provider_order", upto(n))
    BY <2>2, <2>5, <2>6, <2>7
  <2>9. QED
    BY <2>8
<1> HIDE DEF S
<1>13. 0..N \subseteq S
  BY <1>1, <1>11, <1>12, LineByLine
<1>14. g[N] = At("provider_order", upto(N))
  BY <1>1, <1>13 DEF S
<1>15. upto(N) = Ordered(fc, order)
  BY LeadingAll
<1>16. QED
  BY <1>6, <1>7, <1>9, <1>14, <1>15

\* A file with other providers.
Provided(fc, provs) == [fc EXCEPT !.providers = provs]

\* yaml.go:309-369: the list of the providers gives the providers it was written from.
LEMMA ProvidersRead ==
    ASSUME NEW m \in {"top", "alerts", "provider_order"}, NEW fc,
           "providers" \in DOMAIN fc, NEW provs \in Seq(ProviderVals), provs # <<>>,
           \A i \in DOMAIN provs : CleanProvider(provs[i])
    PROVE  Parse(At(m, fc), ProvidersLines(provs)) \in Between(Provided(fc, provs))
<1> DEFINE N == Len(provs)
           parts == [i \in DOMAIN provs |-> ProviderLines(provs[i])]
           flat == Seqs!FlattenSeq(parts)
           h == Header(0, "providers")
           L == Seq(OtherLines)
           upto(n) == Provided(fc, Leading(provs, n))
           p == Opened("providers", upto(0))
<1>1. N \in Nat \ {0} /\ DOMAIN provs = 1..N
      /\ \A i \in 1..N : provs[i] \in ProviderVals /\ CleanProvider(provs[i])
  OBVIOUS
<1>2. Len(parts) = N /\ \A i \in 1..N : parts[i] = ProviderLines(provs[i])
  BY <1>1
<1>3. \A i \in 1..N : ProviderLines(provs[i]) \in L
  BY <1>1, ProviderTyped
<1>4. /\ \A x, y \in L : x \o y \in L
      /\ \A x, y \in L : \A r : Parse(r, x \o y) = Parse(Parse(r, x), y)
  BY ConcatProperties, ParseConcat
<1>5. h \in L
  BY HeaderTyped DEF LineKeys
<1>6. ProvidersLines(provs) = h \o flat
  BY DEF ProvidersLines
<1>7. Parse(At(m, fc), h) = p
  <2>1. Leading(provs, 0) = <<>>
    BY LeadingAll
  <2>2. "providers" \in Blocks /\ "providers" # "alerts"
    BY DEF Blocks
  <2>3. Parse(At(m, fc), h) = Opened("providers", [fc EXCEPT !["providers"] = <<>>])
    BY <2>2, HeaderReads
  <2>4. QED
    BY <2>1, <2>3 DEF Provided
<1>8. PICK f : /\ f[1] = parts[1]
               /\ \A n \in 2..N : f[n] = f[n - 1] \o parts[n]
               /\ flat = f[N]
  <2> HIDE DEF parts, N
  <2>1. Len(parts) \in Nat /\ Len(parts) > 0
    BY <1>1, <1>2
  <2>2. PICK f : /\ f[1] = parts[1]
                 /\ \A n \in 2..Len(parts) : f[n] = f[n - 1] \o parts[n]
                 /\ flat = f[Len(parts)]
    BY <2>1, FlattenIs
  <2>3. QED
    BY <1>2, <2>2
<1> HIDE DEF L, h, flat, parts, p
\* One provider more.
<1>9. ASSUME NEW n \in 1..N, NEW s \in Between(upto(n - 1))
      PROVE  Parse(s, parts[n]) \in Between(upto(n))
  <2>1. /\ Append(Leading(provs, n - 1), provs[n]) = Leading(provs, n)
        /\ Leading(provs, n - 1) \in Seq(ProviderVals)
    BY LeadingGrows
  <2>2. upto(n - 1).providers = Leading(provs, n - 1) /\ "providers" \in DOMAIN upto(n - 1)
    BY DEF Provided
  <2>3. Holding(upto(n - 1), Leading(provs, n - 1), provs[n]) = upto(n)
    BY <2>1 DEF Holding, Provided
  <2>4. provs[n] \in ProviderVals /\ CleanProvider(provs[n])
    BY <1>1
  <2> HIDE DEF upto
  <2>5. Parse(s, ProviderLines(provs[n]))
          \in Between(Holding(upto(n - 1), Leading(provs, n - 1), provs[n]))
    BY <2>1, <2>2, <2>4, ProviderReads
  <2>6. QED
    BY <1>2, <2>3, <2>5
<1> DEFINE S == {n \in 0..N : n > 0 => f[n] \in L /\ Parse(p, f[n]) \in Between(upto(n))}
<1>10. 0 \in S
  BY <1>1
<1>11. ASSUME NEW n \in 1..N, n - 1 \in S PROVE n \in S
  <2>0. parts[n] \in L /\ n \in 0..N
    BY <1>1, <1>2, <1>3
  <2>1. CASE n = 1
    <3>1. p \in Between(upto(0))
      BY DEF Between, p
    <3> HIDE DEF upto
    <3>2. Parse(p, parts[1]) \in Between(upto(1))
      BY <1>9, <2>1, <3>1
    <3>3. QED
      BY <1>8, <2>0, <2>1, <3>2
  <2>2. CASE n # 1
    <3>1. n \in 2..N /\ n - 1 > 0 /\ n - 1 \in 0..N
      BY <1>1, <2>2
    <3>2. f[n - 1] \in L /\ Parse(p, f[n - 1]) \in Between(upto(n - 1))
      BY <1>11, <3>1
    <3>3. f[n] = f[n - 1] \o parts[n]
      BY <1>8, <3>1
    <3> HIDE DEF upto
    <3>4. Parse(p, f[n]) = Parse(Parse(p, f[n - 1]), parts[n])
      BY <1>4, <2>0, <3>2, <3>3
    <3>5. Parse(p, f[n]) \in Between(upto(n))
      BY <1>9, <3>2, <3>4
    <3>6. f[n] \in L
      BY <1>4, <2>0, <3>2, <3>3
    <3>7. QED
      BY <2>0, <3>5, <3>6
  <2>3. QED
    BY <2>1, <2>2
<1> HIDE DEF S
<1>12. 0..N \subseteq S
  BY <1>1, <1>10, <1>11, LineByLine
<1>13. flat \in L /\ Parse(p, flat) \in Between(upto(N))
  BY <1>1, <1>8, <1>12 DEF S
<1>14. upto(N) = Provided(fc, provs)
  BY LeadingAll
<1>15. Parse(At(m, fc), h \o flat) = Parse(p, flat)
  BY <1>4, <1>5, <1>7, <1>13
<1>16. QED
  BY <1>6, <1>13, <1>14, <1>15

\* The thresholds of a body that a file has.
Shown(alerts) == [k \in WrittenAlerts |-> alerts[k]]

\* yaml.go:243-283: the block of the thresholds gives those it was written from.
LEMMA AlertsRead ==
    ASSUME NEW fc, "alerts" \in DOMAIN fc, fc.alerts = <<>>,
           NEW alerts, WrittenAlerts \subseteq DOMAIN alerts,
           \A k \in DOMAIN alerts : alerts[k] \in Int
    PROVE  Parse(At("top", fc), AlertsLines(alerts)) = At("alerts", Alerted(fc, Shown(alerts)))
<1> DEFINE L == Seq(OtherLines)
           k1 == "openrouter_low_usd"
           k2 == "quota_warn_5h_pct"
           k3 == "quota_warn_weekly_pct"
           h == Header(0, "alerts")
           a == AlertLine(alerts, k1)
           b == AlertLine(alerts, k2)
           c == AlertLine(alerts, k3)
           s0 == Opened("alerts", fc)
           f1 == Layered(<<>>, One(k1, alerts[k1]))
           f2 == Layered(f1, One(k2, alerts[k2]))
           f3 == Layered(f2, One(k3, alerts[k3]))
<1>1. WrittenAlerts = {k1, k2, k3} /\ k1 \in AlertKeys /\ k2 \in AlertKeys /\ k3 \in AlertKeys
  BY DEF WrittenAlerts, AlertKeys
<1>2. a = Number(2, k1, alerts[k1]) /\ b = Number(2, k2, alerts[k2])
      /\ c = Number(2, k3, alerts[k3])
  BY <1>1 DEF AlertLine
<1>3. h \in L /\ a \in L /\ b \in L /\ c \in L
  <2>1. h \in L
    BY HeaderTyped DEF LineKeys
  <2>2. a \in L
    BY AlertTyped DEF LineKeys, AlertKeys
  <2>3. b \in L
    BY AlertTyped DEF LineKeys, AlertKeys
  <2>4. c \in L
    BY AlertTyped DEF LineKeys, AlertKeys
  <2>5. QED
    BY <2>1, <2>2, <2>3, <2>4
<1>4. AlertsLines(alerts) = h \o a \o b \o c
  <2>1. alerts # <<>>
    BY <1>1
  <2>2. QED
    BY <2>1 DEF AlertsLines
<1>5. Parse(At("top", fc), h) = s0
  BY HeaderReads DEF Blocks
<1>6. Parse(s0, a) = At("alerts", Alerted(fc, f1))
  <2>1. ASSUME NEW k \in AlertKeys, NEW v
        PROVE  Parse(s0, Number(2, k, v)) = At("alerts", Alerted(fc, Layered(fc.alerts, One(k, v))))
    BY AlertReads
  <2> HIDE DEF s0
  <2>2. QED
    BY <1>1, <1>2, <2>1
<1>7. ASSUME NEW f, NEW k \in AlertKeys, NEW v
      PROVE  Parse(At("alerts", Alerted(fc, f)), Number(2, k, v))
               = At("alerts", Alerted(fc, Layered(f, One(k, v))))
  <2> DEFINE gc == Alerted(fc, f)
  <2>1. gc.alerts = f
    BY DEF Alerted
  <2>2. Alerted(gc, Layered(f, One(k, v))) = Alerted(fc, Layered(f, One(k, v)))
    BY DEF Alerted
  <2> HIDE DEF gc
  <2>3. Parse(At("alerts", gc), Number(2, k, v)) = At("alerts", Alerted(gc, Layered(f, One(k, v))))
    BY <2>1, AlertReads
  <2>4. QED
    BY <2>2, <2>3 DEF gc
<1>8. Parse(At("alerts", Alerted(fc, f1)), b) = At("alerts", Alerted(fc, f2))
  <2> HIDE DEF f1
  <2>1. QED
    BY <1>1, <1>2, <1>7
<1>9. Parse(At("alerts", Alerted(fc, f2)), c) = At("alerts", Alerted(fc, f3))
  <2> HIDE DEF f2
  <2>1. QED
    BY <1>1, <1>2, <1>7
<1>10. f3 = Shown(alerts)
  <2>1. DOMAIN <<>> = {}
    OBVIOUS
  <2>2. DOMAIN f1 = {k1} /\ f1[k1] = alerts[k1]
    BY <2>1 DEF Layered, One
  <2> HIDE DEF f1
  <2>3. DOMAIN f2 = {k1, k2} /\ f2[k1] = alerts[k1] /\ f2[k2] = alerts[k2]
    BY <2>2 DEF Layered, One
  <2> HIDE DEF f2
  <2>4. /\ f3 = [k \in {k1, k2, k3} |-> f3[k]]
        /\ f3[k1] = alerts[k1] /\ f3[k2] = alerts[k2] /\ f3[k3] = alerts[k3]
    BY <2>3 DEF Layered, One
  <2> HIDE DEF f3
  <2>5. QED
    BY <1>1, <2>4 DEF Shown
<1> HIDE DEF h, a, b, c, s0, f1, f2, f3
<1>11. /\ \A x, y \in L : x \o y \in L
       /\ \A x, y \in L : \A r : Parse(r, x \o y) = Parse(Parse(r, x), y)
  BY ConcatProperties, ParseConcat
<1> HIDE DEF L
<1>12. h \o a \in L /\ h \o a \o b \in L
  BY <1>3, <1>11
<1>13. Parse(At("top", fc), h \o a \o b \o c)
         = Parse(Parse(Parse(Parse(At("top", fc), h), a), b), c)
  BY <1>3, <1>11, <1>12
<1>14. QED
  BY <1>4, <1>5, <1>6, <1>8, <1>9, <1>10, <1>13

\* A file whose every setting is given, in texts that read back as they were
\* written, and whose providers have an id each.
CleanFile(fc) ==
    /\ FileTyped(fc)
    /\ fc.listen \in Plain \ {NoText} /\ fc.tz \in Plain \ {NoText}
    /\ WrittenAlerts \subseteq DOMAIN fc.alerts
    /\ fc.provider_order \in Seq(Plain) /\ fc.provider_order # <<>>
    /\ \A i \in DOMAIN fc.providers :
          /\ CleanProvider(fc.providers[i])
          /\ fc.providers[i].id # NoText
          /\ \A j \in DOMAIN fc.providers : fc.providers[j].id = fc.providers[i].id => i = j

\* serialize.go:13-81 against yaml.go:67-460: such a file, written and read, has the
\* settings it had, but for the legacy threshold, which is not written.
THEOREM SavedReadsBack ==
    ASSUME NEW fc, CleanFile(fc)
    PROVE  LET r == Parsed(SerializeYAML(fc))
           IN  /\ r.ok
               /\ r.fc.interval_sec = fc.interval_sec /\ r.fc.listen = fc.listen
               /\ r.fc.tz = fc.tz /\ r.fc.device_token = NoText
               /\ r.fc.alerts = Shown(fc.alerts) /\ r.fc.providers = fc.providers
               /\ r.fc.provider_order = fc.provider_order
<1> DEFINE v == fc.interval_sec
           a == Parse(Start, IntervalLines(v))
           b == Parse(a, Scalar(0, "listen", fc.listen))
           c == Parse(b, Scalar(0, "tz", fc.tz))
           d == Parse(c, AlertsLines(fc.alerts))
           e == Parse(d, OrderLines(fc.provider_order))
           f == Parse(e, ProvidersLines(fc.providers))
           f1 == [NoFile EXCEPT !.interval_sec = v]
           f2 == [f1 EXCEPT !["listen"] = fc.listen]
           f3 == [f2 EXCEPT !["tz"] = fc.tz]
           f4 == Alerted(f3, Shown(fc.alerts))
           f5 == Ordered(f4, fc.provider_order)
           f6 == Provided(f5, fc.providers)
           D == DOMAIN NoFile
<1>1. Parse(Start, SerializeYAML(fc)) = f
  BY ReadInOrder DEF CleanFile
<1>2. D = {"interval_sec", "listen", "device_token", "tz", "alerts", "providers",
           "provider_order"}
  BY DEF NoFile
<1>3. DOMAIN f1 = D /\ f1.interval_sec = v /\ f1.device_token = NoText
      /\ f1.alerts = <<>> /\ f1.providers = <<>>
  BY DEF NoFile
<1> HIDE DEF f1
<1>4. DOMAIN f2 = D /\ f2.interval_sec = v /\ f2.device_token = NoText
      /\ f2.listen = fc.listen /\ f2.alerts = <<>> /\ f2.providers = <<>>
  BY <1>2, <1>3
<1> HIDE DEF f2
<1>5. DOMAIN f3 = D /\ f3.interval_sec = v /\ f3.device_token = NoText
      /\ f3.listen = fc.listen /\ f3.tz = fc.tz /\ f3.alerts = <<>> /\ f3.providers = <<>>
  BY <1>2, <1>4
<1> HIDE DEF f3
<1>6. DOMAIN f4 = D /\ f4.interval_sec = v /\ f4.device_token = NoText
      /\ f4.listen = fc.listen /\ f4.tz = fc.tz /\ f4.alerts = Shown(fc.alerts)
      /\ f4.providers = <<>>
  BY <1>2, <1>5 DEF Alerted
<1> HIDE DEF f4
<1>7. DOMAIN f5 = D /\ f5.interval_sec = v /\ f5.device_token = NoText
      /\ f5.listen = fc.listen /\ f5.tz = fc.tz /\ f5.alerts = Shown(fc.alerts)
      /\ f5.provider_order = fc.provider_order /\ f5.providers = <<>>
  BY <1>2, <1>6 DEF Ordered
<1> HIDE DEF f5
<1>8. DOMAIN f6 = D /\ f6.interval_sec = v /\ f6.device_token = NoText
      /\ f6.listen = fc.listen /\ f6.tz = fc.tz /\ f6.alerts = Shown(fc.alerts)
      /\ f6.provider_order = fc.provider_order /\ f6.providers = fc.providers
  BY <1>2, <1>7 DEF Provided
<1>9. a = At("top", f1)
  <2>1. a = ReadInterval(Start, v)
    BY IntervalReads DEF CleanFile, FileTyped
  <2>2. ReadInterval(Start, v) = At("top", f1)
    <3> DEFINE q == ReadInterval(Start, v)
    <3>1. /\ DOMAIN q = {"ok", "mode", "base", "fresh", "fc"} /\ q.ok = TRUE /\ q.base = 0
          /\ q.mode = "top" /\ q.fresh = FALSE
      BY DEF ReadInterval, Start
    <3>2. q.fc = f1
      BY DEF ReadInterval, Start, f1
    <3>3. q = [k \in DOMAIN q |-> q[k]]
      BY DEF ReadInterval
    <3> HIDE DEF q
    <3>4. q = At("top", f1)
      BY <3>1, <3>2, <3>3, IsAt
    <3>5. QED
      BY <3>4 DEF q
  <2>3. QED
    BY <2>1, <2>2
<1> HIDE DEF a
<1>10. b = At("top", f2)
  BY <1>9, ScalarReads DEF CleanFile, f2
<1> HIDE DEF b
<1>11. c = At("top", f3)
  BY <1>10, ScalarReads DEF CleanFile, f3
<1> HIDE DEF c
<1>12. d = At("alerts", f4)
  <2>1. "alerts" \in D
    BY <1>2
  <2>2. QED
    BY <1>5, <1>11, <2>1, AlertsRead DEF CleanFile, FileTyped, f4
<1> HIDE DEF d
<1>13. e = At("provider_order", f5)
  <2>1. "provider_order" \in D
    BY <1>2
  <2>2. QED
    BY <1>6, <1>12, <2>1, OrderReads DEF CleanFile, f5
<1> HIDE DEF e
<1>14. f \in Between(f6) \cup {At("provider_order", f6)}
  <2>1. fc.providers \in Seq(ProviderVals)
        /\ \A i \in DOMAIN fc.providers : CleanProvider(fc.providers[i])
    BY DEF CleanFile, FileTyped
  <2>2. "providers" \in DOMAIN f5
    BY <1>2, <1>7
  <2>3. CASE fc.providers = <<>>
    <3>1. f = e
      BY <2>3, ParseShort DEF ProvidersLines
    <3>2. f6 = f5
      <4>1. f6 = [f5 EXCEPT !.providers = f5.providers]
        BY <1>7, <2>3 DEF Provided
      <4>2. f5 = [k \in DOMAIN f5 |-> f5[k]]
        BY DEF f5, Ordered
      <4> HIDE DEF f6
      <4>3. QED
        BY <4>1, <4>2
    <3>3. QED
      BY <1>13, <3>1, <3>2
  <2>4. CASE fc.providers # <<>>
    BY <1>13, <2>1, <2>2, <2>4, ProvidersRead
  <2>5. QED
    BY <2>3, <2>4
<1> HIDE DEF f, f6
<1>15. f.ok = TRUE /\ f.fc = f6 /\ ~(f.fresh /\ f.mode \in {"alerts", "plan"})
  BY <1>14 DEF Between, At, Opened
<1>16. Parsed(SerializeYAML(fc)) = Result(f)
  BY <1>1 DEF Parsed
<1>17. Result(f).fc = f6 /\ Result(f).ok
  BY <1>8, <1>15 DEF Result, CleanFile
<1>18. QED
  BY <1>8, <1>16, <1>17

=============================================================================
