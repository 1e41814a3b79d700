-------------------------- MODULE WebRequestProofs --------------------------
(***************************************************************************)
(* Proofs about a connection of the web server, for every request that the *)
(* parser tells apart, however it is cut into packets, and for every       *)
(* length of the answer and every size of the send buffer.                 *)
(***************************************************************************)
EXTENDS WebRequest, WellFoundedInduction, SequenceTheorems, TLAPS

-----------------------------------------------------------------------------
(* A packet is read one character at a time *)

\* A nonempty set of numbers has a least one.
LEMMA LeastExists ==
  ASSUME NEW S \in SUBSET Nat, S # {}
  PROVE  \E m \in S : \A n \in S : m <= n
<1>1. PICK x \in S : \A y \in S : ~(<<y, x>> \in OpToRel(<, Nat))
  BY NatLessThanWellFounded, WFMin
<1>2. ASSUME NEW y \in S, y < x PROVE <<y, x>> \in OpToRel(<, Nat)
  <2>1. y \in Nat /\ x \in Nat
    OBVIOUS
  <2> QED BY <1>2, <2>1, Zenon DEF OpToRel
<1>3. \A y \in S : ~(y < x)
  BY <1>1, <1>2, Zenon
<1> QED BY <1>3

\* A nonempty set of numbers up to N has a greatest one, which is Max of it.
LEMMA MaxOf ==
  ASSUME NEW N \in Nat, NEW S \in SUBSET (1..N), S # {}
  PROVE  Max(S) \in S /\ \A n \in S : n <= Max(S)
<1> DEFINE T == {N - x : x \in S}
<1>1. \A x \in S : N - x \in Nat /\ x \in Int
  OBVIOUS
<1>2. PICK m \in T : \A n \in T : m <= n
  <2>1. T \in SUBSET Nat /\ T # {}
    BY <1>1
  <2> QED BY <2>1, LeastExists
<1>3. PICK x \in S : m = N - x
  BY <1>2
<1>4. \A y \in S : N - x <= N - y
  BY <1>2, <1>3
<1>5. \E z \in S : \A y \in S : z >= y
  BY <1>1, <1>4
<1> QED BY <1>1, <1>5 DEF Max

\* g is the table that FoldLeft computes of the parser's states: for every subset of the
\* first n places of s, the parser's state when it has read what is there.
Table(g, p, s, n) ==
  g = [S \in SUBSET (1..n) |-> IF S = {} THEN p ELSE Feed(g[S \ {Max(S)}], s[Max(S)])]

\* The table of n places says what the table of n + 1 places is.
LEMMA TableGrows ==
  ASSUME NEW p, NEW s, NEW k \in Nat \ {0}, NEW g, Table(g, p, s, k - 1)
  PROVE  \E h : Table(h, p, s, k)
<1> DEFINE h == [S \in SUBSET (1..k) |-> IF k \in S THEN Feed(g[S \ {k}], s[k]) ELSE g[S]]
<1>1. ASSUME NEW S \in SUBSET (1..k)
      PROVE  h[S] = IF S = {} THEN p ELSE Feed(h[S \ {Max(S)}], s[Max(S)])
  <2>1. CASE k \in S
    <3>1. Max(S) \in S /\ k <= Max(S)
      BY <2>1, MaxOf
    <3>2. Max(S) = k
      <4> DEFINE m == Max(S)
      <4>1. m \in 1..k /\ k <= m
        BY <3>1
      <4> HIDE DEF m
      <4>2. m = k
        BY <4>1
      <4> QED BY <4>2 DEF m
    <3>3. S \ {k} \in SUBSET (1..k) /\ k \notin S \ {k}
      OBVIOUS
    <3>4. h[S] = Feed(g[S \ {k}], s[k]) /\ h[S \ {k}] = g[S \ {k}]
      BY <2>1, <3>3
    <3> HIDE DEF h
    <3> QED BY <2>1, <3>2, <3>4
  <2>2. CASE k \notin S
    <3>1. S \in SUBSET (1..(k - 1))
      BY <2>2
    <3>2. g[S] = IF S = {} THEN p ELSE Feed(g[S \ {Max(S)}], s[Max(S)])
      BY <3>1, Zenon DEF Table
    <3>3. S \ {Max(S)} \in SUBSET (1..k) /\ k \notin S \ {Max(S)}
      BY <2>2
    <3>4. h[S] = g[S] /\ h[S \ {Max(S)}] = g[S \ {Max(S)}]
      BY <2>2, <3>3
    <3> HIDE DEF h
    <3> QED BY <3>2, <3>4
  <2> QED BY <2>1, <2>2
<1>2. h = [S \in SUBSET (1..k) |-> h[S]]
  OBVIOUS
<1>3. h = [S \in SUBSET (1..k) |-> IF S = {} THEN p ELSE Feed(h[S \ {Max(S)}], s[Max(S)])]
  <2> HIDE DEF h
  <2> QED BY <1>1, <1>2
<1>4. Table(h, p, s, k)
  <2> HIDE DEF h
  <2> QED BY <1>3, Zenon DEF Table
<1> QED BY <1>4

\* There is a table for every number of places.
LEMMA TableExists ==
  ASSUME NEW p, NEW s, NEW n \in Nat
  PROVE  \E g : Table(g, p, s, n)
<1> DEFINE Bad == {k \in Nat : ~\E g : Table(g, p, s, k)}
<1>1. SUFFICES ASSUME Bad # {} PROVE FALSE
  OBVIOUS
<1>2. PICK k \in Bad : \A j \in Bad : k <= j
  BY <1>1, LeastExists
<1>3. CASE k = 0
  <2> DEFINE g == [S \in {{}} |-> p]
  <2>1. SUBSET (1..0) = {{}}
    OBVIOUS
  <2>2. g = [S \in SUBSET (1..0) |-> IF S = {} THEN p ELSE Feed(g[S \ {Max(S)}], s[Max(S)])]
    BY <2>1
  <2> HIDE DEF g
  <2>3. Table(g, p, s, 0)
    BY <2>2, Zenon DEF Table
  <2> QED BY <1>3, <2>3
<1>4. CASE k # 0
  <2>1. k \in Nat \ {0} /\ k - 1 \in Nat /\ ~(k <= k - 1)
    BY <1>4
  <2>2. \E g : Table(g, p, s, k - 1)
    BY <1>2, <2>1
  <2> QED BY <2>1, <2>2, TableGrows
<1> QED BY <1>3, <1>4

\* f lists the states of the parser that reads s from state p, one character at a time.
Reads(f, p, s) ==
  f[0] = p /\ \A n \in 1..Len(s) : f[n] = Feed(f[n - 1], s[n])

\* What FoldLeft makes of a packet is the last state of the list.
LEMMA PacketIsRead ==
  ASSUME NEW p, NEW s \in Seq(Chars)
  PROVE  \E f : Reads(f, p, s) /\ FoldLeft(Feed, p, s) = f[Len(s)]
<1>1. DOMAIN s = 1..Len(s) /\ Len(s) \in Nat
  OBVIOUS
<1> DEFINE g == CHOOSE g : Table(g, p, s, Len(s))
           f == [n \in 0..Len(s) |-> g[1..n]]
<1>2. Table(g, p, s, Len(s))
  BY <1>1, TableExists, Zenon
<1>3. FoldLeft(Feed, p, s) = g[1..Len(s)]
  BY <1>1, Zenon DEF FoldLeft, MapThenFoldSet, Table
<1> HIDE DEF g
<1>4. f[0] = p
  <2>1. {} \in SUBSET (1..Len(s)) /\ 1..0 = {}
    OBVIOUS
  <2>2. g[{}] = p
    BY <1>2, <2>1, Zenon DEF Table
  <2> QED BY <1>1, <2>1, <2>2
<1>5. ASSUME NEW n \in 1..Len(s) PROVE f[n] = Feed(f[n - 1], s[n])
  <2>1. 1..n \in SUBSET (1..Len(s)) /\ 1..n # {} /\ n \in 1..n /\ n \in Nat
    <3>1. n \in Nat /\ n \in 1..n /\ n <= Len(s) /\ Len(s) \in Nat
      BY <1>1
    <3>2. \A i \in 1..n : i \in 1..Len(s)
      BY <3>1
    <3> QED BY <3>1, <3>2
  <2>2. Max(1..n) \in 1..n /\ n <= Max(1..n)
    BY <2>1, MaxOf
  <2>3. Max(1..n) = n /\ (1..n) \ {n} = 1..(n - 1)
    BY <2>1, <2>2
  <2>4. g[1..n] = Feed(g[(1..n) \ {Max(1..n)}], s[Max(1..n)])
    BY <1>2, <2>1, Zenon DEF Table
  <2>5. f[n] = g[1..n] /\ f[n - 1] = g[1..(n - 1)]
    BY <1>1
  <2> HIDE DEF f
  <2> QED BY <2>3, <2>4, <2>5
<1>6. FoldLeft(Feed, p, s) = f[Len(s)]
  BY <1>1, <1>3
<1> HIDE DEF f
<1> QED BY <1>4, <1>5, <1>6 DEF Reads

-----------------------------------------------------------------------------
(* What the parser knows of what it has read *)

\* states of the parser
Parses == [state : {"start", "headers", "body", "end", "fail"},
           line : {"blank", "text", "len", "exp"}, length : {0, BodyLength}, parsed : Nat,
           expecting : BOOLEAN]

\* j is the place of the last end of a line among the first n characters
LastEnd(s, j, n) == s[j] = "n" /\ \A k \in (j + 1)..n : s[k] # "n"

\* p is what the parser may know of the first n characters of s; over: that a packet
\* ended where the body does
Knows(p, s, n, over) ==
  CASE p.state = "start" ->
         /\ \A k \in 1..n : s[k] # "n"
         /\ p.line = "blank" <=> White(s, 1, n)
         /\ p.length = 0 /\ p.parsed = 0
    [] p.state = "headers" ->
         /\ ~BlankFirst(s, n) /\ \A i \in 1..n : ~IsBlank(s, i)
         /\ \E j \in 1..n :
              /\ LastEnd(s, j, n)
              /\ p.line = "blank" <=> White(s, j + 1, n)
              /\ p.line = "len" <=> \E k \in (j + 1)..n : s[k] = "len"
              /\ p.length = Announced(s, j) /\ p.parsed = 0
    [] p.state = "body" ->
         /\ ~BlankFirst(s, n) /\ p.length = BodyLength
         /\ \E i \in HeadEnds(s) : i <= n /\ Announced(s, i) = BodyLength /\ p.parsed = n - i
    [] p.state = "end" ->
         /\ ~BlankFirst(s, n)
         /\ \E i \in HeadEnds(s) : i <= n /\ (Announced(s, i) = 0 \/ over)
    [] p.state = "fail" -> BlankFirst(s, n)

\* A line ends in the first line.
LEMMA FirstLineEnds ==
  ASSUME NEW p \in Parses, NEW s \in Inputs, NEW n \in Nat, n < Len(s), NEW over,
         Knows(p, s, n, over), p.state = "start", s[n + 1] = "n"
  PROVE  Knows(Feed(p, s[n + 1]), s, n + 1, over)
<1> DEFINE q == Feed(p, "n")
<1>1. /\ \A k \in 1..n : s[k] # "n"
      /\ p.line = "blank" <=> White(s, 1, n)
      /\ p.length = 0 /\ p.parsed = 0
  BY Zenon DEF Knows
<1>2. q = [p EXCEPT !.line = "blank", !.state = IF p.line = "blank" THEN "fail" ELSE "headers"]
  BY Zenon DEF Feed, ParseLine
<1>3. /\ q.state = IF p.line = "blank" THEN "fail" ELSE "headers"
      /\ q.line = "blank" /\ q.length = 0 /\ q.parsed = 0
  BY <1>1, <1>2 DEF Parses
<1> HIDE DEF q
<1>4. n + 1 \in 1..Len(s) /\ Len(s) \in Nat /\ s \in Seq(Chars)
  BY InputAssumption
<1>5. CASE p.line = "blank"
  <2>1. White(s, 1, (n + 1) - 1)
    BY <1>1, <1>5 DEF White
  <2>2. BlankFirst(s, n + 1)
    BY <2>1 DEF BlankFirst
  <2>3. Knows(q, s, n + 1, over)
    BY <1>3, <1>5, <2>2, Zenon DEF Knows
  <2> QED BY <2>3 DEF q
<1>6. CASE p.line # "blank"
  <2>1. ~White(s, 1, n)
    BY <1>1, <1>6
  <2>2. ~BlankFirst(s, n + 1)
    <3> SUFFICES ASSUME NEW i \in 1..(n + 1), s[i] = "n", White(s, 1, i - 1) PROVE FALSE
      BY DEF BlankFirst
    <3>1. i = n + 1
      BY <1>1
    <3> QED BY <2>1, <3>1
  <2>3. ASSUME NEW i \in 1..(n + 1) PROVE ~IsBlank(s, i)
    <3> SUFFICES ASSUME NEW j \in 1..(i - 1), s[j] = "n" PROVE FALSE
      BY DEF IsBlank
    <3> QED BY <1>1
  <2>4. LastEnd(s, n + 1, n + 1)
    BY DEF LastEnd
  <2>5. White(s, (n + 1) + 1, n + 1)
    BY DEF White
  <2>6. \A k \in 1..(n + 1) : s[k] # "len"
    <3> SUFFICES ASSUME NEW k \in 1..(n + 1), s[k] = "len" PROVE FALSE
      OBVIOUS
    <3>1. s[k] \in Headers /\ k \in 1..Len(s)
      BY <1>4 DEF Headers
    <3>2. PICK j \in 1..(k - 1) : s[j] = "n"
      BY <3>1, InputAssumption
    <3> QED BY <1>1, <3>2
  <2>7. q.length = Announced(s, n + 1)
    BY <1>3, <2>6 DEF Announced
  <2>8. ~\E k \in ((n + 1) + 1)..(n + 1) : s[k] = "len"
    OBVIOUS
  <2>9. n + 1 \in 1..(n + 1) /\ q.line = "blank" /\ q.line # "len" /\ q.state = "headers"
        /\ q.parsed = 0
    BY <1>3, <1>6
  <2>10. Knows(q, s, n + 1, over)
    BY <2>2, <2>3, <2>4, <2>5, <2>7, <2>8, <2>9, Zenon DEF Knows
  <2> QED BY <2>10 DEF q
<1> QED BY <1>5, <1>6

\* A character of the first line.
LEMMA FirstLineGrows ==
  ASSUME NEW p \in Parses, NEW s \in Inputs, NEW n \in Nat, n < Len(s), NEW over,
         Knows(p, s, n, over), p.state = "start", s[n + 1] # "n"
  PROVE  Knows(Feed(p, s[n + 1]), s, n + 1, over)
<1> DEFINE c == s[n + 1]
           q == Feed(p, c)
<1>1. /\ \A k \in 1..n : s[k] # "n"
      /\ p.line = "blank" <=> White(s, 1, n)
      /\ p.length = 0 /\ p.parsed = 0
  BY Zenon DEF Knows
<1>2. q = AddToLine(p, c)
  BY Zenon DEF Feed
<1>3. /\ q.state = "start" /\ q.length = 0 /\ q.parsed = 0
      /\ c = "w" => q.line = p.line
      /\ c # "w" => q.line # "blank"
  BY <1>1, <1>2 DEF Parses, AddToLine, Headers
<1> HIDE DEF q
<1>4. q.line = "blank" <=> White(s, 1, n + 1)
  BY <1>1, <1>3 DEF White
<1>5. \A k \in 1..(n + 1) : s[k] # "n"
  BY <1>1
<1>6. Knows(q, s, n + 1, over)
  BY <1>3, <1>4, <1>5, Zenon DEF Knows
<1> QED BY <1>6 DEF q

\* A header line ends, or the empty line.
LEMMA HeaderEnds ==
  ASSUME NEW p \in Parses, NEW s \in Inputs, NEW n \in Nat, n < Len(s), NEW over,
         Knows(p, s, n, over), p.state = "headers", s[n + 1] = "n"
  PROVE  Knows(Feed(p, s[n + 1]), s, n + 1, over)
<1> DEFINE q == Feed(p, "n")
<1>1. ~BlankFirst(s, n) /\ \A i \in 1..n : ~IsBlank(s, i)
  BY Zenon DEF Knows
<1>2. PICK j \in 1..n :
        /\ LastEnd(s, j, n)
        /\ p.line = "blank" <=> White(s, j + 1, n)
        /\ p.line = "len" <=> \E k \in (j + 1)..n : s[k] = "len"
        /\ p.length = Announced(s, j) /\ p.parsed = 0
  BY Zenon DEF Knows
<1>3. n + 1 \in 1..Len(s) /\ Len(s) \in Nat /\ s \in Seq(Chars) /\ j \in Nat
  BY InputAssumption
<1>4. ~BlankFirst(s, n + 1)
  <2> SUFFICES ASSUME NEW i \in 1..(n + 1), s[i] = "n", White(s, 1, i - 1) PROVE FALSE
    BY DEF BlankFirst
  <2>1. i = n + 1
    BY <1>1 DEF BlankFirst
  <2>2. s[j] = "n" /\ j \in 1..(i - 1)
    BY <1>2, <2>1 DEF LastEnd
  <2> QED BY <2>2 DEF White
<1>5. IsBlank(s, n + 1) <=> p.line = "blank"
  <2>1. ASSUME NEW l \in 1..n, s[l] = "n", White(s, l + 1, n) PROVE l = j
    <3>1. l <= j
      BY <1>2, <2>1 DEF LastEnd
    <3>2. ~(l < j)
      BY <1>2, <2>1 DEF LastEnd, White
    <3> QED BY <3>1, <3>2
  <2>2. CASE p.line = "blank"
    <3>1. s[n + 1] = "n" /\ s[j] = "n" /\ White(s, j + 1, (n + 1) - 1) /\ j \in 1..((n + 1) - 1)
      BY <1>2, <2>2 DEF LastEnd
    <3> QED BY <2>2, <3>1, Zenon DEF IsBlank
  <2>3. CASE p.line # "blank"
    <3>1. ASSUME NEW l \in 1..((n + 1) - 1), s[l] = "n", White(s, l + 1, (n + 1) - 1) PROVE FALSE
      <4>1. l \in 1..n /\ White(s, l + 1, n)
        BY <3>1
      <4>2. l = j
        BY <2>1, <3>1, <4>1
      <4> QED BY <1>2, <2>3, <4>1, <4>2
    <3> QED BY <2>3, <3>1, Zenon DEF IsBlank
  <2> QED BY <2>2, <2>3
<1>6. q = ParseLine(p)
  BY Zenon DEF Feed
<1>7. p.length \in {0, BodyLength} /\ BodyLength \in Nat \ {0} /\ p.expecting \in BOOLEAN
  BY RequestAssumption DEF Parses
<1>8. CASE p.line # "blank"
  <2>1. q.state = "headers" /\ q.line = "blank" /\ q.parsed = 0
        /\ q.length = IF p.line = "len" THEN BodyLength ELSE p.length
    BY <1>2, <1>6, <1>8 DEF ParseLine, Parses
  <2> HIDE DEF q
  <2>2. \A i \in 1..(n + 1) : ~IsBlank(s, i)
    <3> SUFFICES ASSUME NEW i \in 1..(n + 1) PROVE ~IsBlank(s, i)
      OBVIOUS
    <3>1. i \in 1..n \/ i = n + 1
      OBVIOUS
    <3> QED BY <1>1, <1>5, <1>8, <3>1
  <2>3. LastEnd(s, n + 1, n + 1) /\ White(s, (n + 1) + 1, n + 1) /\ n + 1 \in 1..(n + 1)
        /\ ~\E k \in ((n + 1) + 1)..(n + 1) : s[k] = "len"
    BY DEF LastEnd, White
  <2>4. (\E k \in 1..(n + 1) : s[k] = "len") <=> (p.line = "len" \/ \E k \in 1..j : s[k] = "len")
    <3>1. ASSUME NEW k \in 1..(n + 1), s[k] = "len"
          PROVE  k \in (j + 1)..n \/ k \in 1..j
      BY <1>3, <3>1
    <3>2. \A k \in (j + 1)..n : k \in 1..(n + 1)
      BY <1>3
    <3>3. \A k \in 1..j : k \in 1..(n + 1)
      BY <1>3
    <3> QED BY <1>2, <3>1, <3>2, <3>3, Zenon
  <2>5. q.length = Announced(s, n + 1)
    <3>1. p.length = IF \E k \in 1..j : s[k] = "len" THEN BodyLength ELSE 0
      BY <1>2, Zenon DEF Announced
    <3>2. Announced(s, n + 1) = IF \E k \in 1..(n + 1) : s[k] = "len" THEN BodyLength ELSE 0
      BY Zenon DEF Announced
    <3>3. Announced(s, n + 1) = IF p.line = "len" THEN BodyLength ELSE p.length
      BY <2>4, <3>1, <3>2, Zenon
    <3> QED BY <2>1, <3>3
  <2>6. q.line = "blank" /\ q.line # "len"
    BY <2>1
  <2>7. Knows(q, s, n + 1, over)
    BY <1>4, <2>1, <2>2, <2>3, <2>5, <2>6, Zenon DEF Knows
  <2> QED BY <2>7 DEF q
<1>9. CASE p.line = "blank"
  <2>1. /\ q.state = IF p.length > 0 THEN "body" ELSE "end"
        /\ q.parsed = 0 /\ q.length = p.length
    BY <1>2, <1>6, <1>9 DEF ParseLine, Parses
  <2> HIDE DEF q
  <2>2. n + 1 \in HeadEnds(s) /\ n + 1 <= n + 1
    <3>1. \A k \in 1..((n + 1) - 1) : ~IsBlank(s, k)
      BY <1>1
    <3> QED BY <1>3, <1>5, <1>9, <3>1 DEF HeadEnds
  <2>3. (\E k \in 1..(n + 1) : s[k] = "len") <=> (\E k \in 1..j : s[k] = "len")
    <3>1. \A k \in (j + 1)..n : s[k] # "len"
      BY <1>2, <1>9
    <3>2. \A k \in 1..(n + 1) : k \in 1..j \/ k \in (j + 1)..n \/ k = n + 1
      BY <1>3
    <3>3. \A k \in 1..j : k \in 1..(n + 1)
      BY <1>3
    <3>4. s[n + 1] # "len"
      OBVIOUS
    <3> QED BY <3>1, <3>2, <3>3, <3>4, Zenon
  <2>4. p.length = Announced(s, n + 1)
    BY <1>2, <2>3, Zenon DEF Announced
  <2>5. CASE p.length = 0
    <3>1. q.state = "end" /\ Announced(s, n + 1) = 0
      BY <2>1, <2>4, <2>5
    <3>2. Knows(q, s, n + 1, over)
      BY <1>4, <2>2, <3>1, Zenon DEF Knows
    <3> QED BY <3>2 DEF q
  <2>6. CASE p.length # 0
    <3>1. q.state = "body" /\ Announced(s, n + 1) = BodyLength /\ q.length = BodyLength
          /\ q.parsed = (n + 1) - (n + 1)
      BY <1>7, <2>1, <2>4, <2>6
    <3>2. Knows(q, s, n + 1, over)
      BY <1>4, <2>2, <3>1, Zenon DEF Knows
    <3> QED BY <3>2 DEF q
  <2> QED BY <2>5, <2>6
<1> QED BY <1>8, <1>9

\* A character of a header line.
LEMMA HeaderGrows ==
  ASSUME NEW p \in Parses, NEW s \in Inputs, NEW n \in Nat, n < Len(s), NEW over,
         Knows(p, s, n, over), p.state = "headers", s[n + 1] # "n"
  PROVE  Knows(Feed(p, s[n + 1]), s, n + 1, over)
<1> DEFINE c == s[n + 1]
           q == Feed(p, c)
<1>1. ~BlankFirst(s, n) /\ \A i \in 1..n : ~IsBlank(s, i)
  BY Zenon DEF Knows
<1>2. PICK j \in 1..n :
        /\ LastEnd(s, j, n)
        /\ p.line = "blank" <=> White(s, j + 1, n)
        /\ p.line = "len" <=> \E k \in (j + 1)..n : s[k] = "len"
        /\ p.length = Announced(s, j) /\ p.parsed = 0
  BY Zenon DEF Knows
<1>3. n + 1 \in 1..Len(s) /\ Len(s) \in Nat /\ s \in Seq(Chars) /\ j \in Nat /\ j \in 1..(n + 1)
  BY InputAssumption
<1>4. ~BlankFirst(s, n + 1)
  <2> SUFFICES ASSUME NEW i \in 1..(n + 1), s[i] = "n", White(s, 1, i - 1) PROVE FALSE
    BY DEF BlankFirst
  <2>1. i \in 1..n
    BY <1>1
  <2> QED BY <1>1, <2>1 DEF BlankFirst
<1>5. \A i \in 1..(n + 1) : ~IsBlank(s, i)
  <2> SUFFICES ASSUME NEW i \in 1..(n + 1), IsBlank(s, i) PROVE FALSE
    OBVIOUS
  <2>1. s[i] = "n"
    BY Zenon DEF IsBlank
  <2>2. i \in 1..n
    BY <2>1
  <2> QED BY <1>1, <2>2
<1>6. q = AddToLine(p, c)
  BY Zenon DEF Feed
<1>7. /\ q.state = "headers" /\ q.length = p.length /\ q.parsed = 0
      /\ c = "w" => q.line = p.line
      /\ c # "w" => q.line # "blank"
      /\ c \in Headers => q.line = c
      /\ c \notin Headers => (q.line = "len" <=> p.line = "len")
  <2>1. p.line \in {"blank", "text", "len", "exp"}
    BY DEF Parses
  <2> QED BY <1>2, <1>6, <2>1 DEF Parses, AddToLine, Headers
<1> HIDE DEF q
<1>8. LastEnd(s, j, n + 1)
  BY <1>2 DEF LastEnd
<1>9. White(s, j + 1, n + 1) <=> (White(s, j + 1, n) /\ c = "w")
  BY <1>3 DEF White
<1>10. q.line = "blank" <=> White(s, j + 1, n + 1)
  BY <1>2, <1>7, <1>9
<1>11. q.line = "len" <=> \E k \in (j + 1)..(n + 1) : s[k] = "len"
  <2>1. (\E k \in (j + 1)..(n + 1) : s[k] = "len") <=> (c = "len" \/ \E k \in (j + 1)..n : s[k] = "len")
    BY <1>3
  <2>2. CASE c \notin Headers
    <3>1. c # "len"
      BY <2>2 DEF Headers
    <3> QED BY <1>2, <1>7, <2>1, <2>2, <3>1
  <2>3. CASE c = "len"
    BY <1>7, <2>1, <2>3 DEF Headers
  <2>4. CASE c = "exp"
    <3>1. PICK l \in 1..n : s[l] = "n" /\ \A m \in (l + 1)..n : s[m] \notin Headers
      <4>1. s[n + 1] \in Headers /\ (n + 1) - 1 = n
        BY <2>4 DEF Headers
      <4>2. \E l \in 1..((n + 1) - 1) : s[l] = "n" /\ \A m \in (l + 1)..((n + 1) - 1) : s[m] \notin Headers
        BY <1>3, <4>1, InputAssumption
      <4> QED BY <4>1, <4>2
    <3>2. l <= j
      BY <1>2, <3>1 DEF LastEnd
    <3>3. \A m \in (j + 1)..n : s[m] # "len"
      BY <1>3, <3>1, <3>2 DEF Headers
    <3>4. q.line # "len"
      BY <1>7, <2>4 DEF Headers
    <3> QED BY <2>1, <2>4, <3>3, <3>4
  <2> QED BY <2>2, <2>3, <2>4 DEF Headers
<1>12. q.length = Announced(s, j)
  BY <1>2, <1>7
<1>13. Knows(q, s, n + 1, over)
  BY <1>3, <1>4, <1>5, <1>7, <1>8, <1>10, <1>11, <1>12, Zenon DEF Knows
<1> QED BY <1>13 DEF q

\* Behind the head the parser only counts.
LEMMA BehindHead ==
  ASSUME NEW p \in Parses, NEW s \in Inputs, NEW n \in Nat, n < Len(s), NEW over,
         Knows(p, s, n, over), p.state \in {"body", "end", "fail"}
  PROVE  Knows(Feed(p, s[n + 1]), s, n + 1, over)
<1> DEFINE q == Feed(p, s[n + 1])
<1>1. n + 1 \in 1..Len(s) /\ Len(s) \in Nat /\ s \in Seq(Chars)
  BY InputAssumption
<1>2. ASSUME NEW i \in HeadEnds(s), i <= n, ~BlankFirst(s, n)
      PROVE  i <= n + 1 /\ ~BlankFirst(s, n + 1)
  <2>1. i \in 1..n /\ s[i] = "n"
    BY <1>2 DEF HeadEnds, IsBlank
  <2> SUFFICES ASSUME NEW k \in 1..(n + 1), s[k] = "n", White(s, 1, k - 1) PROVE FALSE
    BY <2>1 DEF BlankFirst
  <2>2. k \notin 1..n
    BY <1>2 DEF BlankFirst
  <2>3. i \in 1..(k - 1)
    BY <2>1, <2>2
  <2> QED BY <2>1, <2>3 DEF White
<1>3. CASE p.state = "body"
  <2>1. q = [p EXCEPT !.parsed = @ + 1]
    BY <1>3, Zenon DEF Feed
  <2>2. q.state = "body" /\ q.length = p.length /\ q.parsed = p.parsed + 1
    BY <1>3, <2>1 DEF Parses
  <2> HIDE DEF q
  <2>3. ~BlankFirst(s, n) /\ p.length = BodyLength
    BY <1>3, Zenon DEF Knows
  <2>4. PICK i \in HeadEnds(s) : i <= n /\ Announced(s, i) = BodyLength /\ p.parsed = n - i
    BY <1>3, Zenon DEF Knows
  <2>5. i \in Nat /\ q.parsed = (n + 1) - i
    BY <2>2, <2>4 DEF HeadEnds
  <2>6. i <= n + 1 /\ ~BlankFirst(s, n + 1) /\ q.length = BodyLength
    BY <1>2, <2>2, <2>3, <2>4
  <2>7. Knows(q, s, n + 1, over)
    BY <2>2, <2>4, <2>5, <2>6, Zenon DEF Knows
  <2> QED BY <2>7 DEF q
<1>4. CASE p.state = "end"
  <2>1. q = p
    BY <1>4, Zenon DEF Feed
  <2>2. ~BlankFirst(s, n)
    BY <1>4, Zenon DEF Knows
  <2>3. PICK i \in HeadEnds(s) : i <= n /\ (Announced(s, i) = 0 \/ over)
    BY <1>4, Zenon DEF Knows
  <2>4. i <= n + 1 /\ ~BlankFirst(s, n + 1)
    BY <1>2, <2>2, <2>3
  <2>5. Knows(p, s, n + 1, over)
    BY <1>4, <2>3, <2>4, Zenon DEF Knows
  <2> QED BY <2>1, <2>5
<1>5. CASE p.state = "fail"
  <2>1. q = p
    BY <1>5, Zenon DEF Feed
  <2>2. BlankFirst(s, n)
    BY <1>5, Zenon DEF Knows
  <2>3. BlankFirst(s, n + 1)
    BY <2>2 DEF BlankFirst
  <2>4. Knows(p, s, n + 1, over)
    BY <1>5, <2>3, Zenon DEF Knows
  <2> QED BY <2>1, <2>4
<1> QED BY <1>3, <1>4, <1>5

\* Whatever comes, the parser keeps its types; it never goes back to the head, an end is
\* final, and what is expected stays expected.
LEMMA FeedKeeps ==
  ASSUME NEW p \in Parses, NEW c
  PROVE  /\ Feed(p, c) \in Parses
         /\ p.state = "end" => Feed(p, c) = p
         /\ p.state = "body" => Feed(p, c).state = "body"
         /\ ~Feed(p, c).expecting => ~p.expecting
<1>1. /\ p.state \in {"start", "headers", "body", "end", "fail"}
      /\ p.line \in {"blank", "text", "len", "exp"} /\ p.length \in {0, BodyLength}
      /\ p.parsed \in Nat /\ p.expecting \in BOOLEAN
  BY DEF Parses
<1>2. CASE p.state \in {"start", "headers"} /\ c = "n"
  <2>1. Feed(p, c) = ParseLine(p)
    BY <1>2, Zenon DEF Feed
  <2> DEFINE q == [p EXCEPT !.line = "blank"]
  <2>2. q \in Parses /\ q.expecting = p.expecting
    BY <1>1 DEF Parses
  <2>3. \/ \E st \in {"headers", "body", "end", "fail"} : ParseLine(p) = [q EXCEPT !.state = st]
        \/ ParseLine(p) = [q EXCEPT !.length = BodyLength]
        \/ ParseLine(p) = [q EXCEPT !.expecting = TRUE]
        \/ ParseLine(p) = q
    BY Zenon DEF ParseLine
  <2> HIDE DEF q
  <2>4. ParseLine(p) \in Parses /\ (~ParseLine(p).expecting => ~p.expecting)
    BY <2>2, <2>3 DEF Parses
  <2> QED BY <1>2, <2>1, <2>4
<1>3. CASE p.state \in {"start", "headers"} /\ c # "n"
  <2>1. Feed(p, c) = AddToLine(p, c)
    BY <1>3, Zenon DEF Feed
  <2> QED BY <1>1, <1>3, <2>1 DEF AddToLine, Parses, Headers
<1>4. CASE p.state = "body"
  <2>1. Feed(p, c) = [p EXCEPT !.parsed = @ + 1]
    BY <1>4, Zenon DEF Feed
  <2> QED BY <1>1, <1>4, <2>1 DEF Parses
<1>5. CASE p.state \in {"end", "fail"}
  <2>1. Feed(p, c) = p
    BY <1>5, Zenon DEF Feed
  <2> QED BY <1>5, <2>1
<1> QED BY <1>1, <1>2, <1>3, <1>4, <1>5

\* A packet is read character by character.
LEMMA PacketKnows ==
  ASSUME NEW p \in Parses, NEW s \in Inputs, NEW n \in Nat, NEW end \in (n + 1)..Len(s), NEW over,
         Knows(p, s, n, over)
  PROVE  LET q == FoldLeft(Feed, p, SubSeq(s, n + 1, end)) IN
         /\ q \in Parses /\ Knows(q, s, end, over)
         /\ p.state = "end" => q = p
         /\ p.state = "body" => q.state = "body"
         /\ ~q.expecting => ~p.expecting
<1> DEFINE t == SubSeq(s, n + 1, end)
           Good(q, m) == /\ q \in Parses /\ Knows(q, s, n + m, over)
                         /\ p.state = "end" => q = p
                         /\ p.state = "body" => q.state = "body"
                         /\ ~q.expecting => ~p.expecting
<1>1. s \in Seq(Chars) /\ Len(s) \in Nat /\ end \in Nat /\ end <= Len(s) /\ n < end
  BY InputAssumption
<1>2. /\ t \in Seq(Chars) /\ Len(t) = end - n
      /\ \A m \in 1..Len(t) : t[m] = s[n + m]
  <2>1. t \in Seq(Chars)
    BY <1>1
  <2>2. Len(t) = end - n
    BY <1>1
  <2>3. \A m \in 1..Len(t) : t[m] = s[n + m]
    BY <1>1, <2>2
  <2> QED BY <2>1, <2>2, <2>3
<1> HIDE DEF t
<1>3. PICK f : Reads(f, p, t) /\ FoldLeft(Feed, p, t) = f[Len(t)]
  BY <1>2, PacketIsRead
<1>4. Good(f[0], 0)
  BY <1>3 DEF Reads
<1>5. ASSUME NEW m \in 1..Len(t), Good(f[m - 1], m - 1) PROVE Good(f[m], m)
  <2> DEFINE r == f[m - 1]
  <2>1. n + (m - 1) \in Nat /\ (n + (m - 1)) + 1 = n + m /\ n + (m - 1) < Len(s)
    BY <1>1, <1>2
  <2>2. f[m] = Feed(r, s[n + m])
    BY <1>2, <1>3 DEF Reads
  <2>3. r \in Parses /\ Knows(r, s, n + (m - 1), over)
        /\ (p.state = "end" => r = p) /\ (p.state = "body" => r.state = "body")
        /\ (~r.expecting => ~p.expecting)
    BY <1>5
  <2> HIDE DEF r
  <2>4. r.state \in {"start", "headers", "body", "end", "fail"}
    BY <2>3 DEF Parses
  <2>5. Knows(Feed(r, s[n + m]), s, n + m, over)
    <3> DEFINE k == n + (m - 1)
    <3>1. k \in Nat /\ k + 1 = n + m /\ k < Len(s) /\ Knows(r, s, k, over)
      BY <2>1, <2>3
    <3> HIDE DEF k
    <3>2. Knows(Feed(r, s[k + 1]), s, k + 1, over)
      BY <2>3, <2>4, <3>1, FirstLineEnds, FirstLineGrows, HeaderEnds, HeaderGrows, BehindHead
    <3> QED BY <3>1, <3>2
  <2>6. /\ Feed(r, s[n + m]) \in Parses
        /\ r.state = "end" => Feed(r, s[n + m]) = r
        /\ r.state = "body" => Feed(r, s[n + m]).state = "body"
        /\ ~Feed(r, s[n + m]).expecting => ~r.expecting
    BY <2>3, FeedKeeps
  <2> QED BY <2>2, <2>3, <2>5, <2>6
<1>6. Good(f[Len(t)], Len(t))
  <2> DEFINE Bad == {m \in 0..Len(t) : ~Good(f[m], m)}
  <2> HIDE DEF Good
  <2>1. SUFFICES ASSUME Bad # {} PROVE FALSE
    BY <1>2
  <2>2. PICK m \in Bad : \A k \in Bad : m <= k
    <3>1. Bad \in SUBSET Nat
      BY <1>1, <1>2
    <3> QED BY <2>1, <3>1, LeastExists
  <2>3. m # 0
    BY <1>4, <2>2
  <2>4. m \in 1..Len(t) /\ m - 1 \in 0..Len(t) /\ ~(m <= m - 1)
    BY <1>2, <2>2, <2>3
  <2>5. Good(f[m - 1], m - 1)
    BY <2>2, <2>4
  <2>6. Good(f[m], m)
    BY <1>5, <2>4, <2>5
  <2> QED BY <2>2, <2>6
<1>7. n + Len(t) = end
  BY <1>1, <1>2
<1>8. Good(FoldLeft(Feed, p, t), end - n) /\ n + (end - n) = end
  BY <1>1, <1>2, <1>3, <1>6
<1> QED BY <1>8 DEF t

\* There is one end of the head.
LEMMA OneHead ==
  ASSUME NEW s \in Inputs, NEW i \in HeadEnds(s), NEW j \in HeadEnds(s)
  PROVE  i = j /\ i \in Nat
<1>1. /\ i \in Nat /\ i >= 1 /\ IsBlank(s, i) /\ \A k \in 1..(i - 1) : ~IsBlank(s, k)
      /\ j \in Nat /\ j >= 1 /\ IsBlank(s, j) /\ \A k \in 1..(j - 1) : ~IsBlank(s, k)
  BY DEF HeadEnds
<1>2. ~(i < j) /\ ~(j < i)
  BY <1>1
<1> QED BY <1>1, <1>2

\* Nothing is announced, or BodyLength.
LEMMA AnnouncedIs ==
  ASSUME NEW s, NEW i
  PROVE  Announced(s, i) \in {0, BodyLength} /\ BodyLength \in Nat \ {0}
BY RequestAssumption DEF Announced

\* q is what the parser knows when n characters of s have come, p what it knew before.
GoesOn(p, q, s, n, over) ==
  /\ q \in Parses /\ Knows(q, s, n, over)
  /\ p.state = "end" => q = p
  /\ p.state = "body" => q.state \in {"body", "end"}
  /\ q.state = "body" => q.parsed # q.length
  /\ ~q.expecting => ~p.expecting

\* At the end of a packet the length of the body is compared.
LEMMA PacketParsed ==
  ASSUME NEW p \in Parses, NEW s \in Inputs, NEW n \in Nat, NEW end \in (n + 1)..Len(s),
         NEW over \in BOOLEAN, Knows(p, s, n, over)
  PROVE  GoesOn(p, ParsePacket(p, SubSeq(s, n + 1, end)), s, end,
                over \/ end \in RequestEnds(s))
<1> DEFINE r == FoldLeft(Feed, p, SubSeq(s, n + 1, end))
           q == ParsePacket(p, SubSeq(s, n + 1, end))
           both == over \/ end \in RequestEnds(s)
<1>1. /\ r \in Parses /\ Knows(r, s, end, over)
      /\ p.state = "end" => r = p
      /\ p.state = "body" => r.state = "body"
      /\ ~r.expecting => ~p.expecting
  BY PacketKnows
<1>2. q = IF r.state = "body" /\ r.parsed = r.length THEN [r EXCEPT !.state = "end"] ELSE r
  BY Zenon DEF ParsePacket
<1> HIDE DEF q, r
<1>3. CASE r.state = "body" /\ r.parsed = r.length
  <2>1. q \in Parses /\ q.state = "end" /\ q.expecting = r.expecting
    BY <1>1, <1>2, <1>3 DEF Parses
  <2>2. ~BlankFirst(s, end) /\ r.length = BodyLength
    BY <1>1, <1>3, Zenon DEF Knows
  <2>3. PICK i \in HeadEnds(s) : i <= end /\ Announced(s, i) = BodyLength /\ r.parsed = end - i
    BY <1>1, <1>3, Zenon DEF Knows
  <2>4. end = i + Announced(s, i)
    BY <1>3, <2>2, <2>3, OneHead, AnnouncedIs
  <2>5. end \in RequestEnds(s)
    BY <2>4 DEF RequestEnds
  <2>6. Knows(q, s, end, both)
    BY <2>1, <2>2, <2>3, <2>5, Zenon DEF Knows
  <2>7. p.state # "end"
    BY <1>1, <1>3
  <2> HIDE DEF both
  <2>8. /\ q \in Parses /\ Knows(q, s, end, both) /\ p.state # "end" /\ q.state = "end"
        /\ ~q.expecting => ~p.expecting
    BY <1>1, <2>1, <2>6, <2>7
  <2>9. GoesOn(p, q, s, end, both)
    BY <2>8 DEF GoesOn
  <2> QED BY <2>9, Zenon DEF q, both
<1>4. CASE ~(r.state = "body" /\ r.parsed = r.length)
  <2>1. q = r
    BY <1>2, <1>4
  <2>2. Knows(r, s, end, both)
    <3>1. r.state \in {"start", "headers", "body", "fail"} \/ r.state = "end"
      BY <1>1 DEF Parses
    <3>2. CASE r.state = "end"
      <4>1. ~BlankFirst(s, end) /\ \E i \in HeadEnds(s) : i <= end /\ (Announced(s, i) = 0 \/ over)
        BY <1>1, <3>2, Zenon DEF Knows
      <4> QED BY <3>2, <4>1, Zenon DEF Knows
    <3>3. CASE r.state # "end"
      BY <1>1, <3>1, <3>3 DEF Knows
    <3> QED BY <3>2, <3>3
  <2> HIDE DEF both
  <2>3. /\ r \in Parses /\ Knows(r, s, end, both)
        /\ p.state = "end" => r = p
        /\ p.state = "body" => r.state \in {"body", "end"}
        /\ r.state = "body" => r.parsed # r.length
        /\ ~r.expecting => ~p.expecting
    BY <1>1, <1>4, <2>2
  <2>4. GoesOn(p, q, s, end, both)
    BY <2>1, <2>3, Zenon DEF GoesOn
  <2> QED BY <2>4, Zenon DEF q, both
<1> QED BY <1>3, <1>4

-----------------------------------------------------------------------------
(* What is written and acknowledged *)

\* connections and responses
Tcps == [wire : Seq(Nat), unacked : Nat, busy : BOOLEAN, failed : BOOLEAN, uncounted : Nat]
Responses == [state : {"none", "content", "wait ack", "end"}, content : Seq(Nat),
              contentLength : Int, sent : Int, acked : Nat, written : Nat]

\* the first k bytes of a response, and those of l bytes that come after them
Upto(k) == [i \in 1..k |-> i]
After(k, l) == [i \in 1..(l - k) |-> k + i]

\* Bytes behind bytes.
LEMMA ConcatBytes ==
  ASSUME NEW a \in Seq(Nat), NEW b \in Seq(Nat)
  PROVE  /\ a \o b \in Seq(Nat) /\ Len(a \o b) = Len(a) + Len(b) /\ Len(a) \in Nat /\ Len(b) \in Nat
         /\ \A i \in 1..(Len(a) + Len(b)) :
              (a \o b)[i] = IF i <= Len(a) THEN a[i] ELSE b[i - Len(a)]
<1>1. /\ a \o b \in Seq(Nat) /\ Len(a \o b) = Len(a) + Len(b)
      /\ \A i \in 1..(Len(a) + Len(b)) :
           (a \o b)[i] = IF i <= Len(a) THEN a[i] ELSE b[i - Len(a)]
  BY ConcatProperties, Zenon
<1> QED BY <1>1

\* Cutting what is sent in two loses nothing.
LEMMA UptoAndAfter ==
  ASSUME NEW k \in Nat, NEW l \in Nat, k <= l
  PROVE  /\ Upto(k) \in Seq(Nat) /\ Len(Upto(k)) = k
         /\ After(k, l) \in Seq(Nat) /\ Len(After(k, l)) = l - k
         /\ SubSeq(Upto(l), 1, k) = Upto(k)
         /\ SubSeq(Upto(l), k + 1, l) = After(k, l)
         /\ Upto(k) \o After(k, l) = Upto(l)
<1>1. Upto(k) \in Seq(Nat) /\ Len(Upto(k)) = k
  BY DEF Upto
<1>2. Upto(l) \in Seq(Nat) /\ Len(Upto(l)) = l
  BY DEF Upto
<1>3. After(k, l) \in Seq(Nat) /\ Len(After(k, l)) = l - k
  BY DEF After
<1>4. SubSeq(Upto(l), 1, k) = Upto(k)
  BY <1>2 DEF Upto
<1>5. SubSeq(Upto(l), k + 1, l) = After(k, l)
  BY <1>2 DEF Upto, After
<1>6. Upto(k) \o After(k, l) = Upto(l)
  <2>1. /\ Upto(k) \o After(k, l) \in Seq(Nat) /\ Len(Upto(k) \o After(k, l)) = l
    <3>1. /\ Upto(k) \o After(k, l) \in Seq(Nat)
          /\ Len(Upto(k) \o After(k, l)) = Len(Upto(k)) + Len(After(k, l))
      BY <1>1, <1>3, ConcatBytes, Zenon
    <3>2. Len(Upto(k)) + Len(After(k, l)) = l
      BY <1>1, <1>3
    <3> QED BY <3>1, <3>2
  <2>2. ASSUME NEW i \in 1..l PROVE (Upto(k) \o After(k, l))[i] = Upto(l)[i]
    BY <1>1, <1>3 DEF Upto, After
  <2> QED BY <1>2, <2>1, <2>2, SeqEqual
<1> QED BY <1>1, <1>3, <1>4, <1>5, <1>6

\* The next n bytes: at the end of what was sent, and at the front of what is left.
LEMMA NextBytes ==
  ASSUME NEW k \in Nat, NEW l \in Nat, NEW n \in Nat, k + n <= l
  PROVE  /\ Upto(k) \o SubSeq(After(k, l), 1, n) = Upto(k + n)
         /\ SubSeq(After(k, l), n + 1, Len(After(k, l))) = After(k + n, l)
         /\ SubSeq(After(k, l), 1, n) \in Seq(Nat) /\ Len(SubSeq(After(k, l), 1, n)) = n
<1>1. /\ Upto(k) \in Seq(Nat) /\ Len(Upto(k)) = k
      /\ After(k, l) \in Seq(Nat) /\ Len(After(k, l)) = l - k
  BY UptoAndAfter
<1>2. /\ Upto(k + n) \in Seq(Nat) /\ Len(Upto(k + n)) = k + n
      /\ After(k + n, l) \in Seq(Nat) /\ Len(After(k + n, l)) = l - (k + n)
  BY UptoAndAfter
<1> DEFINE a == SubSeq(After(k, l), 1, n)
           b == SubSeq(After(k, l), n + 1, Len(After(k, l)))
<1>3. /\ a \in Seq(Nat) /\ Len(a) = n /\ \A i \in 1..n : a[i] = k + i
  BY <1>1 DEF After
<1>4. /\ b \in Seq(Nat) /\ Len(b) = l - (k + n) /\ \A i \in 1..(l - (k + n)) : b[i] = k + n + i
  <2>1. b \in Seq(Nat) /\ Len(b) = l - (k + n)
    BY <1>1
  <2>2. ASSUME NEW i \in 1..(l - (k + n)) PROVE b[i] = k + n + i
    <3>1. b[i] = After(k, l)[n + i]
      BY <1>1
    <3> QED BY <3>1 DEF After
  <2> QED BY <2>1, <2>2
<1> HIDE DEF a, b
<1>5. Upto(k) \o a = Upto(k + n)
  <2>1. Upto(k) \o a \in Seq(Nat) /\ Len(Upto(k) \o a) = k + n
    BY <1>1, <1>3, ConcatBytes
  <2>2. ASSUME NEW i \in 1..(k + n) PROVE (Upto(k) \o a)[i] = Upto(k + n)[i]
    BY <1>1, <1>3 DEF Upto
  <2> QED BY <1>2, <2>1, <2>2, SeqEqual
<1>6. b = After(k + n, l)
  BY <1>2, <1>4 DEF After
<1> QED BY <1>3, <1>5, <1>6 DEF a, b

\* the bytes a, n in number, are added to a connection, and d of them are not counted
Added(t, a, n, d, busy) ==
  [t EXCEPT !.wire = t.wire \o a, !.unacked = t.unacked + n,
            !.uncounted = t.uncounted + d, !.busy = busy]

\* n bytes more wait for their acknowledgement, and the response counts the others
Adds(t, u, a, n) ==
  /\ u \in Tcps /\ u.wire = t.wire \o a /\ u.failed = t.failed
  /\ u.unacked = t.unacked + n
  /\ Written(t, u) \in Nat /\ Written(t, u) + u.uncounted = t.uncounted + n

\* The one does the other.
LEMMA TcpAdds ==
  ASSUME NEW t \in Tcps, NEW a \in Seq(Nat), NEW n \in Nat, Len(a) = n,
         NEW u, NEW d \in Nat, d <= n, NEW busy \in BOOLEAN,
         u = Added(t, a, n, d, busy)
  PROVE  Adds(t, u, a, n)
<1>1. /\ t.wire \in Seq(Nat) /\ t.unacked \in Nat /\ t.uncounted \in Nat
  BY DEF Tcps
<1>2. t.wire \o a \in Seq(Nat) /\ Len(t.wire \o a) = Len(t.wire) + n /\ Len(t.wire) \in Nat
  BY <1>1, ConcatBytes
<1> DEFINE w == t.wire \o a
<1> HIDE DEF w
<1>3. w \in Seq(Nat) /\ t.unacked + n \in Nat /\ t.uncounted + d \in Nat
  <2>1. w \in Seq(Nat)
    BY <1>2, Zenon DEF w
  <2>2. t.unacked + n \in Nat
    BY <1>1
  <2>3. t.uncounted + d \in Nat
    BY <1>1
  <2> QED BY <2>1, <2>2, <2>3
<1>4. u = [t EXCEPT !.wire = w, !.unacked = t.unacked + n, !.uncounted = t.uncounted + d,
                    !.busy = busy]
  BY DEF w, Added
<1>5. /\ u \in Tcps /\ u.wire = w /\ u.failed = t.failed
      /\ u.unacked = t.unacked + n /\ u.uncounted = t.uncounted + d
  BY <1>3, <1>4 DEF Tcps
<1>6. Written(t, u) = n - d
  <2>1. Len(u.wire) = Len(t.wire) + n
    BY <1>2, <1>5, Zenon DEF w
  <2> QED BY <1>1, <1>2, <1>5, <2>1 DEF Written
<1>7. Written(t, u) \in Nat /\ Written(t, u) + u.uncounted = t.uncounted + n
  BY <1>1, <1>5, <1>6
<1> QED BY <1>5, <1>7, Zenon DEF w, Adds

\* AsyncClient::write adds the front of what it is given, unless lwIP has no memory, and
\* what it does not report is not counted.
LEMMA WriteWrites ==
  ASSUME peer.sndbuf \in Nat, NEW t \in Tcps, t.unacked <= peer.sndbuf,
         NEW s \in Seq(Nat), NEW o \in Outcomes
  PROVE  LET u == Write(t, s, o)
             n == Least(Len(s), Space(t))
         IN /\ u \in Tcps /\ u.unacked <= peer.sndbuf /\ Written(t, u) \in Nat
            /\ \E d \in Nat : /\ u.unacked = t.unacked + d
                              /\ Written(t, u) + u.uncounted = t.uncounted + d
            /\ n \in Nat /\ n <= Len(s) /\ (n = Len(s) \/ n = Space(t))
            /\ ~u.failed => ~t.failed /\ u.wire = t.wire \o SubSeq(s, 1, n)
            /\ u.wire = t.wire \/ u.wire = t.wire \o SubSeq(s, 1, n)
<1> DEFINE u == Write(t, s, o)
           n == Least(Len(s), Space(t))
           a == SubSeq(s, 1, n)
           added == [t EXCEPT !.wire = @ \o a, !.unacked = @ + n]
<1>1. /\ t.wire \in Seq(Nat) /\ t.unacked \in Nat /\ t.failed \in BOOLEAN /\ t.busy \in BOOLEAN
      /\ t.uncounted \in Nat /\ Space(t) \in Nat /\ Len(s) \in Nat
  BY DEF Tcps, Space
<1>2. n \in Nat /\ n <= Len(s) /\ n <= Space(t) /\ (n = Len(s) \/ n = Space(t))
  BY <1>1 DEF Least
<1>3. u = CASE n > 0 /\ o = "sent"   -> [added EXCEPT !.busy = TRUE]
            [] n > 0 /\ o = "queued" -> [added EXCEPT !.uncounted = @ + n]
            [] OTHER -> [t EXCEPT !.failed = @ \/ n > 0]
  BY Zenon DEF Write
<1>4. "sent" # "queued"
  OBVIOUS
<1> HIDE DEF n, added
<1>5. a \in Seq(Nat) /\ Len(a) = n
  BY <1>2
<1>6. t.unacked + n <= peer.sndbuf
  BY <1>1, <1>2 DEF Space
<1> HIDE DEF u, a
<1>7. ASSUME NEW d \in Nat, d <= n, NEW busy \in BOOLEAN,
             u = Added(t, a, n, d, busy)
      PROVE  /\ u \in Tcps /\ u.unacked <= peer.sndbuf /\ Written(t, u) \in Nat
             /\ \E e \in Nat : /\ u.unacked = t.unacked + e
                               /\ Written(t, u) + u.uncounted = t.uncounted + e
             /\ ~u.failed => ~t.failed /\ u.wire = t.wire \o a
             /\ u.wire = t.wire \/ u.wire = t.wire \o a
  <2>1. Adds(t, u, a, n)
    BY <1>2, <1>5, <1>7, TcpAdds, Zenon
  <2>2. u.unacked <= peer.sndbuf
    BY <1>6, <2>1, Zenon DEF Adds
  <2> QED BY <1>2, <2>1, <2>2, Zenon DEF Adds
<1>8. CASE n > 0 /\ o = "sent"
  <2>1. u = [added EXCEPT !.busy = TRUE]
    BY <1>3, <1>8, Zenon
  <2>2. u = Added(t, a, n, 0, TRUE)
    <3>1. t.uncounted + 0 = t.uncounted
      BY <1>1
    <3> DEFINE w == t.wire \o a
               k == t.unacked + n
    <3>2. added = [t EXCEPT !.wire = w, !.unacked = k]
      BY DEF added, Tcps
    <3> HIDE DEF w, k
    <3>3. u = [t EXCEPT !.wire = w, !.unacked = k, !.uncounted = t.uncounted, !.busy = TRUE]
      BY <2>1, <3>2 DEF Tcps
    <3> QED BY <3>1, <3>3, Zenon DEF Added, w, k
  <2>3. 0 \in Nat /\ 0 <= n /\ TRUE \in BOOLEAN
    BY <1>2
  <2> QED BY <1>2, <1>7, <2>2, <2>3, Zenon DEF u, n, a
<1>9. CASE n > 0 /\ o = "queued"
  <2>1. u = [added EXCEPT !.uncounted = @ + n]
    BY <1>3, <1>4, <1>9, Zenon
  <2>2. u = Added(t, a, n, n, t.busy)
    <3> DEFINE w == t.wire \o a
               k == t.unacked + n
               c == t.uncounted + n
    <3>1. added = [t EXCEPT !.wire = w, !.unacked = k]
      BY DEF added, Tcps
    <3> HIDE DEF w, k
    <3>2. added.uncounted + n = c
      BY <3>1 DEF Tcps
    <3>3. u = [added EXCEPT !.uncounted = c]
      BY <2>1, <3>2, Zenon
    <3> HIDE DEF c
    <3>4. u = [t EXCEPT !.wire = w, !.unacked = k, !.uncounted = c, !.busy = t.busy]
      BY <3>1, <3>3 DEF Tcps
    <3> QED BY <3>4, Zenon DEF Added, w, k, c
  <2>3. n <= n
    BY <1>2
  <2> QED BY <1>1, <1>2, <1>7, <2>2, <2>3, Zenon DEF u, n, a
<1>10. CASE ~(n > 0 /\ o = "sent") /\ ~(n > 0 /\ o = "queued")
  <2>1. u = [t EXCEPT !.failed = @ \/ n > 0]
    BY <1>3, <1>10, Zenon
  <2>2. /\ u.wire = t.wire /\ u.unacked = t.unacked /\ u.failed = (t.failed \/ n > 0)
        /\ u.uncounted = t.uncounted
        /\ u = [t EXCEPT !.failed = (t.failed \/ n > 0)]
    BY <2>1 DEF Tcps
  <2>3. (t.failed \/ n > 0) \in BOOLEAN
    OBVIOUS
  <2>4. u \in Tcps
    BY <2>2, <2>3 DEF Tcps
  <2>5. Written(t, u) = 0 /\ t.uncounted + 0 = t.uncounted /\ 0 + t.uncounted = t.uncounted
        /\ t.unacked + 0 = t.unacked /\ 0 \in Nat
    BY <1>1, <2>2 DEF Written
  <2>6. ~u.failed => t.wire \o a = t.wire
    <3> SUFFICES ASSUME ~u.failed PROVE t.wire \o a = t.wire
      OBVIOUS
    <3>1. ~(n > 0)
      BY <2>2, Zenon
    <3>2. n = 0
      BY <1>2, <3>1
    <3>3. a = <<>>
      BY <1>5, <3>2, EmptySeq
    <3> QED BY <1>1, <3>3
  <2>7. \E d \in Nat : /\ u.unacked = t.unacked + d
                       /\ Written(t, u) + u.uncounted = t.uncounted + d
    BY <2>2, <2>5, Zenon
  <2>8. /\ u \in Tcps /\ u.unacked <= peer.sndbuf /\ Written(t, u) \in Nat
        /\ n \in Nat /\ n <= Len(s) /\ (n = Len(s) \/ n = Space(t))
        /\ ~u.failed => ~t.failed /\ u.wire = t.wire \o a
        /\ u.wire = t.wire \/ u.wire = t.wire \o a
    BY <1>2, <2>2, <2>4, <2>5, <2>6, Zenon
  <2> QED BY <2>7, <2>8 DEF u, n, a
<1> QED BY <1>8, <1>9, <1>10

-----------------------------------------------------------------------------
(* The events that are queued and what they will acknowledge *)

\* The events that are queued acknowledge what is open down to what lwIP still waits for:
\* m says how much is open when the first i of them have been handled.  It is no more than
\* what has been written, by a response or uncounted, and not been acknowledged to it.
Ledger(r, t, q) ==
  \E m \in [0..Len(q) -> Nat] :
    /\ m[0] + r.acked <= r.written + t.uncounted /\ m[Len(q)] = t.unacked
    /\ \A i \in 1..Len(q) : m[i - 1] = m[i] + q[i]
    /\ \A i, j \in 0..Len(q) : i <= j => m[j] <= m[i]

\* When nothing is queued, what is written is what lwIP waits for.
LEMMA LedgerStarts ==
  ASSUME NEW r, NEW t, t.unacked \in Nat, t.unacked + r.acked <= r.written + t.uncounted
  PROVE  Ledger(r, t, <<>>)
<1> DEFINE m == [i \in 0..0 |-> t.unacked]
<1>1. /\ m \in [0..0 -> Nat] /\ m[0] = t.unacked
      /\ \A i, j \in 0..0 : i <= j => m[j] <= m[i]
  OBVIOUS
<1>2. Len(<<>>) = 0 /\ 1..0 = {}
  OBVIOUS
<1> HIDE DEF m
<1> QED BY <1>1, <1>2, Zenon DEF Ledger

\* d bytes more are written.
LEMMA LedgerWrites ==
  ASSUME NEW r, NEW t, NEW q \in Seq(Nat), Ledger(r, t, q), NEW d \in Nat, NEW s, NEW u,
         t.unacked \in Nat, r.written \in Nat, r.acked \in Nat, t.uncounted \in Nat,
         s.written + u.uncounted = r.written + t.uncounted + d, s.acked = r.acked,
         u.unacked = t.unacked + d
  PROVE  Ledger(s, u, q)
<1>1. PICK m \in [0..Len(q) -> Nat] :
        /\ m[0] + r.acked <= r.written + t.uncounted /\ m[Len(q)] = t.unacked
        /\ \A i \in 1..Len(q) : m[i - 1] = m[i] + q[i]
        /\ \A i, j \in 0..Len(q) : i <= j => m[j] <= m[i]
  BY Zenon DEF Ledger
<1> DEFINE n == [i \in 0..Len(q) |-> m[i] + d]
<1>2. Len(q) \in Nat /\ \A i \in 1..Len(q) : q[i] \in Nat /\ i - 1 \in 0..Len(q) /\ i \in 0..Len(q)
  BY ElementOfSeq
<1>3. n \in [0..Len(q) -> Nat]
  OBVIOUS
<1>4. n[0] + s.acked <= s.written + u.uncounted /\ n[Len(q)] = u.unacked
  <2>1. 0 \in 0..Len(q) /\ Len(q) \in 0..Len(q)
    BY <1>2
  <2>2. n[0] = m[0] + d /\ m[0] \in Nat
    BY <2>1
  <2>3. n[0] + s.acked <= r.written + t.uncounted + d
    BY <1>1, <2>2
  <2>4. n[Len(q)] = u.unacked
    BY <1>1, <2>1
  <2> QED BY <2>3, <2>4, Zenon
<1>5. \A i \in 1..Len(q) : n[i - 1] = n[i] + q[i]
  <2> SUFFICES ASSUME NEW i \in 1..Len(q) PROVE n[i - 1] = n[i] + q[i]
    OBVIOUS
  <2>1. i - 1 \in 0..Len(q) /\ i \in 0..Len(q) /\ q[i] \in Nat
    BY <1>2
  <2>2. n[i - 1] = m[i - 1] + d /\ n[i] = m[i] + d /\ m[i] \in Nat
    BY <2>1
  <2>3. m[i - 1] = m[i] + q[i]
    BY <1>1
  <2> QED BY <2>1, <2>2, <2>3
<1>6. \A i, j \in 0..Len(q) : i <= j => n[j] <= n[i]
  <2> SUFFICES ASSUME NEW i \in 0..Len(q), NEW j \in 0..Len(q), i <= j PROVE n[j] <= n[i]
    OBVIOUS
  <2>1. m[i] \in Nat /\ m[j] \in Nat /\ m[j] <= m[i]
    BY <1>1
  <2> QED BY <2>1
<1> HIDE DEF n
<1> QED BY <1>3, <1>4, <1>5, <1>6, Zenon DEF Ledger

\* lwIP gets an acknowledgement of n bytes.
LEMMA LedgerAppends ==
  ASSUME NEW r, NEW t, NEW q \in Seq(Nat), Ledger(r, t, q), NEW n \in Nat, NEW u,
         t.unacked \in Nat, n <= t.unacked, u.unacked = t.unacked - n,
         u.uncounted = t.uncounted
  PROVE  Ledger(r, u, Append(q, n))
<1>1. PICK m \in [0..Len(q) -> Nat] :
        /\ m[0] + r.acked <= r.written + t.uncounted /\ m[Len(q)] = t.unacked
        /\ \A i \in 1..Len(q) : m[i - 1] = m[i] + q[i]
        /\ \A i, j \in 0..Len(q) : i <= j => m[j] <= m[i]
  BY Zenon DEF Ledger
<1> DEFINE l == Len(q) + 1
           h == [i \in 0..l |-> IF i = l THEN u.unacked ELSE m[i]]
           p == Append(q, n)
<1>2. Len(q) \in Nat /\ Len(p) = l /\ p[l] = n /\ \A i \in 1..Len(q) : p[i] = q[i]
  OBVIOUS
<1>3. h \in [0..l -> Nat]
  BY <1>2
<1>4. h[0] + r.acked <= r.written + u.uncounted /\ h[l] = u.unacked
  <2>1. h[0] = m[0] /\ h[l] = u.unacked
    BY <1>2
  <2> QED BY <1>1, <2>1, Zenon
<1>5. \A i \in 1..l : h[i - 1] = h[i] + p[i]
  <2> SUFFICES ASSUME NEW i \in 1..l PROVE h[i - 1] = h[i] + p[i]
    OBVIOUS
  <2>1. CASE i = l
    BY <1>1, <1>2, <2>1
  <2>2. CASE i # l
    <3>1. i \in 1..Len(q) /\ i - 1 \in 0..l /\ i - 1 # l /\ i \in 0..l
      BY <1>2, <2>2
    <3>2. h[i - 1] = m[i - 1] /\ h[i] = m[i]
      BY <2>2, <3>1
    <3> QED BY <1>1, <1>2, <3>1, <3>2
  <2> QED BY <2>1, <2>2
<1>6. \A i, j \in 0..l : i <= j => h[j] <= h[i]
  <2> SUFFICES ASSUME NEW i \in 0..l, NEW j \in 0..l, i <= j PROVE h[j] <= h[i]
    OBVIOUS
  <2>1. ASSUME NEW k \in 0..Len(q) PROVE m[k] \in Nat /\ m[Len(q)] <= m[k]
    <3>1. Len(q) \in 0..Len(q) /\ k <= Len(q)
      BY <1>2
    <3> QED BY <1>1, <3>1
  <2>2. CASE j # l
    <3>1. i \in 0..Len(q) /\ j \in 0..Len(q) /\ i # l
      BY <1>2, <2>2
    <3> QED BY <1>1, <2>2, <3>1
  <2>3. CASE j = l /\ i # l
    <3>1. i \in 0..Len(q)
      BY <1>2, <2>3
    <3> QED BY <1>1, <2>1, <2>3, <3>1
  <2>4. CASE j = l /\ i = l
    BY <2>4
  <2> QED BY <2>2, <2>3, <2>4
<1> HIDE DEF h, l, p
<1>7. Ledger(r, u, p)
  BY <1>2, <1>3, <1>4, <1>5, <1>6, Zenon DEF Ledger
<1> QED BY <1>7 DEF p

\* The response gets it.
LEMMA LedgerTails ==
  ASSUME NEW r, NEW t, NEW q \in Seq(Nat), Ledger(r, t, q), q # <<>>, NEW s,
         r.written \in Nat, r.acked \in Nat, t.uncounted \in Nat,
         s.written = r.written, s.acked \in Nat, s.acked <= r.acked + Head(q)
  PROVE  Ledger(s, t, Tail(q))
<1>1. PICK m \in [0..Len(q) -> Nat] :
        /\ m[0] + r.acked <= r.written + t.uncounted /\ m[Len(q)] = t.unacked
        /\ \A i \in 1..Len(q) : m[i - 1] = m[i] + q[i]
        /\ \A i, j \in 0..Len(q) : i <= j => m[j] <= m[i]
  BY Zenon DEF Ledger
<1> DEFINE l == Len(q) - 1
           h == [i \in 0..l |-> m[i + 1]]
           p == Tail(q)
<1>2. /\ Len(q) \in Nat \ {0} /\ Len(p) = l /\ Head(q) = q[1] /\ l \in Nat /\ Head(q) \in Nat
      /\ \A i \in 1..l : p[i] = q[i + 1]
  <2>1. Len(q) \in Nat \ {0}
    BY EmptySeq
  <2> QED BY <2>1
<1>3. h \in [0..l -> Nat]
  <2>1. \A i \in 0..l : i + 1 \in 0..Len(q)
    BY <1>2
  <2>2. \A i \in 0..l : m[i + 1] \in Nat
    BY <1>1, <2>1, Zenon
  <2> QED BY <2>2, Zenon
<1>4. h[0] + s.acked <= s.written + t.uncounted /\ h[l] = t.unacked
  <2>1. 1 \in 1..Len(q) /\ 1 \in 0..Len(q) /\ 1 - 1 = 0 /\ q[1] \in Nat
    BY <1>2
  <2>2. m[0] = m[1] + q[1] /\ m[1] \in Nat
    <3>1. m[1 - 1] = m[1] + q[1]
      BY <1>1, <2>1
    <3> QED BY <2>1, <3>1
  <2>3. h[0] = m[1] /\ h[l] = m[Len(q)]
    <3>1. 0 \in 0..l /\ l \in 0..l /\ 0 + 1 = 1 /\ l + 1 = Len(q)
      BY <1>2
    <3>2. h[0] = m[0 + 1] /\ h[l] = m[l + 1]
      BY <3>1
    <3> QED BY <3>1, <3>2
  <2>4. m[1] + s.acked <= s.written + t.uncounted
    <3>1. m[0] + r.acked <= r.written + t.uncounted
      BY <1>1, Zenon
    <3>2. s.acked <= r.acked + q[1]
      BY <1>2, Zenon
    <3>3. ASSUME NEW a \in Nat, NEW b \in Nat, NEW c \in Nat, NEW d \in Nat, NEW e \in Nat,
                 NEW f \in Nat, (a + b) + c <= d, e <= c + b
          PROVE  a + e <= d
      BY <3>3
    <3>4. (m[1] + q[1]) + r.acked <= r.written + t.uncounted /\ r.written + t.uncounted \in Nat
      BY <2>2, <3>1
    <3>5. m[1] + s.acked <= r.written + t.uncounted
      BY <2>1, <2>2, <3>2, <3>3, <3>4
    <3> QED BY <3>5
  <2> QED BY <1>1, <2>3, <2>4, Zenon
<1>5. \A i \in 1..l : h[i - 1] = h[i] + p[i]
  <2> SUFFICES ASSUME NEW i \in 1..l PROVE h[i - 1] = h[i] + p[i]
    OBVIOUS
  <2>1. i - 1 \in 0..l /\ i \in 0..l /\ i + 1 \in 1..Len(q) /\ (i - 1) + 1 = (i + 1) - 1
    BY <1>2
  <2>2. h[i - 1] = m[(i + 1) - 1] /\ h[i] = m[i + 1]
    BY <2>1
  <2> QED BY <1>1, <1>2, <2>1, <2>2
<1>6. \A i, j \in 0..l : i <= j => h[j] <= h[i]
  <2> SUFFICES ASSUME NEW i \in 0..l, NEW j \in 0..l, i <= j PROVE h[j] <= h[i]
    OBVIOUS
  <2>1. i + 1 \in 0..Len(q) /\ j + 1 \in 0..Len(q) /\ i + 1 <= j + 1
    BY <1>2
  <2> QED BY <1>1, <2>1
<1> HIDE DEF h, l, p
<1>7. Ledger(s, t, p)
  BY <1>2, <1>3, <1>4, <1>5, <1>6, Zenon DEF Ledger
<1> QED BY <1>7 DEF p

\* When the response has all its acknowledgements, lwIP waits for no more than was
\* written uncounted.
LEMMA LedgerEnds ==
  ASSUME NEW r, NEW t, NEW q \in Seq(Nat), Ledger(r, t, q), r.acked \in Nat, r.written \in Nat,
         t.uncounted \in Nat, r.acked >= r.written
  PROVE  t.unacked <= t.uncounted
<1>1. PICK m \in [0..Len(q) -> Nat] :
        /\ m[0] + r.acked <= r.written + t.uncounted /\ m[Len(q)] = t.unacked
        /\ \A i, j \in 0..Len(q) : i <= j => m[j] <= m[i]
  BY Zenon DEF Ledger
<1>2. 0 \in 0..Len(q) /\ Len(q) \in 0..Len(q) /\ 0 <= Len(q)
  OBVIOUS
<1>3. m[0] \in Nat /\ m[Len(q)] \in Nat /\ m[Len(q)] <= m[0]
  BY <1>1, <1>2
<1>4. m[0] + r.acked <= r.written + t.uncounted /\ m[Len(q)] = t.unacked
  BY <1>1, Zenon
<1> QED BY <1>3, <1>4

-----------------------------------------------------------------------------
(* AsyncBasicResponse::_ack *)

\* What may come before a response: nothing or the 100 Continue.
Before == {<<>>, <<0>>}

\* What has been sent of a response of l bytes, behind the 100 Continue, and what is left.
Delivers(r, t, l) ==
  ~t.failed =>
    \E z \in Before, k \in 0..l :
      /\ t.wire = z \o Upto(k)
      /\ r.state = "content" => r.content = After(k, l)
      /\ r.state # "content" => k = l

\* A response that is being sent, on a connection.
Sound(r, t, l) ==
  /\ r \in Responses /\ r.state # "none"
  /\ t \in Tcps
  /\ r.state = "content" => r.contentLength - r.sent = Len(r.content)
  /\ r.state = "end" => r.acked >= r.written
  /\ Delivers(r, t, l)

\* From r on t to v: v is sound, and has counted what it wrote.
Counts(v, r, t, len, l) ==
  /\ Sound(v.response, v.tcp, l) /\ v.tcp.unacked <= peer.sndbuf
  /\ \E d \in Nat : /\ v.tcp.unacked = t.unacked + d
                    /\ v.response.written + v.tcp.uncounted = r.written + t.uncounted + d
                    /\ v.response.acked = r.acked + len

\* the peer is one of those the constants allow
PeerSound == peer \in [input : Inputs, content : Contents, sndbuf : SendBuffers]

\* What the peer and the constants are.
LEMMA PeerTypes ==
  ASSUME PeerSound
  PROVE  /\ peer.input \in Inputs /\ peer.input \in Seq(Chars) /\ Len(peer.input) \in Nat
         /\ peer.content \in Nat /\ peer.sndbuf \in Nat \ {0}
         /\ HeadLength \in Nat \ {0} /\ HeadLength + peer.content \in Nat
<1>1. peer.input \in Inputs /\ peer.content \in Contents /\ peer.sndbuf \in SendBuffers
  BY DEF PeerSound
<1>2. HeadLength \in Nat \ {0} /\ peer.content \in Nat /\ peer.sndbuf \in Nat \ {0}
  BY <1>1, RequestAssumption
<1>3. Inputs \subseteq Seq(Chars)
  BY InputAssumption, Zenon
<1>4. peer.input \in Seq(Chars)
  BY <1>1, <1>3, Zenon
<1>5. Len(peer.input) \in Nat
  BY <1>4
<1>6. HeadLength + peer.content \in Nat
  BY <1>2
<1> QED BY <1>1, <1>2, <1>4, <1>5, <1>6

\* Parts of a response.
LEMMA ResponseFields ==
  ASSUME NEW r \in Responses
  PROVE  /\ r.state \in {"none", "content", "wait ack", "end"} /\ r.content \in Seq(Nat)
         /\ r.contentLength \in Int /\ r.sent \in Int /\ r.acked \in Nat /\ r.written \in Nat
         /\ Len(r.content) \in Nat
<1>1. /\ r.state \in {"none", "content", "wait ack", "end"} /\ r.content \in Seq(Nat)
      /\ r.contentLength \in Int /\ r.sent \in Int /\ r.acked \in Nat /\ r.written \in Nat
  BY DEF Responses
<1>2. Len(r.content) \in Nat
  BY <1>1, LenProperties, Zenon
<1> QED BY <1>1, <1>2

\* Parts of a connection.
LEMMA TcpFields ==
  ASSUME NEW t \in Tcps
  PROVE  /\ t.wire \in Seq(Nat) /\ t.unacked \in Nat /\ t.busy \in BOOLEAN
         /\ t.failed \in BOOLEAN /\ t.uncounted \in Nat
BY DEF Tcps

\* There is room for 0 bytes or more.
LEMMA SpaceIs ==
  ASSUME PeerSound, NEW t \in Tcps
  PROVE  Space(t) \in Int /\ (t.unacked <= peer.sndbuf => Space(t) \in Nat)
<1>1. t.unacked \in Nat /\ peer.sndbuf \in Nat
  BY TcpFields, PeerTypes
<1> QED BY <1>1 DEF Space

\* Bytes are put behind each other in any grouping.
LEMMA BytesAssociate ==
  ASSUME NEW a \in Seq(Nat), NEW b \in Seq(Nat), NEW c \in Seq(Nat)
  PROVE  (a \o b) \o c = a \o (b \o c)
BY ConcatAssociative, SMTT(30)

\* The 100 Continue is bytes.
LEMMA BeforeBytes ==
  ASSUME NEW z \in Before
  PROVE  z \in Seq(Nat)
<1>1. CASE z = <<>>
  BY <1>1
<1>2. CASE z = <<0>>
  <2>1. <<0>> \in Seq(Nat)
    OBVIOUS
  <2> QED BY <1>2, <2>1, Zenon
<1> QED BY <1>1, <1>2, Zenon DEF Before

\* The wire is extended behind what is on it.
LEMMA WireGrows ==
  ASSUME NEW z \in Before, NEW k \in Nat, NEW l \in Nat, NEW n \in Nat, k + n <= l
  PROVE  (z \o Upto(k)) \o SubSeq(After(k, l), 1, n) = z \o Upto(k + n)
<1>1. z \in Seq(Nat)
  BY BeforeBytes, Zenon
<1>2. k <= l
  OBVIOUS
<1>3. Upto(k) \in Seq(Nat)
  BY <1>2, UptoAndAfter, Zenon
<1> DEFINE a == SubSeq(After(k, l), 1, n)
<1>4. a \in Seq(Nat) /\ Upto(k) \o a = Upto(k + n)
  BY NextBytes, ZenonT(40)
<1> HIDE DEF a
<1>5. (z \o Upto(k)) \o a = z \o (Upto(k) \o a)
  BY <1>1, <1>3, <1>4, BytesAssociate, Zenon
<1> QED BY <1>4, <1>5, Zenon DEF a

\* w is on the wire, and rest is left; all is on the wire
Sending(w, rest, l) == \E z \in Before, k \in 0..l : w = z \o Upto(k) /\ rest = After(k, l)
AllSent(w, l) == \E z \in Before : w = z \o Upto(l)

\* The next n bytes of the content are written to the wire.
LEMMA BytesDelivered ==
  ASSUME NEW l \in Nat, NEW r, NEW t, Delivers(r, t, l), r.state = "content",
         ~t.failed, NEW n \in Nat, r.content \in Seq(Nat), n <= Len(r.content)
  PROVE  LET w == t.wire \o SubSeq(r.content, 1, n) IN
         /\ Sending(w, SubSeq(r.content, n + 1, Len(r.content)), l)
         /\ n = Len(r.content) => AllSent(w, l)
<1>1. PICK z \in Before, k \in 0..l : t.wire = z \o Upto(k) /\ r.content = After(k, l)
  BY Zenon DEF Delivers
<1>2. k \in Nat /\ k <= l
  OBVIOUS
<1>3. Len(After(k, l)) = l - k
  BY <1>2, UptoAndAfter, Zenon
<1>4. Len(r.content) = l - k
  BY <1>1, <1>3, Zenon
<1>5. k + n <= l /\ k + n \in 0..l /\ (n = Len(r.content) => k + n = l)
  BY <1>2, <1>4
<1>6. (z \o Upto(k)) \o SubSeq(After(k, l), 1, n) = z \o Upto(k + n)
  BY <1>2, <1>5, WireGrows, Zenon
<1>7. SubSeq(After(k, l), n + 1, Len(After(k, l))) = After(k + n, l)
  BY <1>2, <1>5, NextBytes, Zenon
<1> QED BY <1>1, <1>5, <1>6, <1>7, Zenon DEF Sending, AllSent

\* _ack, with room for all that is left.
LEMMA AckSendsAll ==
  ASSUME PeerSound, NEW l \in Nat, NEW r, NEW t, Sound(r, t, l),
         t.unacked <= peer.sndbuf, NEW len \in Nat,
         NEW o \in Outcomes, r.state = "content", Space(t) > r.contentLength - r.sent
  PROVE  Counts(Ack(r, t, len, o), r, t, len, l)
<1>1. /\ r \in Responses /\ t \in Tcps
      /\ r.contentLength - r.sent = Len(r.content)
      /\ Delivers(r, t, l)
  BY Zenon DEF Sound
<1>2. /\ r.content \in Seq(Nat) /\ r.acked \in Nat /\ r.written \in Nat
      /\ r.contentLength \in Int /\ r.sent \in Int
      /\ t.unacked \in Nat /\ t.wire \in Seq(Nat) /\ Len(r.content) \in Nat
  BY <1>1, ResponseFields, TcpFields, Zenon
<1>3. peer.sndbuf \in Nat
  BY PeerTypes
<1>4. Space(t) \in Nat
  BY <1>1, SpaceIs, Zenon
<1> DEFINE all == Write(t, SubSeq(r.content, 1, r.contentLength - r.sent), o)
           a == [r EXCEPT !.acked = @ + len]
           d == Written(t, all)
           b == [[a EXCEPT !.written = @ + d] EXCEPT !.content = <<>>, !.state = "wait ack"]
<1>5. Ack(r, t, len, o) = [tcp |-> all, response |-> b]
  <2>1. ~(Space(t) <= r.contentLength - r.sent)
    BY <1>2, <1>4
  <2> QED BY <2>1, Zenon DEF Ack
<1>6. SubSeq(r.content, 1, Len(r.content)) = r.content
  BY <1>2, SubSeqFull, Zenon
<1>7. all = Write(t, r.content, o)
  BY <1>1, <1>6, Zenon
<1>8. Least(Len(r.content), Space(t)) = Len(r.content)
  BY <1>1, <1>2, <1>4 DEF Least
<1> HIDE DEF all
<1>9. /\ all \in Tcps /\ all.unacked <= peer.sndbuf /\ Written(t, all) \in Nat
      /\ \E e \in Nat : /\ all.unacked = t.unacked + e
                        /\ Written(t, all) + all.uncounted = t.uncounted + e
      /\ ~all.failed => ~t.failed /\ all.wire = t.wire \o SubSeq(r.content, 1, Len(r.content))
  <2> DEFINE w == Write(t, r.content, o)
             n == Least(Len(r.content), Space(t))
  <2>1. /\ w \in Tcps /\ w.unacked <= peer.sndbuf /\ Written(t, w) \in Nat
        /\ \E e \in Nat : /\ w.unacked = t.unacked + e
                          /\ Written(t, w) + w.uncounted = t.uncounted + e
        /\ ~w.failed => ~t.failed /\ w.wire = t.wire \o SubSeq(r.content, 1, n)
    BY <1>1, <1>2, <1>3, WriteWrites, Zenon
  <2>2. w = all /\ n = Len(r.content)
    BY <1>7, <1>8, Zenon
  <2> HIDE DEF w, n
  <2> QED BY <2>1, <2>2, Zenon
<1>10. d \in Nat
  BY <1>9, Zenon
<1>17. PICK e \in Nat : all.unacked = t.unacked + e /\ d + all.uncounted = t.uncounted + e
  BY <1>9, Zenon
<1> HIDE DEF d
<1>18. (r.written + d) + all.uncounted = r.written + t.uncounted + e
  <2>1. t.uncounted \in Nat /\ all.uncounted \in Nat
    BY <1>1, <1>9, TcpFields, Zenon
  <2>2. r.written \in Nat
    BY <1>2, Zenon
  <2> QED BY <1>10, <1>17, <2>1, <2>2
<1>11. r.written + d \in Nat /\ r.acked + len \in Nat /\ <<>> \in Seq(Nat)
  <2>1. r.written \in Nat /\ r.acked \in Nat
    BY <1>2, Zenon
  <2>2. r.written + d \in Nat /\ r.acked + len \in Nat
    BY <1>10, <2>1
  <2> QED BY <2>2, EmptySeq, Zenon
<1>12. /\ b \in Responses /\ b.state = "wait ack" /\ b.written = r.written + d
       /\ b.acked = r.acked + len
  BY <1>1, <1>11 DEF Responses
<1> HIDE DEF b, a
<1>13. Delivers(b, all, l)
  <2> SUFFICES ASSUME ~all.failed
               PROVE \E z \in Before : all.wire = z \o Upto(l)
    <3>1. l \in 0..l
      OBVIOUS
    <3> QED BY <1>12, <3>1, Zenon DEF Delivers
  <2>1. Len(r.content) <= Len(r.content)
    BY <1>2
  <2>2. ~t.failed /\ all.wire = t.wire \o SubSeq(r.content, 1, Len(r.content))
    BY <1>9, Zenon
  <2>3. AllSent(t.wire \o SubSeq(r.content, 1, Len(r.content)), l)
    BY <1>1, <1>2, <2>1, <2>2, BytesDelivered, Zenon
  <2> QED BY <2>2, <2>3, Zenon DEF AllSent
<1>14. Sound(b, all, l)
  BY <1>9, <1>12, <1>13, Zenon DEF Sound
<1> DEFINE v == [tcp |-> all, response |-> b]
<1>15. v.tcp = all /\ v.response = b
  OBVIOUS
<1> HIDE DEF v
<1>16. Counts(v, r, t, len, l)
  BY <1>9, <1>12, <1>14, <1>15, <1>17, <1>18, Zenon DEF Counts
<1> QED BY <1>5, <1>16, Zenon DEF v

\* _ack, with room for a part.
LEMMA AckSendsPart ==
  ASSUME PeerSound, NEW l \in Nat, NEW r, NEW t, Sound(r, t, l),
         t.unacked <= peer.sndbuf, NEW len \in Nat,
         NEW o \in Outcomes, r.state = "content", Space(t) <= r.contentLength - r.sent
  PROVE  Counts(Ack(r, t, len, o), r, t, len, l)
<1>1. /\ r \in Responses /\ t \in Tcps
      /\ r.contentLength - r.sent = Len(r.content)
      /\ Delivers(r, t, l)
  BY Zenon DEF Sound
<1>2. /\ r.content \in Seq(Nat) /\ r.acked \in Nat /\ r.written \in Nat
      /\ r.contentLength \in Int /\ r.sent \in Int
      /\ t.unacked \in Nat /\ t.wire \in Seq(Nat) /\ Len(r.content) \in Nat
  BY <1>1, ResponseFields, TcpFields, Zenon
<1>3. peer.sndbuf \in Nat
  BY PeerTypes
<1> DEFINE space == Space(t)
           n == Least(space, Len(r.content))
<1>4. space \in Nat /\ n = space /\ space <= Len(r.content)
  <2>1. space \in Nat
    BY <1>1, SpaceIs, Zenon
  <2>2. space <= Len(r.content)
    BY <1>1
  <2> QED BY <2>1, <2>2, Zenon DEF Least
<1> DEFINE s == SubSeq(r.content, 1, n)
           part == Write(t, s, o)
           a == [r EXCEPT !.acked = @ + len]
           d == Written(t, part)
           b == [[a EXCEPT !.written = @ + d] EXCEPT !.content = Rest(@, space),
                                                    !.sent = @ + space]
<1>5. Ack(r, t, len, o) = [tcp |-> part, response |-> b]
  <2>1. ~(Space(t) > r.contentLength - r.sent)
    BY <1>1, <1>2, <1>4
  <2> QED BY <2>1, Zenon DEF Ack
<1> HIDE DEF space, n
<1>6. s = SubSeq(r.content, 1, space) /\ s \in Seq(Nat) /\ Len(s) = space
  BY <1>2, <1>4, SMTT(30)
<1> HIDE DEF s
<1>7. Least(Len(s), Space(t)) = Len(s)
  BY <1>4, <1>6 DEF Least, space
<1>8. SubSeq(s, 1, Len(s)) = s
  BY <1>6, SubSeqFull, Zenon
<1>9. /\ part \in Tcps /\ part.unacked <= peer.sndbuf /\ Written(t, part) \in Nat
      /\ \E e \in Nat : /\ part.unacked = t.unacked + e
                        /\ Written(t, part) + part.uncounted = t.uncounted + e
      /\ ~part.failed => ~t.failed /\ part.wire = t.wire \o s
  <2> DEFINE u == Write(t, s, o)
  <2>1. /\ u \in Tcps /\ u.unacked <= peer.sndbuf /\ Written(t, u) \in Nat
        /\ \E e \in Nat : /\ u.unacked = t.unacked + e
                          /\ Written(t, u) + u.uncounted = t.uncounted + e
        /\ ~u.failed => ~t.failed /\ u.wire = t.wire \o SubSeq(s, 1, Least(Len(s), Space(t)))
    BY <1>1, <1>3, <1>6, WriteWrites, Zenon
  <2> HIDE DEF u
  <2>2. SubSeq(s, 1, Least(Len(s), Space(t))) = s
    BY <1>7, <1>8, Zenon
  <2>3. /\ u \in Tcps /\ u.unacked <= peer.sndbuf /\ Written(t, u) \in Nat
        /\ \E e \in Nat : /\ u.unacked = t.unacked + e
                          /\ Written(t, u) + u.uncounted = t.uncounted + e
        /\ ~u.failed => ~t.failed /\ u.wire = t.wire \o s
    BY <2>1, <2>2, Zenon
  <2> QED BY <2>3, Zenon DEF u
<1> HIDE DEF part
<1>10. d \in Nat
  BY <1>9, Zenon
<1>21. PICK e \in Nat : part.unacked = t.unacked + e /\ d + part.uncounted = t.uncounted + e
  BY <1>9, Zenon
<1> HIDE DEF d
<1>22. (r.written + d) + part.uncounted = r.written + t.uncounted + e
  <2>1. t.uncounted \in Nat /\ part.uncounted \in Nat
    BY <1>1, <1>9, TcpFields, Zenon
  <2>2. r.written \in Nat
    BY <1>2, Zenon
  <2> QED BY <1>10, <1>21, <2>1, <2>2
<1> DEFINE rest == SubSeq(r.content, space + 1, Len(r.content))
<1>11. rest \in Seq(Nat) /\ Len(rest) = Len(r.content) - space
  BY <1>2, <1>4, SMTT(30)
<1>12. Rest(r.content, space) = rest
  BY Zenon DEF Rest
<1> HIDE DEF rest
<1>13. r.written + d \in Nat /\ r.acked + len \in Nat /\ r.sent + space \in Int
  <2>1. ASSUME NEW w \in Nat, NEW c \in Nat, NEW x \in Int, NEW y \in Nat
        PROVE  w + d \in Nat /\ c + len \in Nat /\ x + y \in Int
    BY <1>10
  <2> QED BY <1>2, <1>4, <2>1, Zenon
<1>14. b = [r EXCEPT !.acked = r.acked + len, !.written = r.written + d, !.content = rest,
                    !.sent = r.sent + space]
  BY <1>1, <1>12 DEF Responses
<1> HIDE DEF b, a
<1>15. /\ b \in Responses /\ b.state = "content" /\ b.written = r.written + d
       /\ b.acked = r.acked + len /\ b.content = rest /\ b.sent = r.sent + space
       /\ b.contentLength = r.contentLength
  BY <1>1, <1>11, <1>13, <1>14 DEF Responses
<1>16. r.contentLength - (r.sent + space) = Len(rest)
  <2>1. r.contentLength \in Int /\ r.sent \in Int /\ space \in Int
    BY <1>2, <1>4
  <2>2. r.contentLength - r.sent = Len(r.content)
    BY <1>1, Zenon
  <2>3. r.contentLength - (r.sent + space) = Len(r.content) - space
    BY <2>1, <2>2
  <2>4. Len(rest) = Len(r.content) - space
    BY <1>11, Zenon
  <2> QED BY <2>3, <2>4, Zenon
<1>17. Delivers(b, part, l)
  <2> SUFFICES ASSUME ~part.failed
               PROVE \E z \in Before, k \in 0..l : part.wire = z \o Upto(k) /\ rest = After(k, l)
    BY <1>15, Zenon DEF Delivers
  <2>1. ~t.failed /\ part.wire = t.wire \o SubSeq(r.content, 1, space)
    BY <1>6, <1>9, Zenon
  <2>2. Sending(t.wire \o SubSeq(r.content, 1, space), rest, l)
    BY <1>1, <1>2, <1>4, <2>1, BytesDelivered, Zenon DEF rest
  <2> QED BY <2>1, <2>2, Zenon DEF Sending
<1>18. Sound(b, part, l)
  <2>1. b.contentLength - b.sent = Len(b.content) /\ b.state # "end" /\ b.state # "none"
    BY <1>15, <1>16
  <2> QED BY <1>9, <1>15, <1>17, <2>1, Zenon DEF Sound
<1> DEFINE v == [tcp |-> part, response |-> b]
<1>19. v.tcp = part /\ v.response = b
  OBVIOUS
<1> HIDE DEF v
<1>20. Counts(v, r, t, len, l)
  BY <1>9, <1>15, <1>18, <1>19, <1>21, <1>22, Zenon DEF Counts
<1> QED BY <1>5, <1>20, Zenon DEF v

\* _ack, when everything has been sent.
LEMMA AckWaits ==
  ASSUME PeerSound, NEW l \in Nat, NEW r, NEW t, Sound(r, t, l),
         t.unacked <= peer.sndbuf, NEW len \in Nat,
         NEW o \in Outcomes, r.state # "content"
  PROVE  Counts(Ack(r, t, len, o), r, t, len, l)
<1>1. /\ r \in Responses /\ r.state # "none" /\ t \in Tcps
      /\ r.state = "end" => r.acked >= r.written
      /\ Delivers(r, t, l)
  BY Zenon DEF Sound
<1>2. /\ r.state \in {"wait ack", "end"} /\ r.acked \in Nat /\ r.written \in Nat
      /\ t.unacked \in Nat
  <2>1. /\ r.state \in {"none", "content", "wait ack", "end"} /\ r.acked \in Nat
        /\ r.written \in Nat /\ t.unacked \in Nat
    BY <1>1, ResponseFields, TcpFields, Zenon
  <2> QED BY <1>1, <2>1
<1> DEFINE a == [r EXCEPT !.acked = @ + len]
<1>3. /\ a \in Responses /\ a.state = r.state /\ a.written = r.written
      /\ a.acked = r.acked + len
  <2>1. ASSUME NEW n \in Nat PROVE n + len \in Nat
    OBVIOUS
  <2>2. r.acked + len \in Nat
    BY <1>2, <2>1, Zenon
  <2> QED BY <1>1, <2>2 DEF Responses
<1>4. ASSUME NEW b \in Responses, b.state \in {"wait ack", "end"},
             b.state = "end" => b.acked >= b.written, b.acked = r.acked + len,
             b.written = r.written
      PROVE  Counts([tcp |-> t, response |-> b], r, t, len, l)
  <2>1. b.state # "content" /\ b.state # "none"
    BY <1>4
  <2>2. Delivers(b, t, l)
    BY <1>1, <2>1, Zenon DEF Delivers
  <2>3. Sound(b, t, l)
    BY <1>1, <1>4, <2>1, <2>2, Zenon DEF Sound
  <2>4. /\ t.unacked = t.unacked + 0 /\ 0 \in Nat
        /\ b.written + t.uncounted = r.written + t.uncounted + 0
    <3>1. \A n \in Nat, k \in Nat : n = n + 0 /\ n + k = n + k + 0
      OBVIOUS
    <3>2. t.uncounted \in Nat
      BY <1>1, TcpFields, Zenon
    <3> QED BY <1>2, <1>4, <3>1, <3>2, Zenon
  <2> DEFINE v == [tcp |-> t, response |-> b]
  <2>5. v.tcp = t /\ v.response = b
    OBVIOUS
  <2> HIDE DEF v
  <2>6. Counts(v, r, t, len, l)
    BY <1>4, <2>3, <2>4, <2>5, Zenon DEF Counts
  <2> QED BY <2>6 DEF v
<1>5. CASE r.state = "wait ack" /\ AllAcked(a)
  <2> DEFINE b == [a EXCEPT !.state = "end"]
  <2>1. Ack(r, t, len, o) = [tcp |-> t, response |-> b]
    BY <1>5, Zenon DEF Ack
  <2>2. a.acked >= a.written
    BY <1>5, Zenon DEF AllAcked
  <2> HIDE DEF a
  <2>3. /\ b \in Responses /\ b.state = "end" /\ b.acked = a.acked /\ b.written = a.written
    BY <1>3 DEF Responses
  <2> HIDE DEF b
  <2> QED BY <1>3, <1>4, <2>1, <2>2, <2>3
<1>6. CASE ~(r.state = "wait ack" /\ AllAcked(a))
  <2>1. Ack(r, t, len, o) = [tcp |-> t, response |-> a]
    BY <1>6, Zenon DEF Ack
  <2>2. r.state = "end" => r.acked + len >= r.written
    BY <1>1, <1>2
  <2> HIDE DEF a
  <2> QED BY <1>2, <1>3, <1>4, <2>1, <2>2
<1> QED BY <1>5, <1>6

\* _ack keeps a response sound, and what it writes it counts.
LEMMA AckKeeps ==
  ASSUME PeerSound, NEW l \in Nat, NEW r, NEW t, Sound(r, t, l),
         t.unacked <= peer.sndbuf, NEW len \in Nat,
         NEW o \in Outcomes
  PROVE  Counts(Ack(r, t, len, o), r, t, len, l)
<1>1. CASE r.state # "content"
  BY <1>1, AckWaits, Zenon
<1>2. CASE r.state = "content" /\ Space(t) > r.contentLength - r.sent
  BY <1>2, AckSendsAll, Zenon
<1>3. CASE r.state = "content" /\ ~(Space(t) > r.contentLength - r.sent)
  <2>1. r \in Responses /\ t \in Tcps
    BY Zenon DEF Sound
  <2>2. Space(t) \in Int /\ r.contentLength - r.sent \in Int
    <3>1. Space(t) \in Int /\ r.contentLength \in Int /\ r.sent \in Int
      BY <2>1, SpaceIs, ResponseFields, Zenon
    <3> QED BY <3>1
  <2>3. Space(t) <= r.contentLength - r.sent
    BY <1>3, <2>2
  <2> QED BY <1>3, <2>3, AckSendsPart, Zenon
<1> QED BY <1>1, <1>2, <1>3, Zenon

-----------------------------------------------------------------------------
(* AsyncBasicResponse::_respond *)

\* What is kept, and the two lengths, after n of l bytes.
Cut(n, kind, rest, length, sent, l) ==
  /\ kind \in {"content", "wait ack"} /\ rest \in Seq(Nat) /\ length \in Int /\ sent \in Int
  /\ kind = "content" => rest = After(n, l) /\ length - sent = l - n
  /\ kind = "wait ack" => n = l

\* A response that is not there.
LEMMA NoResponseIs ==
  /\ NoResponse \in Responses /\ NoResponse.state = "none" /\ NoResponse.written = 0
  /\ NoResponse.acked = 0
<1>1. <<>> \in Seq(Nat)
  BY EmptySeq, Zenon
<1> QED BY <1>1 DEF NoResponse, Responses

\* a response that is started, as _respond makes it and as it is
Made(kind, rest, length, sent, d) ==
  [NoResponse EXCEPT !.state = kind, !.content = rest, !.sent = sent,
     !.contentLength = length, !.written = d]

IsMade(b, kind, rest, length, sent, d) ==
  /\ b \in Responses /\ b.state = kind /\ b.content = rest /\ b.sent = sent
  /\ b.contentLength = length /\ b.written = d /\ b.acked = 0

\* The one is the other.
LEMMA ResponseMade ==
  ASSUME NEW kind \in {"content", "wait ack"}, NEW rest \in Seq(Nat), NEW length \in Int,
         NEW sent \in Int, NEW d \in Nat
  PROVE  IsMade(Made(kind, rest, length, sent, d), kind, rest, length, sent, d)
<1>1. NoResponse \in Responses /\ NoResponse.acked = 0
  BY NoResponseIs, Zenon
<1> QED BY <1>1 DEF Responses, Made, IsMade

\* The first piece of a response is sent, and the rest kept.
LEMMA SendStarts ==
  ASSUME PeerSound, NEW t \in Tcps, t.unacked <= peer.sndbuf, t.wire \in Before,
         NEW l \in Nat, NEW n \in 0..l, n <= Space(t), NEW o \in Outcomes,
         NEW kind, NEW rest, NEW length, NEW sent, Cut(n, kind, rest, length, sent, l)
  PROVE  LET u == Write(t, SubSeq(Upto(l), 1, n), o) IN
         Counts([tcp |-> u,
                 response |-> [NoResponse EXCEPT !.state = kind, !.content = rest,
                                 !.sent = sent, !.contentLength = length,
                                 !.written = Written(t, u)]], NoResponse, t, 0, l)
<1> DEFINE s == SubSeq(Upto(l), 1, n)
           u == Write(t, s, o)
           d == Written(t, u)
           b == Made(kind, rest, length, sent, d)
           v == [tcp |-> u, response |-> b]
<1>1. n \in Nat /\ n <= l
  OBVIOUS
<1>2. /\ kind \in {"content", "wait ack"} /\ rest \in Seq(Nat) /\ length \in Int /\ sent \in Int
      /\ kind = "content" => rest = After(n, l) /\ length - sent = l - n
      /\ kind = "wait ack" => n = l
  BY Zenon DEF Cut
<1>3. /\ Upto(n) \in Seq(Nat) /\ Len(Upto(n)) = n /\ s = Upto(n)
  BY <1>1, UptoAndAfter, Zenon
<1>4. t.unacked \in Nat /\ t.wire \in Seq(Nat) /\ peer.sndbuf \in Nat /\ Space(t) \in Nat
  BY TcpFields, PeerTypes, SpaceIs
<1>5. Least(n, Space(t)) = n
  BY <1>1 DEF Least
<1> HIDE DEF s
<1>6. SubSeq(s, 1, n) = s /\ s \in Seq(Nat) /\ Len(s) = n
  <2>1. SubSeq(s, 1, Len(s)) = s
    BY <1>3, SubSeqFull, Zenon
  <2> QED BY <1>3, <2>1, Zenon
<1>7. /\ u \in Tcps /\ u.unacked <= peer.sndbuf /\ d \in Nat
      /\ \E e \in Nat : u.unacked = t.unacked + e /\ d + u.uncounted = t.uncounted + e
      /\ ~u.failed => ~t.failed /\ u.wire = t.wire \o s
  <2>1. /\ u \in Tcps /\ u.unacked <= peer.sndbuf /\ d \in Nat
        /\ \E e \in Nat : u.unacked = t.unacked + e /\ d + u.uncounted = t.uncounted + e
        /\ ~u.failed => ~t.failed /\ u.wire = t.wire \o SubSeq(s, 1, Least(Len(s), Space(t)))
    BY <1>4, <1>6, WriteWrites, Zenon
  <2>2. SubSeq(s, 1, Least(Len(s), Space(t))) = s
    BY <1>5, <1>6, Zenon
  <2> HIDE DEF u, d
  <2> QED BY <2>1, <2>2, Zenon
<1> HIDE DEF u, d
<1>8. /\ b \in Responses /\ b.state = kind /\ b.content = rest /\ b.sent = sent
      /\ b.contentLength = length /\ b.written = d /\ b.acked = 0
  <2>1. /\ d \in Nat /\ kind \in {"content", "wait ack"} /\ rest \in Seq(Nat) /\ length \in Int
        /\ sent \in Int
    BY <1>2, <1>7, Zenon
  <2>2. IsMade(b, kind, rest, length, sent, d)
    BY <2>1, ResponseMade, Zenon
  <2> HIDE DEF b
  <2> QED BY <2>2, Zenon DEF IsMade
<1> HIDE DEF b
<1>9. Delivers(b, u, l)
  <2> SUFFICES ASSUME ~u.failed
               PROVE \E z \in Before, k \in 0..l :
                       /\ u.wire = z \o Upto(k)
                       /\ b.state = "content" => b.content = After(k, l)
                       /\ b.state # "content" => k = l
    BY Zenon DEF Delivers
  <2>1. u.wire = t.wire \o Upto(n)
    BY <1>3, <1>7, Zenon
  <2>2. b.state # "content" => n = l
    BY <1>2, <1>8
  <2> QED BY <1>2, <1>8, <2>1, <2>2, Zenon
<1>10. b.state = "content" => b.contentLength - b.sent = Len(b.content)
  <2> SUFFICES ASSUME b.state = "content" PROVE b.contentLength - b.sent = Len(b.content)
    OBVIOUS
  <2>1. Len(After(n, l)) = l - n
    BY <1>1, UptoAndAfter, Zenon
  <2> QED BY <1>2, <1>8, <2>1, Zenon
<1>11. Sound(b, u, l)
  <2>1. b.state # "none" /\ b.state # "end"
    BY <1>2, <1>8
  <2> QED BY <1>7, <1>8, <1>9, <1>10, <2>1, Zenon DEF Sound
<1>12. v.tcp = u /\ v.response = b
  OBVIOUS
<1>15. PICK e \in Nat : u.unacked = t.unacked + e /\ d + u.uncounted = t.uncounted + e
  BY <1>7, Zenon
<1>13. /\ b.written + u.uncounted = NoResponse.written + t.uncounted + e
       /\ b.acked = NoResponse.acked + 0
  <2>1. t.uncounted \in Nat /\ u.uncounted \in Nat
    BY <1>7, TcpFields, Zenon
  <2>2. NoResponse.written = 0 /\ NoResponse.acked = 0
    BY DEF NoResponse
  <2>3. d + u.uncounted = 0 + t.uncounted + e /\ 0 = 0 + 0
    BY <1>7, <1>15, <2>1
  <2> QED BY <1>8, <2>2, <2>3, Zenon
<1> HIDE DEF v
<1>14. Counts(v, NoResponse, t, 0, l)
  BY <1>7, <1>11, <1>12, <1>13, <1>15, Zenon DEF Counts
<1> QED BY <1>14, Zenon DEF v, b, d, u, s, Made

\* _respond starts a sound response.
LEMMA RespondStarts ==
  ASSUME PeerSound, NEW t \in Tcps, t.unacked <= peer.sndbuf, t.wire \in Before,
         NEW o \in Outcomes
  PROVE  Counts(Respond(t, o), NoResponse, t, 0, HeadLength + peer.content)
<1> DEFINE c == peer.content
           l == HeadLength + c
           space == Space(t)
<1>1. /\ c \in Nat /\ HeadLength \in Nat /\ HeadLength > 0 /\ l \in Nat /\ HeadLength <= l
      /\ l = HeadLength + c
  BY PeerTypes
<1>2. space \in Nat
  BY SpaceIs
<1>3. Full(c) = Upto(l)
  BY Zenon DEF Full, Upto
<1> DEFINE Kept(n) == SubSeq(Upto(l), n + 1, Len(Upto(l)))
           Send(n, kind, rest, length, sent) ==
             LET u == Write(t, SubSeq(Upto(l), 1, n), o) IN
             [tcp |-> u,
              response |-> [NoResponse EXCEPT !.state = kind, !.content = rest, !.sent = sent,
                              !.contentLength = length, !.written = Written(t, u)]]
<1>4. Respond(t, o) =
        CASE c = 0 /\ space >= HeadLength -> Send(HeadLength, "wait ack", <<>>, 0, 0)
          [] c > 0 /\ space >= HeadLength + c ->
               Send(HeadLength + c, "wait ack", Kept(HeadLength), c, 0)
          [] space > 0 /\ space < HeadLength ->
               Send(space, "content", Kept(space), c + HeadLength - space, 0)
          [] space > HeadLength /\ space < HeadLength + c ->
               Send(space, "content", Kept(space), c, Shift(space))
          [] OTHER -> Send(0, "content", Kept(0), c + HeadLength, 0)
  BY <1>3, Zenon DEF Respond, Rest
<1>5. ASSUME NEW n \in Nat, n <= l PROVE Kept(n) = After(n, l) /\ Kept(n) \in Seq(Nat)
  <2>1. /\ SubSeq(Upto(l), n + 1, l) = After(n, l) /\ After(n, l) \in Seq(Nat)
    BY <1>1, <1>5, UptoAndAfter, Zenon
  <2>2. Len(Upto(l)) = l
    <3>1. l <= l
      BY <1>1
    <3> QED BY <1>1, <3>1, UptoAndAfter, Zenon
  <2> QED BY <2>1, <2>2, Zenon
<1> DEFINE Goal(v) == Counts(v, NoResponse, t, 0, l)
<1>6. ASSUME NEW n \in Nat, n <= l, n <= space, NEW kind, NEW rest, NEW length, NEW sent,
             Cut(n, kind, rest, length, sent, l)
      PROVE  Goal(Send(n, kind, rest, length, sent))
  <2>1. n \in 0..l
    BY <1>1, <1>6
  <2> QED BY <1>1, <1>6, <2>1, SendStarts, Zenon
<1> HIDE DEF Kept, Send, Goal, l, space, c
<1>7. CASE c = 0 /\ space >= HeadLength
  <2>1. HeadLength = l /\ HeadLength <= space
    BY <1>1, <1>2, <1>7
  <2>2. Goal(Send(HeadLength, "wait ack", <<>>, 0, 0))
    <3>1. <<>> \in Seq(Nat) /\ 0 \in Int /\ HeadLength <= l
      BY <1>1
    <3>2. Cut(HeadLength, "wait ack", <<>>, 0, 0, l)
      BY <2>1, <3>1, Zenon DEF Cut
    <3> QED BY <1>1, <1>6, <2>1, <3>1, <3>2, Zenon
  <2>3. ~(c > 0) /\ ~(space < HeadLength) /\ ~(space > HeadLength /\ space < HeadLength + c)
    BY <1>1, <1>2, <1>7
  <2>4. Respond(t, o) = Send(HeadLength, "wait ack", <<>>, 0, 0)
    BY <1>4, <1>7, <2>3, Zenon
  <2> QED BY <2>2, <2>4, Zenon DEF Goal, l, c
<1>8. CASE c > 0 /\ space >= HeadLength + c
  <2>1. HeadLength + c = l /\ l <= space /\ c \in Int /\ 0 \in Int
    BY <1>1, <1>2, <1>8
  <2>2. Kept(HeadLength) \in Seq(Nat)
    BY <1>1, <1>5
  <2>3. Goal(Send(l, "wait ack", Kept(HeadLength), c, 0))
    <3>1. Cut(l, "wait ack", Kept(HeadLength), c, 0, l)
      BY <2>1, <2>2, Zenon DEF Cut
    <3>2. l <= l
      BY <1>1
    <3> QED BY <1>1, <1>6, <2>1, <3>1, <3>2, Zenon
  <2>4. ~(c = 0) /\ ~(space < HeadLength) /\ ~(space < HeadLength + c)
    BY <1>1, <1>2, <1>8
  <2>5. Respond(t, o) = Send(HeadLength + c, "wait ack", Kept(HeadLength), c, 0)
    BY <1>4, <1>8, <2>4, Zenon
  <2> QED BY <2>1, <2>3, <2>5, Zenon DEF Goal, l, c
<1>9. CASE space > 0 /\ space < HeadLength
  <2>1. space <= l /\ space <= space /\ c + HeadLength - space \in Int
        /\ (c + HeadLength - space) - 0 = l - space
        /\ 0 \in Int
    BY <1>1, <1>2, <1>9
  <2>2. Kept(space) \in Seq(Nat) /\ Kept(space) = After(space, l)
    BY <1>2, <1>5, <2>1
  <2>3. Goal(Send(space, "content", Kept(space), c + HeadLength - space, 0))
    <3>1. Cut(space, "content", Kept(space), c + HeadLength - space, 0, l)
      BY <2>1, <2>2, Zenon DEF Cut
    <3> QED BY <1>2, <1>6, <2>1, <3>1, Zenon
  <2>4. ~(space >= HeadLength) /\ ~(space >= HeadLength + c) /\ ~(space > HeadLength)
    BY <1>1, <1>2, <1>9
  <2>5. Respond(t, o) = Send(space, "content", Kept(space), c + HeadLength - space, 0)
    BY <1>4, <1>9, <2>4, Zenon
  <2> QED BY <2>3, <2>5, Zenon DEF Goal, l, c
<1>10. CASE space > HeadLength /\ space < HeadLength + c
  <2>1. space <= l /\ space <= space /\ Shift(space) \in Int /\ c \in Int
        /\ c - Shift(space) = l - space
    BY <1>1, <1>2, <1>10 DEF Shift
  <2>2. Kept(space) \in Seq(Nat) /\ Kept(space) = After(space, l)
    BY <1>2, <1>5, <2>1
  <2>3. Goal(Send(space, "content", Kept(space), c, Shift(space)))
    <3>1. Cut(space, "content", Kept(space), c, Shift(space), l)
      BY <2>1, <2>2, Zenon DEF Cut
    <3> QED BY <1>2, <1>6, <2>1, <3>1, Zenon
  <2>4. c # 0 /\ ~(space >= HeadLength + c) /\ ~(space < HeadLength)
    BY <1>1, <1>2, <1>10
  <2>5. Respond(t, o) = Send(space, "content", Kept(space), c, Shift(space))
    BY <1>4, <1>10, <2>4, Zenon
  <2> QED BY <2>3, <2>5, Zenon DEF Goal, l, c
<1>11. CASE /\ ~(c = 0 /\ space >= HeadLength) /\ ~(c > 0 /\ space >= HeadLength + c)
            /\ ~(space > 0 /\ space < HeadLength)
            /\ ~(space > HeadLength /\ space < HeadLength + c)
  <2>1. 0 <= l /\ 0 <= space /\ c + HeadLength \in Int /\ (c + HeadLength) - 0 = l - 0
        /\ 0 \in Nat /\ 0 \in Int
    BY <1>1, <1>2
  <2>2. Kept(0) \in Seq(Nat) /\ Kept(0) = After(0, l)
    BY <1>5, <2>1
  <2>3. Goal(Send(0, "content", Kept(0), c + HeadLength, 0))
    <3>1. Cut(0, "content", Kept(0), c + HeadLength, 0, l)
      BY <2>1, <2>2, Zenon DEF Cut
    <3> QED BY <1>6, <2>1, <3>1, Zenon
  <2>4. Respond(t, o) = Send(0, "content", Kept(0), c + HeadLength, 0)
    BY <1>4, <1>11, Zenon
  <2> QED BY <2>3, <2>4, Zenon DEF Goal, l, c
<1> QED BY <1>7, <1>8, <1>9, <1>10, <1>11, Zenon

\* The answer to "Expect: 100-continue" is one byte, or none, and no response counts it.
LEMMA ContinueWritten ==
  ASSUME PeerSound, NEW t \in Tcps, t.unacked <= peer.sndbuf, t.wire = <<>>,
         NEW q \in Seq(Nat), Ledger(NoResponse, t, q), NEW o \in Outcomes
  PROVE  LET c == Continue(t, o) IN
         c \in Tcps /\ c.unacked <= peer.sndbuf /\ c.wire \in Before /\ Ledger(NoResponse, c, q)
<1> DEFINE z == <<0>>
           n == Least(Len(z), Space(t))
           u == Write(t, z, o)
           c == [u EXCEPT !.uncounted = @ + Written(t, u), !.failed = t.failed]
<1>1. z \in Seq(Nat) /\ Len(z) = 1 /\ SubSeq(z, 1, 1) = z
  <2>1. z \in Seq(Nat) /\ Len(z) = 1
    OBVIOUS
  <2> QED BY <2>1, SubSeqFull
<1>2. <<>> \o z = z /\ <<>> \in Seq(Nat) /\ SubSeq(z, 1, 0) = <<>> /\ <<>> \o <<>> = <<>>
  OBVIOUS
<1>3. Continue(t, o) = c
  BY Zenon DEF Continue
<1> HIDE DEF z
<1>4. peer.sndbuf \in Nat /\ Space(t) \in Nat /\ t.uncounted \in Nat /\ t.unacked \in Nat
      /\ t.failed \in BOOLEAN
  BY PeerTypes, SpaceIs, TcpFields
<1>5. n = 0 \/ n = 1
  BY <1>1, <1>4 DEF Least
<1>6. /\ u \in Tcps /\ u.unacked <= peer.sndbuf /\ Written(t, u) \in Nat
      /\ \E d \in Nat : /\ u.unacked = t.unacked + d
                        /\ Written(t, u) + u.uncounted = t.uncounted + d
      /\ u.wire = t.wire \/ u.wire = t.wire \o SubSeq(z, 1, n)
  BY <1>1, <1>4, WriteWrites, Zenon
<1> HIDE DEF n, u
<1>7. PICK d \in Nat : u.unacked = t.unacked + d /\ Written(t, u) + u.uncounted = t.uncounted + d
  BY <1>6, Zenon
<1>8. u.wire \in Before
  BY <1>1, <1>2, <1>5, <1>6, Zenon DEF Before, z
<1> DEFINE w == Written(t, u)
<1>9. w \in Nat /\ w + u.uncounted = t.uncounted + d /\ u.uncounted \in Nat
  BY <1>6, <1>7, TcpFields, Zenon
<1> HIDE DEF w
<1>10. c = [u EXCEPT !.uncounted = u.uncounted + w, !.failed = t.failed]
  BY Zenon DEF w
<1> HIDE DEF c
<1>11. /\ c \in Tcps /\ c.unacked = u.unacked /\ c.wire = u.wire
       /\ c.uncounted = u.uncounted + w
  <2> DEFINE k == u.uncounted + w
             f == t.failed
  <2>1. k \in Nat /\ f \in BOOLEAN
    BY <1>4, <1>9
  <2>2. c = [u EXCEPT !.uncounted = k, !.failed = f]
    BY <1>10, Zenon
  <2> HIDE DEF k, f
  <2>3. c \in Tcps /\ c.unacked = u.unacked /\ c.wire = u.wire /\ c.uncounted = k
    BY <1>6, <2>1, <2>2 DEF Tcps
  <2> QED BY <2>3, Zenon DEF k
<1>12. NoResponse.written + c.uncounted = NoResponse.written + t.uncounted + d
  <2>1. NoResponse.written = 0
    BY NoResponseIs, Zenon
  <2>2. 0 + c.uncounted = 0 + t.uncounted + d
    BY <1>4, <1>9, <1>11
  <2> QED BY <2>1, <2>2, Zenon
<1>13. NoResponse.written \in Nat /\ NoResponse.acked \in Nat
  BY NoResponseIs
<1>14. c.unacked = t.unacked + d
  BY <1>7, <1>11, Zenon
<1>15. Ledger(NoResponse, c, q)
  BY <1>4, <1>12, <1>13, <1>14, LedgerWrites, Zenon
<1>16. c \in Tcps /\ c.unacked <= peer.sndbuf /\ c.wire \in Before
  BY <1>6, <1>8, <1>11, Zenon
<1> QED BY <1>3, <1>15, <1>16, Zenon

-----------------------------------------------------------------------------
(* The inductive invariant *)

\* types, and that the handler was called if the request has ended
Typed ==
  /\ PeerSound /\ pos \in 0..Len(peer.input) /\ onEnd \in BOOLEAN /\ closed \in BOOLEAN
  /\ parse \in Parses /\ handled = (IF parse.state = "end" THEN 1 ELSE 0)
  /\ tcp \in Tcps /\ tcp.unacked <= peer.sndbuf
  /\ acks \in Seq(Nat) /\ response \in Responses

\* no packet has ended where a body does
NoEndYet(s, over) == \A i \in HeadEnds(s) : Announced(s, i) # 0 => ~over

\* the parser knows what has arrived
Understood ==
  /\ Knows(parse, peer.input, pos, onEnd)
  /\ parse.state \in {"start", "headers", "body"} => NoEndYet(peer.input, onEnd)
  /\ closed \/ parse.state # "fail"

\* what the wire holds before there is a response
Quiet(p, t, q) ==
  /\ t.wire \in Before
  /\ p.state \in {"start", "headers"} => t.wire = <<>>
  /\ Ledger(NoResponse, t, q)

\* a response, of l bytes, and what is counted for it
Answering(r, t, q, l) ==
  r.state # "none" => Sound(r, t, l) /\ Ledger(r, t, q)

\* before and after the handler is called
Answered ==
  /\ handled = 0 => response.state = "none" /\ Quiet(parse, tcp, acks)
  /\ Answering(response, tcp, acks, HeadLength + peer.content)

WebInv == Typed /\ Understood /\ Answered

\* A connection starts with the invariant.
LEMMA WebInit == Init => WebInv
<1> SUFFICES ASSUME Init PROVE WebInv
  OBVIOUS
<1>1. PeerSound /\ pos = 0 /\ onEnd = FALSE /\ handled = 0 /\ acks = <<>> /\ response = NoResponse
      /\ closed = FALSE
      /\ parse = [state |-> "start", line |-> "blank", length |-> 0, parsed |-> 0,
                  expecting |-> FALSE]
      /\ tcp = [wire |-> <<>>, unacked |-> 0, busy |-> FALSE, failed |-> FALSE, uncounted |-> 0]
  BY Zenon DEF Init, PeerSound
<1>2. Len(peer.input) \in Nat /\ peer.sndbuf \in Nat
  BY <1>1, PeerTypes, Zenon
<1>3. <<>> \in Seq(Nat)
  BY EmptySeq, Zenon
<1>4. parse \in Parses /\ parse.state = "start" /\ parse.line = "blank" /\ parse.length = 0
      /\ parse.parsed = 0 /\ parse.expecting = FALSE
  BY <1>1 DEF Parses
<1>5. tcp \in Tcps /\ tcp.wire = <<>> /\ tcp.unacked = 0 /\ tcp.uncounted = 0
  BY <1>1, <1>3 DEF Tcps
<1>6. response \in Responses /\ response.state = "none"
  BY <1>1, NoResponseIs, Zenon
<1>7. Typed
  <2>1. pos \in 0..Len(peer.input) /\ tcp.unacked <= peer.sndbuf
    <3>1. pos = 0 /\ tcp.unacked = 0 /\ Len(peer.input) \in Nat /\ peer.sndbuf \in Nat
      BY <1>1, <1>2, <1>5, Zenon
    <3> QED BY <3>1
  <2>2. handled = (IF parse.state = "end" THEN 1 ELSE 0)
    BY <1>1, <1>4, Zenon
  <2>3. onEnd \in BOOLEAN /\ closed \in BOOLEAN
    BY <1>1, Zenon
  <2> QED BY <1>1, <1>3, <1>4, <1>5, <1>6, <2>1, <2>2, <2>3, Zenon DEF Typed
<1>8. Understood
  <2>1. (\A k \in 1..pos : peer.input[k] # "n") /\ White(peer.input, 1, pos)
    <3>1. 1..0 = {}
      OBVIOUS
    <3>2. 1..pos = {}
      BY <1>1, <3>1, Zenon
    <3> QED BY <3>2, Zenon DEF White
  <2>2. Knows(parse, peer.input, pos, onEnd)
    BY <1>4, <2>1, Zenon DEF Knows
  <2>3. NoEndYet(peer.input, onEnd)
    BY <1>1 DEF NoEndYet
  <2>4. parse.state # "fail"
    BY <1>4
  <2> QED BY <2>2, <2>3, <2>4, Zenon DEF Understood
<1>9. Answered
  <2>2. Ledger(NoResponse, tcp, acks)
    <3>1. tcp.unacked \in Nat /\ tcp.unacked + NoResponse.acked <= NoResponse.written + tcp.uncounted
      BY <1>5, NoResponseIs
    <3> QED BY <1>1, <3>1, LedgerStarts, Zenon
  <2>1. Quiet(parse, tcp, acks)
    BY <1>1, <1>5, <2>2, Zenon DEF Quiet, Before
  <2> QED BY <1>6, <2>1, Zenon DEF Answered, Answering
<1> QED BY <1>7, <1>8, <1>9 DEF WebInv

\* The bytes and the room of a connection can change as long as the wire does not.
LEMMA WireKept ==
  ASSUME NEW r, NEW l, NEW t, Sound(r, t, l), NEW u \in Tcps, u.wire = t.wire,
         u.failed = t.failed
  PROVE  Sound(r, u, l)
BY Zenon DEF Sound, Delivers

\* A ledger is about how much is not acknowledged, not about the rest of a connection.
LEMMA LedgerKept ==
  ASSUME NEW r \in Responses, NEW t \in Tcps, NEW q \in Seq(Nat), Ledger(r, t, q), NEW u,
         u.unacked = t.unacked, u.uncounted = t.uncounted
  PROVE  Ledger(r, u, q)
BY Zenon DEF Ledger

\* Closing loses nothing that the invariant is about.
LEMMA Closing ==
  ASSUME WebInv, closed' = TRUE,
         UNCHANGED <<peer, pos, onEnd, parse, handled, tcp, acks, response>>
  PROVE  WebInv'
<1>1. /\ peer' = peer /\ pos' = pos /\ onEnd' = onEnd /\ parse' = parse /\ handled' = handled
      /\ tcp' = tcp /\ acks' = acks /\ response' = response
  OBVIOUS
<1>2. Typed'
  <2>1. closed' \in BOOLEAN
    OBVIOUS
  <2> QED BY <1>1, <2>1, Zenon DEF WebInv, Typed, PeerSound
<1>3. Understood'
  BY <1>1, Zenon DEF WebInv, Understood
<1>4. Answered'
  BY <1>1, Zenon DEF WebInv, Answered
<1> QED BY <1>2, <1>3, <1>4 DEF WebInv

\* The peer acknowledges.
LEMMA PeerAcksKeeps ==
  ASSUME WebInv, PeerAcks
  PROVE  WebInv'
<1>1. PICK n \in 1..tcp.unacked :
        tcp' = [tcp EXCEPT !.unacked = @ - n] /\ acks' = Append(acks, n)
  BY Zenon DEF PeerAcks
<1>2. /\ peer' = peer /\ pos' = pos /\ onEnd' = onEnd /\ parse' = parse /\ handled' = handled
      /\ response' = response /\ closed' = closed /\ tcp.unacked > 0
  BY DEF PeerAcks
<1>3. Typed /\ Understood /\ Answered
  BY Zenon DEF WebInv
<1>4. PeerSound /\ tcp \in Tcps /\ tcp.unacked <= peer.sndbuf /\ acks \in Seq(Nat)
      /\ response \in Responses
  BY <1>3, Zenon DEF Typed
<1>5. tcp.unacked \in Nat /\ peer.sndbuf \in Nat /\ n \in Nat /\ n <= tcp.unacked
      /\ tcp.unacked - n \in Nat /\ tcp.unacked - n <= peer.sndbuf
  <2>1. tcp.unacked \in Nat /\ peer.sndbuf \in Nat
    BY <1>4, TcpFields, PeerTypes
  <2> QED BY <1>4, <2>1
<1>6. /\ tcp' \in Tcps /\ tcp'.unacked = tcp.unacked - n /\ tcp'.wire = tcp.wire
      /\ tcp'.failed = tcp.failed /\ tcp'.uncounted = tcp.uncounted
  BY <1>1, <1>4, <1>5 DEF Tcps
<1>7. acks' \in Seq(Nat)
  BY <1>1, <1>4, <1>5
<1>8. Typed'
  <2>1. tcp'.unacked <= peer.sndbuf
    BY <1>5, <1>6
  <2> QED BY <1>2, <1>3, <1>6, <1>7, <2>1, Zenon DEF Typed, PeerSound
<1>9. Understood'
  BY <1>2, <1>3, Zenon DEF Understood
<1>10. Answered'
  <2>1. handled = 0 => response.state = "none" /\ Quiet(parse, tcp, acks)
    BY <1>3, Zenon DEF Answered
  <2>2. Answering(response, tcp, acks, HeadLength + peer.content)
    BY <1>3, Zenon DEF Answered
  <2>3. ASSUME Quiet(parse, tcp, acks) PROVE Quiet(parse, tcp', acks')
    <3>1. Ledger(NoResponse, tcp, acks)
      BY <2>3, Zenon DEF Quiet
    <3>2. Ledger(NoResponse, tcp', acks')
      BY <1>1, <1>4, <1>5, <1>6, <3>1, LedgerAppends, Zenon
    <3> QED BY <1>6, <2>3, <3>2, Zenon DEF Quiet
  <2>4. Answering(response, tcp', acks', HeadLength + peer.content)
    <3>1. response.state # "none" => Sound(response, tcp', HeadLength + peer.content)
      BY <1>6, <2>2, WireKept, Zenon DEF Answering
    <3>2. response.state # "none" => Ledger(response, tcp', acks')
      BY <1>1, <1>4, <1>5, <1>6, <2>2, LedgerAppends, Zenon DEF Answering
    <3> QED BY <3>1, <3>2, Zenon DEF Answering
  <2> QED BY <1>2, <2>1, <2>3, <2>4, Zenon DEF Answered
<1> QED BY <1>8, <1>9, <1>10 DEF WebInv

\* _ack is called, with len bytes, on a connection t.
LEMMA AckStep ==
  ASSUME WebInv, response.state # "none", NEW t \in Tcps, t.unacked = tcp.unacked,
         t.wire = tcp.wire, t.failed = tcp.failed, NEW len \in Nat, NEW q \in Seq(Nat),
         \A s : /\ s.written = response.written
                /\ s.acked = response.acked + len
                => Ledger(s, t, q),
         NEW o \in Outcomes
  PROVE  LET u == Ack(response, t, len, o) IN
         /\ u.tcp \in Tcps /\ u.tcp.unacked <= peer.sndbuf
         /\ u.response \in Responses /\ handled = 1
         /\ Answering(u.response, u.tcp, q, HeadLength + peer.content)
<1> DEFINE u == Ack(response, t, len, o)
           l == HeadLength + peer.content
<1>1. Typed /\ Understood /\ Answered
  BY Zenon DEF WebInv
<1>2. PeerSound /\ tcp \in Tcps /\ tcp.unacked <= peer.sndbuf /\ response \in Responses
      /\ (handled = 0 \/ handled = 1)
  BY <1>1, Zenon DEF Typed
<1>3. l \in Nat
  BY <1>2, PeerTypes
<1>4. handled = 1 /\ Sound(response, tcp, l)
  BY <1>1, <1>2, Zenon DEF Answered, Answering
<1>5. Sound(response, t, l)
  BY <1>4, WireKept, Zenon
<1>6. Counts(u, response, t, len, l)
  BY <1>2, <1>3, <1>5, AckKeeps, Zenon
<1> HIDE DEF u, l
<1>7. Sound(u.response, u.tcp, l) /\ u.tcp.unacked <= peer.sndbuf
  BY <1>6, Zenon DEF Counts
<1>8. PICK d \in Nat : /\ u.tcp.unacked = t.unacked + d
                       /\ u.response.written + u.tcp.uncounted
                            = response.written + t.uncounted + d
                       /\ u.response.acked = response.acked + len
  BY <1>6, Zenon DEF Counts
<1>9. u.tcp \in Tcps /\ u.response \in Responses
  BY <1>7, Zenon DEF Sound
<1>10. Ledger(u.response, u.tcp, q)
  <2> DEFINE s == [written |-> response.written, acked |-> response.acked + len]
  <2>1. s.written = response.written /\ s.acked = response.acked + len
    OBVIOUS
  <2> HIDE DEF s
  <2>2. Ledger(s, t, q)
    BY <2>1
  <2>3. /\ response.written \in Nat /\ response.acked \in Nat /\ t.unacked \in Nat
        /\ t.uncounted \in Nat
    BY <1>2, ResponseFields, TcpFields, Zenon
  <2>4. s.written \in Nat /\ s.acked \in Nat
    BY <2>1, <2>3
  <2>5. /\ u.response.written + u.tcp.uncounted = s.written + t.uncounted + d
        /\ u.response.acked = s.acked
    BY <1>8, <2>1, Zenon
  <2> QED BY <1>8, <2>2, <2>3, <2>4, <2>5, LedgerWrites, Zenon
<1>11. Answering(u.response, u.tcp, q, l)
  BY <1>7, <1>10, Zenon DEF Answering
<1> QED BY <1>4, <1>7, <1>9, <1>11, Zenon DEF u, l

\* What follows from a step that leaves the parser alone.
LEMMA ResponseStep ==
  ASSUME WebInv, peer' = peer, pos' = pos, onEnd' = onEnd, parse' = parse,
         handled' = handled, closed' = closed,
         tcp' \in Tcps, tcp'.unacked <= peer.sndbuf, acks' \in Seq(Nat),
         response' \in Responses,
         handled = 0 => response'.state = "none" /\ Quiet(parse, tcp', acks'),
         Answering(response', tcp', acks', HeadLength + peer.content)
  PROVE  WebInv'
<1>1. Typed /\ Understood
  BY Zenon DEF WebInv
<1>2. Typed'
  BY <1>1, Zenon DEF Typed, PeerSound
<1>3. Understood'
  BY <1>1, Zenon DEF Understood
<1>4. Answered'
  BY Zenon DEF Answered
<1> QED BY <1>2, <1>3, <1>4 DEF WebInv

\* A poll keeps it.
LEMMA OnPollKeeps ==
  ASSUME WebInv, OnPoll
  PROVE  WebInv'
<1>1. PICK o \in Outcomes : /\ tcp' = Ack(response, tcp, 0, o).tcp
                            /\ response' = Ack(response, tcp, 0, o).response
  BY Zenon DEF OnPoll
<1>2. response.state # "none" /\ UNCHANGED <<peer, pos, onEnd, parse, handled, acks, closed>>
  BY DEF OnPoll
<1>3. tcp \in Tcps /\ response \in Responses /\ acks \in Seq(Nat)
  BY Zenon DEF WebInv, Typed
<1>4. ASSUME NEW s, s.written = response.written, s.acked = response.acked + 0
      PROVE  Ledger(s, tcp, acks)
  <2>1. Ledger(response, tcp, acks)
    BY <1>2, <1>4, Zenon DEF WebInv, Answered, Answering
  <2>2. s.acked = response.acked
    <3>1. response.acked \in Nat
      BY <1>3, ResponseFields, Zenon
    <3> QED BY <1>4, <3>1
  <2> QED BY <1>4, <2>1, <2>2, Zenon DEF Ledger
<1> DEFINE u == Ack(response, tcp, 0, o)
<1>5. /\ u.tcp \in Tcps /\ u.tcp.unacked <= peer.sndbuf
      /\ u.response \in Responses /\ handled = 1
      /\ Answering(u.response, u.tcp, acks, HeadLength + peer.content)
  <2>1. 0 \in Nat
    OBVIOUS
  <2> QED BY <1>2, <1>3, <1>4, <2>1, AckStep, Zenon
<1> HIDE DEF u
<1>6. tcp' = u.tcp /\ response' = u.response /\ acks' = acks
  BY <1>1, <1>2, Zenon DEF u
<1>7. handled # 0
  BY <1>5
<1>8. /\ peer' = peer /\ pos' = pos /\ onEnd' = onEnd /\ parse' = parse /\ handled' = handled
      /\ closed' = closed
  BY <1>2, Zenon
<1> QED BY <1>3, <1>5, <1>6, <1>7, <1>8, ResponseStep, Zenon

\* An acknowledgement keeps it.
LEMMA OnAckKeeps ==
  ASSUME WebInv, OnAck
  PROVE  WebInv'
<1> DEFINE t == [tcp EXCEPT !.busy = FALSE]
           l == HeadLength + peer.content
<1>1. /\ acks # <<>> /\ acks' = Tail(acks)
      /\ CASE response.state = "none" -> tcp' = t /\ UNCHANGED response
           [] response.state = "end" -> tcp' = t /\ response' = NoResponse
           [] OTHER -> \E o \in Outcomes : LET u == Ack(response, t, Head(acks), o) IN
                         tcp' = u.tcp /\ response' = u.response
  BY Zenon DEF OnAck
<1>2. /\ peer' = peer /\ pos' = pos /\ onEnd' = onEnd /\ parse' = parse /\ handled' = handled
      /\ closed' = closed
  BY DEF OnAck
<1>3. Typed /\ Answered
  BY Zenon DEF WebInv
<1>4. /\ PeerSound /\ tcp \in Tcps /\ tcp.unacked <= peer.sndbuf /\ response \in Responses
      /\ acks \in Seq(Nat)
  BY <1>3, Zenon DEF Typed
<1>5. t \in Tcps /\ t.wire = tcp.wire /\ t.unacked = tcp.unacked /\ t.failed = tcp.failed
      /\ t.uncounted = tcp.uncounted /\ t.uncounted \in Nat
  BY <1>4 DEF Tcps
<1> HIDE DEF t
<1>6. Tail(acks) \in Seq(Nat) /\ Head(acks) \in Nat
  BY <1>1, <1>4
<1>7. t.unacked <= peer.sndbuf
  BY <1>4, <1>5, Zenon
<1>8. handled = 0 => response.state = "none" /\ Quiet(parse, tcp, acks)
  BY <1>3, Zenon DEF Answered
<1>9. Answering(response, tcp, acks, l)
  BY <1>3, Zenon DEF Answered
<1>10. ASSUME Quiet(parse, tcp, acks) PROVE Quiet(parse, t, Tail(acks))
  <2>1. NoResponse \in Responses /\ NoResponse.written \in Nat /\ NoResponse.acked \in Nat
    BY NoResponseIs
  <2>2. Ledger(NoResponse, t, acks)
    BY <1>4, <1>5, <1>10, <2>1, LedgerKept, Zenon DEF Quiet
  <2>3. NoResponse.acked <= NoResponse.acked + Head(acks)
    BY <1>6, <2>1
  <2>4. Ledger(NoResponse, t, Tail(acks))
    BY <1>1, <1>4, <1>5, <2>1, <2>2, <2>3, LedgerTails, Zenon
  <2> QED BY <1>5, <1>10, <2>4, Zenon DEF Quiet
<1> HIDE DEF l
<1>11. CASE response.state = "none"
  <2>1. tcp' = t /\ response' = response
    BY <1>1, <1>11, Zenon
  <2>2. Answering(response', tcp', acks', l)
    BY <1>11, <2>1, Zenon DEF Answering
  <2> QED BY <1>1, <1>2, <1>4, <1>5, <1>6, <1>7, <1>8, <1>10, <1>11, <2>1, <2>2, ResponseStep, Zenon DEF l
<1>12. CASE response.state = "end"
  <2>1. tcp' = t /\ response' = NoResponse
    BY <1>1, <1>12, Zenon
  <2>2. response' \in Responses /\ response'.state = "none"
    BY <2>1, NoResponseIs, Zenon
  <2>3. Answering(response', tcp', acks', l)
    BY <2>2, Zenon DEF Answering
  <2>4. handled # 0
    BY <1>8, <1>12
  <2> QED BY <1>1, <1>2, <1>4, <1>5, <1>6, <1>7, <2>1, <2>2, <2>3, <2>4, ResponseStep, Zenon DEF l
<1>13. CASE response.state # "none" /\ response.state # "end"
  <2>1. PICK o \in Outcomes : /\ tcp' = Ack(response, t, Head(acks), o).tcp
                              /\ response' = Ack(response, t, Head(acks), o).response
    BY <1>1, <1>13, Zenon
  <2> DEFINE u == Ack(response, t, Head(acks), o)
  <2>2. ASSUME NEW s, s.written = response.written,
               s.acked = response.acked + Head(acks)
        PROVE  Ledger(s, t, Tail(acks))
    <3>1. Ledger(response, tcp, acks)
      BY <1>9, <1>13, <2>2, Zenon DEF Answering
    <3>2. Ledger(response, t, acks)
      BY <1>4, <1>5, <3>1, LedgerKept, Zenon
    <3>3. response.written \in Nat /\ response.acked \in Nat
      BY <1>4, ResponseFields, Zenon
    <3>4. s.acked \in Nat /\ s.acked <= response.acked + Head(acks)
      BY <1>6, <2>2, <3>3
    <3> QED BY <1>1, <1>4, <1>5, <2>2, <3>2, <3>3, <3>4, LedgerTails, Zenon
  <2>3. /\ u.tcp \in Tcps /\ u.tcp.unacked <= peer.sndbuf
        /\ u.response \in Responses /\ handled = 1
        /\ Answering(u.response, u.tcp, Tail(acks), l)
    BY <1>5, <1>6, <1>13, <2>2, AckStep, Zenon DEF l
  <2> HIDE DEF u
  <2>4. tcp' = u.tcp /\ response' = u.response
    BY <2>1, Zenon DEF u
  <2>5. handled # 0
    BY <2>3
  <2> QED BY <1>1, <1>2, <1>6, <2>3, <2>4, <2>5, ResponseStep, Zenon DEF l
<1> QED BY <1>11, <1>12, <1>13

\* A packet that leaves the request open has not ended where the body does.
LEMMA StillOpen ==
  ASSUME NEW q \in Parses, NEW s \in Inputs, NEW n \in 1..Len(s), NEW over, NEW both,
         Knows(q, s, n, both), q.state \in {"start", "headers", "body"},
         q.state = "body" => q.parsed # q.length, NoEndYet(s, over)
  PROVE  NoEndYet(s, over \/ n \in RequestEnds(s))
<1> SUFFICES ASSUME NEW i \in HeadEnds(s), Announced(s, i) # 0, over \/ n \in RequestEnds(s)
             PROVE  FALSE
  BY Zenon DEF NoEndYet
<1>1. n \in RequestEnds(s)
  BY Zenon DEF NoEndYet
<1>2. PICK j \in HeadEnds(s) : n = j + Announced(s, j)
  BY <1>1, Zenon DEF RequestEnds
<1>3. j = i /\ i \in Nat
  BY OneHead, Zenon
<1>4. n = i + BodyLength /\ BodyLength \in Nat \ {0}
  <2>1. Announced(s, i) = BodyLength
    BY AnnouncedIs
  <2> QED BY <1>2, <1>3, <2>1, AnnouncedIs
<1>5. i \in 1..Len(s) /\ IsBlank(s, i)
  BY Zenon DEF HeadEnds
<1>6. i \in 1..n
  <2>1. i >= 1 /\ n \in Nat
    BY <1>3, <1>4, <1>5
  <2> QED BY <1>3, <1>4, <2>1
<1>7. CASE q.state = "start"
  <2>1. s[i] # "n"
    BY <1>6, <1>7, Zenon DEF Knows
  <2> QED BY <1>5, <2>1, Zenon DEF IsBlank
<1>8. CASE q.state = "headers"
  <2>1. ~IsBlank(s, i)
    BY <1>6, <1>8, Zenon DEF Knows
  <2> QED BY <1>5, <2>1, Zenon
<1>9. CASE q.state = "body"
  <2>1. q.length = BodyLength /\ \E h \in HeadEnds(s) : q.parsed = n - h
    BY <1>9, Zenon DEF Knows
  <2>2. q.parsed = n - i
    BY <2>1, OneHead, Zenon
  <2>3. q.parsed = BodyLength
    BY <1>3, <1>4, <2>2
  <2> QED BY <1>9, <2>1, <2>3, Zenon
<1> QED BY <1>7, <1>8, <1>9, Zenon

\* The parser and the observers of a packet.
LEMMA DataUnderstood ==
  ASSUME WebInv, ~closed, NEW end \in (pos + 1)..Len(peer.input)
  PROVE  LET s == peer.input
             p == ParsePacket(parse, SubSeq(s, pos + 1, end))
             over == onEnd \/ end \in RequestEnds(s)
         IN /\ p \in Parses /\ Knows(p, s, end, over) /\ over \in BOOLEAN
            /\ end \in 0..Len(s)
            /\ p.state \in {"start", "headers", "body"} => NoEndYet(s, over)
            /\ parse.state = "end" => p = parse
            /\ p.state \in {"start", "headers"} => parse.state \in {"start", "headers"}
<1> DEFINE s == peer.input
           p == ParsePacket(parse, SubSeq(s, pos + 1, end))
           over == onEnd \/ end \in RequestEnds(s)
<1>1. /\ PeerSound /\ pos \in 0..Len(s) /\ onEnd \in BOOLEAN /\ parse \in Parses
  BY Zenon DEF WebInv, Typed
<1>2. /\ Knows(parse, s, pos, onEnd) /\ parse.state # "fail"
      /\ parse.state \in {"start", "headers", "body"} => NoEndYet(s, onEnd)
  BY Zenon DEF WebInv, Understood
<1>3. s \in Inputs /\ Len(s) \in Nat
  BY <1>1, PeerTypes, Zenon
<1>4. pos \in Nat /\ end \in 1..Len(s) /\ end \in 0..Len(s)
  BY <1>1, <1>3
<1>5. /\ p \in Parses /\ Knows(p, s, end, over)
      /\ parse.state = "end" => p = parse
      /\ parse.state = "body" => p.state \in {"body", "end"}
      /\ p.state = "body" => p.parsed # p.length
  <2>1. GoesOn(parse, p, s, end, over)
    BY <1>1, <1>2, <1>3, <1>4, PacketParsed, Zenon
  <2> HIDE DEF p, s, over
  <2> QED BY <2>1, Zenon DEF GoesOn
<1>6. over \in BOOLEAN
  <2>1. ASSUME NEW a, NEW b PROVE (a \/ b) \in BOOLEAN
    OBVIOUS
  <2> QED BY <2>1
<1> HIDE DEF p, s
<1>7. parse.state \in {"start", "headers", "body", "end"}
  BY <1>1, <1>2 DEF Parses
<1>8. p.state \in {"start", "headers"} => parse.state \in {"start", "headers"}
  BY <1>5, <1>7
<1>9. ASSUME p.state \in {"start", "headers", "body"} PROVE NoEndYet(s, over)
  <2>1. parse.state # "end"
    BY <1>5, <1>9
  <2>2. NoEndYet(s, onEnd)
    BY <1>2, <1>7, <2>1
  <2> HIDE DEF over
  <2>3. NoEndYet(s, onEnd \/ end \in RequestEnds(s))
    BY <1>3, <1>4, <1>5, <1>9, <2>2, StillOpen, Zenon
  <2> QED BY <2>3 DEF over
<1> HIDE DEF over
<1>10. /\ p \in Parses /\ Knows(p, s, end, over) /\ over \in BOOLEAN
       /\ end \in 0..Len(s)
       /\ p.state \in {"start", "headers", "body"} => NoEndYet(s, over)
       /\ parse.state = "end" => p = parse
       /\ p.state \in {"start", "headers"} => parse.state \in {"start", "headers"}
  BY <1>4, <1>5, <1>6, <1>8, <1>9, Zenon
<1> QED BY <1>10 DEF p, s, over

\* A response is started on a connection t.
LEMMA DataResponds ==
  ASSUME PeerSound, NEW t \in Tcps, t.unacked <= peer.sndbuf, t.wire \in Before,
         acks \in Seq(Nat), Ledger(NoResponse, t, acks), NEW o \in Outcomes
  PROVE  LET v == Respond(t, o) IN
         /\ v.tcp \in Tcps /\ v.tcp.unacked <= peer.sndbuf /\ v.response \in Responses
         /\ Answering(v.response, v.tcp, acks, HeadLength + peer.content)
<1> DEFINE v == Respond(t, o)
           l == HeadLength + peer.content
<1>1. Counts(v, NoResponse, t, 0, l)
  BY RespondStarts, Zenon
<1> HIDE DEF v, l
<1>2. Sound(v.response, v.tcp, l) /\ v.tcp.unacked <= peer.sndbuf
  BY <1>1, Zenon DEF Counts
<1>3. PICK d \in Nat : /\ v.tcp.unacked = t.unacked + d
                       /\ v.response.written + v.tcp.uncounted
                            = NoResponse.written + t.uncounted + d
                       /\ v.response.acked = NoResponse.acked + 0
  BY <1>1, Zenon DEF Counts
<1>4. v.tcp \in Tcps /\ v.response \in Responses
  BY <1>2, Zenon DEF Sound
<1>5. Ledger(v.response, v.tcp, acks)
  <2>1. NoResponse.written \in Nat /\ NoResponse.acked \in Nat
        /\ NoResponse.acked + 0 = NoResponse.acked
    BY NoResponseIs
  <2>2. t.unacked \in Nat /\ t.uncounted \in Nat
    BY TcpFields, Zenon
  <2> QED BY <1>3, <2>1, <2>2, LedgerWrites, Zenon
<1>6. Answering(v.response, v.tcp, acks, l)
  BY <1>2, <1>5, Zenon DEF Answering
<1> QED BY <1>2, <1>4, <1>6, Zenon DEF v, l

\* A packet keeps it.
LEMMA OnDataKeeps ==
  ASSUME WebInv, OnData
  PROVE  WebInv'
<1>1. ~closed
  BY Zenon DEF OnData
<1>2. PICK end \in (pos + 1)..Len(peer.input), first \in Outcomes, o \in Outcomes :
       LET p == ParsePacket(parse, SubSeq(peer.input, pos + 1, end))
           headOver == parse.state \in {"start", "headers"} /\ p.state \in {"body", "end"}
           t == IF headOver /\ p.expecting THEN Continue(tcp, first) ELSE tcp
           answers == parse.state # "end" /\ p.state = "end"
       IN /\ pos' = end
          /\ onEnd' = (onEnd \/ end \in RequestEnds(peer.input))
          /\ parse' = p
          /\ handled' = handled + (IF answers THEN 1 ELSE 0)
          /\ tcp' = IF answers THEN Respond(t, o).tcp ELSE t
          /\ response' = IF answers THEN Respond(t, o).response ELSE response
          /\ closed' = (p.state = "fail")
  BY Zenon DEF OnData
<1> DEFINE s == peer.input
           p == ParsePacket(parse, SubSeq(s, pos + 1, end))
           headOver == parse.state \in {"start", "headers"} /\ p.state \in {"body", "end"}
           t == IF headOver /\ p.expecting THEN Continue(tcp, first) ELSE tcp
           over == onEnd \/ end \in RequestEnds(s)
           l == HeadLength + peer.content
<1>3. /\ p \in Parses /\ Knows(p, s, end, over) /\ over \in BOOLEAN
      /\ end \in 0..Len(s)
      /\ p.state \in {"start", "headers", "body"} => NoEndYet(s, over)
      /\ parse.state = "end" => p = parse
      /\ p.state \in {"start", "headers"} => parse.state \in {"start", "headers"}
  BY <1>1, DataUnderstood, Zenon
<1>4. peer' = peer /\ acks' = acks
  BY DEF OnData
<1>5. /\ pos' = end /\ onEnd' = over /\ parse' = p /\ closed' = (p.state = "fail")
      /\ handled' = handled + (IF parse.state # "end" /\ p.state = "end" THEN 1 ELSE 0)
      /\ tcp' = IF parse.state # "end" /\ p.state = "end" THEN Respond(t, o).tcp ELSE t
      /\ response' = IF parse.state # "end" /\ p.state = "end" THEN Respond(t, o).response
                                                                ELSE response
  BY <1>2, Zenon
<1>6. /\ PeerSound /\ onEnd \in BOOLEAN /\ parse \in Parses
      /\ handled = (IF parse.state = "end" THEN 1 ELSE 0)
      /\ tcp \in Tcps /\ tcp.unacked <= peer.sndbuf
      /\ acks \in Seq(Nat) /\ response \in Responses
  BY Zenon DEF WebInv, Typed
<1>7. /\ handled = 0 => response.state = "none" /\ Quiet(parse, tcp, acks)
      /\ Answering(response, tcp, acks, l)
  BY Zenon DEF WebInv, Answered
<1> HIDE DEF p, over
<1>8. Understood'
  <2>1. closed' \/ p.state # "fail"
    BY <1>5, Zenon
  <2> QED BY <1>3, <1>4, <1>5, <2>1, Zenon DEF Understood
<1>9. handled' = (IF p.state = "end" THEN 1 ELSE 0)
  <2>1. CASE parse.state = "end"
    <3>1. p.state = "end" /\ handled = 1
      BY <1>3, <1>6, <2>1, Zenon
    <3>2. handled' = handled + 0
      BY <1>5, <2>1, Zenon
    <3> QED BY <3>1, <3>2
  <2>2. CASE parse.state # "end"
    <3>1. handled = 0
      BY <1>6, <2>2, Zenon
    <3>2. handled' = 0 + (IF p.state = "end" THEN 1 ELSE 0)
      BY <1>5, <2>2, <3>1, Zenon
    <3>3. 0 + 1 = 1 /\ 0 + 0 = 0
      OBVIOUS
    <3> QED BY <3>2, <3>3, Zenon
  <2> QED BY <2>1, <2>2, Zenon
<1>10. /\ t \in Tcps /\ t.unacked <= peer.sndbuf
       /\ parse.state # "end" =>
            /\ t.wire \in Before
            /\ p.state \in {"start", "headers"} => t.wire = <<>>
            /\ Ledger(NoResponse, t, acks)
       /\ parse.state = "end" => t = tcp
  <2>1. CASE headOver /\ p.expecting
    <3>1. parse.state \in {"start", "headers"} /\ p.state \in {"body", "end"} /\ parse.state # "end"
      BY <2>1
    <3>2. handled = 0
      BY <1>6, <3>1, Zenon
    <3>3. tcp.wire = <<>> /\ Ledger(NoResponse, tcp, acks)
      BY <1>7, <3>1, <3>2, Zenon DEF Quiet
    <3>4. t = Continue(tcp, first)
      BY <2>1, Zenon
    <3> HIDE DEF t
    <3>5. t \in Tcps /\ t.unacked <= peer.sndbuf /\ t.wire \in Before /\ Ledger(NoResponse, t, acks)
      BY <1>6, <3>3, <3>4, ContinueWritten, Zenon
    <3>6. ~(p.state \in {"start", "headers"})
      BY <3>1
    <3> QED BY <2>1, <3>1, <3>5, <3>6, Zenon
  <2>2. CASE ~(headOver /\ p.expecting)
    <3>1. t = tcp
      BY <2>2, Zenon
    <3> HIDE DEF t
    <3>2. ASSUME parse.state # "end"
          PROVE  /\ tcp.wire \in Before
                 /\ p.state \in {"start", "headers"} => tcp.wire = <<>>
                 /\ Ledger(NoResponse, tcp, acks)
      <4>1. handled = 0
        BY <1>6, <3>2, Zenon
      <4> QED BY <1>3, <1>7, <4>1, Zenon DEF Quiet
    <3> QED BY <1>6, <3>1, <3>2, Zenon
  <2> QED BY <2>1, <2>2, Zenon
<1> HIDE DEF t, l, s
<1>11. CASE parse.state # "end" /\ p.state = "end"
  <2> DEFINE v == Respond(t, o)
  <2>1. tcp' = v.tcp /\ response' = v.response
    BY <1>5, <1>11, Zenon
  <2>2. /\ v.tcp \in Tcps /\ v.tcp.unacked <= peer.sndbuf /\ v.response \in Responses
        /\ Answering(v.response, v.tcp, acks, l)
    BY <1>6, <1>10, <1>11, DataResponds, Zenon DEF l
  <2> HIDE DEF v
  <2>3. handled' = 1
    BY <1>9, <1>11, Zenon
  <2>4. handled' # 0
    BY <2>3
  <2>5. Typed'
    BY <1>3, <1>4, <1>5, <1>6, <1>9, <1>11, <2>1, <2>2, Zenon DEF Typed, PeerSound, s
  <2>6. Answered'
    BY <1>4, <1>5, <2>1, <2>2, <2>4, Zenon DEF Answered, l
  <2> QED BY <1>8, <2>5, <2>6, Zenon DEF WebInv
<1>12. CASE ~(parse.state # "end" /\ p.state = "end")
  <2>1. tcp' = t /\ response' = response
    BY <1>5, <1>12, Zenon
  <2>2. Typed'
    BY <1>3, <1>4, <1>5, <1>6, <1>9, <1>10, <2>1, Zenon DEF Typed, PeerSound, s
  <2>3. CASE parse.state = "end"
    <3>1. p = parse /\ t = tcp
      BY <1>3, <1>10, <2>3, Zenon
    <3>2. handled' = handled
      BY <1>6, <1>9, <3>1, Zenon
    <3>3. Answered'
      BY <1>4, <1>5, <1>7, <2>1, <3>1, <3>2, Zenon DEF Answered, l
    <3> QED BY <1>8, <2>2, <3>3, Zenon DEF WebInv
  <2>4. CASE parse.state # "end"
    <3>1. handled = 0
      BY <1>6, <2>4, Zenon
    <3>2. response.state = "none"
      BY <1>7, <3>1, Zenon
    <3>3. Quiet(p, t, acks)
      BY <1>10, <2>4, Zenon DEF Quiet
    <3>4. Answering(response, t, acks, l)
      BY <3>2, Zenon DEF Answering
    <3>5. Answered'
      BY <1>4, <1>5, <2>1, <3>2, <3>3, <3>4, Zenon DEF Answered, l
    <3> QED BY <1>8, <2>2, <3>5, Zenon DEF WebInv
  <2> QED BY <2>3, <2>4, Zenon
<1> QED BY <1>11, <1>12, Zenon

\* Every step keeps it.
LEMMA WebStep == WebInv /\ [Next]_vars => WebInv'
<1> SUFFICES ASSUME WebInv, [Next]_vars PROVE WebInv'
  OBVIOUS
<1>1. CASE OnData
  BY <1>1, OnDataKeeps, Zenon
<1>2. CASE PeerAcks
  BY <1>2, PeerAcksKeeps, Zenon
<1>3. CASE OnAck
  BY <1>3, OnAckKeeps, Zenon
<1>4. CASE OnPoll
  BY <1>4, OnPollKeeps, Zenon
<1>5. CASE OnTimeout
  BY <1>5, Closing, Zenon DEF OnTimeout
<1>6. CASE OnDisconnect
  BY <1>6, Closing, Zenon DEF OnDisconnect
<1>7. CASE UNCHANGED vars
  <2>1. /\ peer' = peer /\ pos' = pos /\ onEnd' = onEnd /\ parse' = parse /\ handled' = handled
        /\ tcp' = tcp /\ acks' = acks /\ response' = response /\ closed' = closed
    BY <1>7 DEF vars
  <2>2. Typed /\ Understood /\ Answered
    BY Zenon DEF WebInv
  <2>3. Typed'
    BY <2>1, <2>2, Zenon DEF Typed, PeerSound
  <2>4. Understood'
    BY <2>1, <2>2, Zenon DEF Understood
  <2>5. Answered'
    BY <2>1, <2>2, Zenon DEF Answered
  <2> QED BY <2>3, <2>4, <2>5, Zenon DEF WebInv
<1> QED BY <1>1, <1>2, <1>3, <1>4, <1>5, <1>6, <1>7, Zenon DEF Next

\* So it always holds.
LEMMA WebInvariant == Spec => []WebInv
<1>1. Init => WebInv
  BY WebInit
<1>2. WebInv /\ [Next]_vars => WebInv'
  BY WebStep
<1> QED BY <1>1, <1>2, PTL DEF Spec

\* The handler is called exactly once, and exactly when the request is complete.
LEMMA WhenComplete == WebInv => HandledWhenComplete
<1> SUFFICES ASSUME WebInv PROVE HandledWhenComplete
  OBVIOUS
<1> DEFINE s == peer.input
           Complete == /\ ~BlankFirst(s, pos)
                       /\ \E i \in HeadEnds(s) : IF Announced(s, i) = 0 THEN i <= pos ELSE onEnd
<1>1. /\ PeerSound /\ pos \in 0..Len(s) /\ onEnd \in BOOLEAN /\ parse \in Parses
      /\ handled = (IF parse.state = "end" THEN 1 ELSE 0)
  BY Zenon DEF WebInv, Typed
<1>2. /\ Knows(parse, s, pos, onEnd)
      /\ parse.state \in {"start", "headers", "body"} => NoEndYet(s, onEnd)
  BY Zenon DEF WebInv, Understood
<1>3. s \in Inputs /\ Len(s) \in Nat
  BY <1>1, PeerTypes, Zenon
<1> HIDE DEF s
<1>4. ASSUME NEW i \in HeadEnds(s) PROVE i \in 1..Len(s) /\ IsBlank(s, i) /\ s[i] = "n" /\ i \in Nat
  <2>1. i \in 1..Len(s) /\ IsBlank(s, i)
    BY Zenon DEF HeadEnds
  <2>2. s[i] = "n"
    BY <2>1, Zenon DEF IsBlank
  <2> QED BY <2>1, <2>2
<1>5. parse.state \in {"start", "headers", "body", "end", "fail"}
  BY <1>1 DEF Parses
<1>6. CASE parse.state = "end"
  <2>1. ~BlankFirst(s, pos) /\ \E i \in HeadEnds(s) : i <= pos /\ (Announced(s, i) = 0 \/ onEnd)
    BY <1>2, <1>6, Zenon DEF Knows
  <2>2. Complete
    BY <2>1, Zenon
  <2> HIDE DEF Complete
  <2>3. handled = IF Complete THEN 1 ELSE 0
    BY <1>1, <1>6, <2>2, Zenon
  <2> QED BY <2>3, Zenon DEF HandledWhenComplete, Complete, s
<1>7. CASE parse.state # "end"
  <2>1. ~Complete
    <3> SUFFICES ASSUME ~BlankFirst(s, pos), NEW i \in HeadEnds(s),
                        IF Announced(s, i) = 0 THEN i <= pos ELSE onEnd
                 PROVE  FALSE
      BY Zenon
    <3>1. parse.state # "fail"
      BY <1>2, Zenon DEF Knows
    <3>2. parse.state \in {"start", "headers", "body"}
      BY <1>5, <1>7, <3>1, Zenon
    <3>3. Announced(s, i) = 0 /\ i <= pos
      BY <1>2, <3>2, Zenon DEF NoEndYet
    <3>4. i \in 1..pos
      BY <1>1, <1>4, <3>3
    <3>5. CASE parse.state = "start"
      BY <1>2, <1>4, <3>4, <3>5, Zenon DEF Knows
    <3>6. CASE parse.state = "headers"
      BY <1>2, <1>4, <3>4, <3>6, Zenon DEF Knows
    <3>7. CASE parse.state = "body"
      <4>1. \E h \in HeadEnds(s) : Announced(s, h) = BodyLength
        BY <1>2, <3>7, Zenon DEF Knows
      <4>2. Announced(s, i) = BodyLength
        BY <1>3, <4>1, OneHead, Zenon
      <4> QED BY <3>3, <4>2, AnnouncedIs
    <3> QED BY <3>2, <3>5, <3>6, <3>7, Zenon
  <2> HIDE DEF Complete
  <2>2. handled = IF Complete THEN 1 ELSE 0
    BY <1>1, <1>7, <2>1, Zenon
  <2> QED BY <2>2, Zenon DEF HandledWhenComplete, Complete, s
<1> QED BY <1>6, <1>7, Zenon

\* However a request is cut into packets, its handler is called once, as soon as the
\* request is complete, unless a packet goes on behind its end (_onData).
THEOREM HandlerCalledOnce == Spec => []HandledWhenComplete
BY WebInvariant, WhenComplete, PTL

\* Whether bytes start with the 100 Continue.
LEMMA PrefixIs ==
  ASSUME NEW v \in Seq(Nat)
  PROVE  IsPrefix(<<0>>, v) <=> Len(v) >= 1 /\ v[1] = 0
<1> DEFINE o == <<0>>
<1>1. o \in Seq(Nat) /\ Len(o) = 1 /\ o[1] = 0
  OBVIOUS
<1> HIDE DEF o
<1>2. SubSeq(o, 1, 1) = o
  BY <1>1, SubSeqFull
<1>3. IsPrefix(o, v) = (1 <= Len(v) /\ o = SubSeq(v, 1, 1))
  BY <1>1, <1>2, Zenon DEF IsPrefix
<1>4. CASE Len(v) >= 1
  <2> DEFINE a == SubSeq(v, 1, 1)
  <2>1. a \in Seq(Nat) /\ Len(a) = 1 /\ a[1] = v[1]
    BY <1>4
  <2> HIDE DEF a
  <2>2. ASSUME a[1] = 0 PROVE o = a
    <3>1. ASSUME NEW i \in 1..1 PROVE o[i] = a[i]
      BY <1>1, <2>2
    <3> QED BY <1>1, <2>1, <3>1, SeqEqual
  <2>3. o = a <=> v[1] = 0
    BY <1>1, <2>1, <2>2, Zenon
  <2>4. 1 <= Len(v)
    BY <1>4
  <2> QED BY <1>3, <1>4, <2>3, <2>4, Zenon DEF o, a
<1>5. CASE ~(Len(v) >= 1)
  <2>1. ~(1 <= Len(v))
    BY <1>5
  <2> QED BY <1>3, <1>5, <2>1, Zenon DEF o
<1> QED BY <1>4, <1>5

\* What the peer gets behind the 100 Continue.
LEMMA AnswerIs ==
  ASSUME NEW z \in Before, NEW k \in Nat, tcp.wire = z \o Upto(k)
  PROVE  Answer = Upto(k)
<1>1. Upto(k) \in Seq(Nat) /\ Len(Upto(k)) = k /\ \A i \in 1..k : Upto(k)[i] = i
  BY DEF Upto
<1>2. Answer = IF IsPrefix(<<0>>, tcp.wire) THEN Tail(tcp.wire) ELSE tcp.wire
  BY Zenon DEF Answer
<1> DEFINE o == <<0>>
           w == Upto(k)
           x == o \o w
<1>3. o \in Seq(Nat) /\ Len(o) = 1 /\ o[1] = 0
  OBVIOUS
<1> HIDE DEF w, o
<1>4. /\ x \in Seq(Nat) /\ Len(x) = 1 + k /\ x[1] = 0
      /\ \A i \in 1..k : x[i + 1] = i
  <2>1. /\ x \in Seq(Nat) /\ Len(x) = 1 + k
        /\ \A i \in 1..(1 + k) : x[i] = IF i <= 1 THEN o[i] ELSE w[i - 1]
    <3>1. w \in Seq(Nat) /\ Len(w) = k
      BY <1>1, Zenon DEF w
    <3>2. /\ x \in Seq(Nat) /\ Len(x) = Len(o) + Len(w)
          /\ \A i \in 1..(Len(o) + Len(w)) : x[i] = IF i <= Len(o) THEN o[i] ELSE w[i - Len(o)]
      BY <1>3, <3>1, ConcatBytes, Zenon
    <3> QED BY <1>3, <3>1, <3>2, Zenon
  <2> HIDE DEF x
  <2>2. x[1] = 0
    <3>1. 1 \in 1..(1 + k) /\ 1 <= 1
      OBVIOUS
    <3> QED BY <1>3, <2>1, <3>1, Zenon
  <2>3. ASSUME NEW i \in 1..k PROVE x[i + 1] = i
    <3>1. i + 1 \in 1..(1 + k) /\ ~(i + 1 <= 1) /\ (i + 1) - 1 = i
      OBVIOUS
    <3>2. x[i + 1] = w[i]
      BY <2>1, <3>1, Zenon
    <3> QED BY <1>1, <3>2, Zenon DEF w
  <2> QED BY <2>1, <2>2, <2>3
<1>5. CASE z = <<>>
  <2>1. tcp.wire = w
    BY <1>1, <1>5 DEF w
  <2>2. ~IsPrefix(o, w)
    BY <1>1, <1>3, PrefixIs DEF w, o
  <2> QED BY <1>2, <2>1, <2>2, Zenon DEF o, w
<1>6. CASE z = o
  <2>1. tcp.wire = x
    BY <1>6, Zenon DEF w
  <2> HIDE DEF x
  <2>2. IsPrefix(o, x)
    <3>1. Len(x) >= 1
      BY <1>4
    <3> QED BY <1>4, <3>1, PrefixIs, Zenon DEF o
  <2>3. Answer = Tail(x)
    BY <1>2, <2>1, <2>2, Zenon DEF o
  <2>4. Tail(x) = w
    <3>1. Tail(x) \in Seq(Nat) /\ Len(Tail(x)) = k /\ \A i \in 1..k : Tail(x)[i] = x[i + 1]
      <4>1. x # <<>>
        BY <1>4
      <4> QED BY <1>4, <4>1
    <3>2. \A i \in 1..k : Tail(x)[i] = w[i]
      BY <1>1, <1>4, <3>1, Zenon DEF w
    <3>3. w \in Seq(Nat) /\ Len(w) = k
      BY <1>1, Zenon DEF w
    <3> QED BY <3>1, <3>2, <3>3, SeqEqual, Zenon
  <2> QED BY <2>3, <2>4 DEF w
<1> QED BY <1>5, <1>6, Zenon DEF Before, o

\* Every byte reaches the peer once and in order, and nothing is left over when a
\* response stops sending, unless lwIP had no memory for a part.
LEMMA Skipless == WebInv => NothingSkipped
<1> SUFFICES ASSUME WebInv PROVE NothingSkipped
  OBVIOUS
<1> DEFINE l == HeadLength + peer.content
<1>1. /\ PeerSound /\ handled = (IF parse.state = "end" THEN 1 ELSE 0) /\ tcp \in Tcps
      /\ response \in Responses
  BY Zenon DEF WebInv, Typed
<1>2. /\ handled = 0 => response.state = "none" /\ Quiet(parse, tcp, acks)
      /\ response.state # "none" => Sound(response, tcp, l)
  BY Zenon DEF WebInv, Answered, Answering
<1>3. l \in Nat /\ Full(peer.content) = Upto(l)
  BY <1>1, PeerTypes, Zenon DEF Full, Upto
<1> HIDE DEF l
<1>4. response.state \in {"none", "content", "wait ack", "end"}
  BY <1>1, ResponseFields, Zenon
<1>5. LengthsAgree
  <2> SUFFICES ASSUME response.state = "content"
               PROVE  response.contentLength - response.sent = Len(response.content)
    BY Zenon DEF LengthsAgree
  <2>1. response.state # "none"
    OBVIOUS
  <2> QED BY <1>2, <2>1, Zenon DEF Sound
<1>6. ASSUME ~tcp.failed, response.state = "content"
      PROVE  Answer \o response.content = Full(peer.content)
  <2>1. response.state # "none"
    BY <1>6
  <2>2. Delivers(response, tcp, l)
    BY <1>2, <2>1, Zenon DEF Sound
  <2>3. PICK z \in Before, k \in 0..l : tcp.wire = z \o Upto(k) /\ response.content = After(k, l)
    BY <1>6, <2>2, Zenon DEF Delivers
  <2>4. k \in Nat /\ k <= l
    BY <1>3
  <2>5. Answer = Upto(k)
    BY <2>3, <2>4, AnswerIs, Zenon
  <2>6. Upto(k) \o After(k, l) = Upto(l)
    BY <1>3, <2>4, UptoAndAfter, Zenon
  <2> QED BY <1>3, <2>3, <2>5, <2>6, Zenon
<1>7. ASSUME ~tcp.failed, response.state \in {"wait ack", "end"}
      PROVE  Answer = Full(peer.content)
  <2>1. response.state # "none" /\ response.state # "content"
    BY <1>7
  <2>2. Delivers(response, tcp, l)
    BY <1>2, <2>1, Zenon DEF Sound
  <2>3. PICK z \in Before, k \in 0..l : tcp.wire = z \o Upto(k) /\ k = l
    BY <1>7, <2>1, <2>2, Zenon DEF Delivers
  <2>4. Answer = Upto(l)
    BY <1>3, <2>3, AnswerIs, Zenon
  <2> QED BY <1>3, <2>4, Zenon
<1>8. ASSUME handled = 0 PROVE Answer = <<>>
  <2>1. tcp.wire \in Before
    BY <1>2, <1>8, Zenon DEF Quiet
  <2>2. Upto(0) = <<>>
    <3>1. Upto(0) \in Seq(Nat) /\ Len(Upto(0)) = 0
      BY UptoAndAfter
    <3> QED BY <3>1, EmptySeq, Zenon
  <2>3. tcp.wire = tcp.wire \o Upto(0)
    <3>1. tcp.wire \in Seq(Nat)
      BY <2>1, BeforeBytes, Zenon
    <3>2. tcp.wire \o <<>> = tcp.wire
      BY <3>1
    <3> QED BY <2>2, <3>2, Zenon
  <2>4. 0 \in Nat
    OBVIOUS
  <2> QED BY <2>1, <2>2, <2>3, <2>4, AnswerIs, Zenon
<1> QED BY <1>4, <1>5, <1>6, <1>7, <1>8, Zenon DEF NothingSkipped

\* The peer gets every byte of the response once and in order (_respond, _ack).
THEOREM EveryByteOnce == Spec => []NothingSkipped
BY WebInvariant, Skipless, PTL

\* A response ends when all that it has counted is acknowledged, but for what was written
\* uncounted before.
LEMMA EndAcknowledged == WebInv => EndIsAcknowledged
<1> SUFFICES ASSUME WebInv, response.state = "end" PROVE tcp.unacked <= tcp.uncounted
  BY Zenon DEF EndIsAcknowledged
<1>1. response.state # "none"
  OBVIOUS
<1>2. /\ Sound(response, tcp, HeadLength + peer.content)
      /\ Ledger(response, tcp, acks)
  BY <1>1, Zenon DEF WebInv, Answered, Answering
<1>3. response.acked >= response.written /\ response \in Responses /\ tcp \in Tcps
  BY <1>2, Zenon DEF Sound
<1>4. acks \in Seq(Nat)
  BY Zenon DEF WebInv, Typed
<1>5. response.acked \in Nat /\ response.written \in Nat /\ tcp.uncounted \in Nat
  BY <1>3, ResponseFields, TcpFields, Zenon
<1> QED BY <1>2, <1>3, <1>4, <1>5, LedgerEnds, Zenon

\* A response that ends has been acknowledged (_ack).
THEOREM EndsAcknowledged == Spec => []EndIsAcknowledged
BY WebInvariant, EndAcknowledged, PTL
=============================================================================
