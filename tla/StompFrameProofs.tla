-------------------------- MODULE StompFrameProofs --------------------------
(***************************************************************************)
(* Theorems about StompFrame, for any texts and components.                *)
(***************************************************************************)
EXTENDS StompFrame, FiniteSetTheorems, SequenceTheorems, WellFoundedInduction, TLAPS

(* Positions in a text *)

\* Every token is a string; that the names and delimiters are, too, is beyond the
\* provers, so that the set says it.
Token == STRING \cup {newLine, null, colon, "kInvalid"} \cup Commands \cup StompHeaders
Text == Seq(Token)

\* A set of numbers that is not empty has a least one.
LEMMA LeastOf ==
  ASSUME NEW S \in SUBSET Nat, S # {}
  PROVE  \E m \in S : \A n \in S : m <= n
  <1> DEFINE Less == {p \in Nat \X Nat : p[1] < p[2]}
  <1>1. IsWellFoundedOn(Less, Nat)
    BY NatLessThanWellFounded DEF OpToRel
  <1>2. S \subseteq Nat
    OBVIOUS
  <1>3. PICK m \in S : \A n \in S : ~(<<n, m>> \in Less)
    BY ONLY <1>1, <1>2, WFMin, S # {}
  <1>4. \A n \in S : ~(n < m)
    BY <1>3
  <1> QED
    BY <1>4

\* string_view::find: the first place of a token from start on, or npos.
LEMMA FindFacts ==
  ASSUME NEW text \in Text, NEW token, NEW start \in Nat \ {0}
  PROVE  \/ /\ Find(text, token, start) = npos
            /\ \A j \in start .. Len(text) : text[j] # token
         \/ /\ Find(text, token, start) \in start .. Len(text)
            /\ text[Find(text, token, start)] = token
            /\ \A j \in start .. Find(text, token, start) - 1 : text[j] # token
  <1> DEFINE at == {i \in start .. Len(text) : text[i] = token}
             least == CHOOSE i \in at : \A j \in at : i <= j
  <1>1. Find(text, token, start) = IF at = {} THEN npos ELSE least
    BY DEF Find
  <1>2. CASE at = {}
    BY <1>1, <1>2
  <1>3. CASE at # {}
    <2>1. at \in SUBSET Nat
      BY DEF Text
    <2>2. \E i \in at : \A j \in at : i <= j
      BY <1>3, <2>1, LeastOf
    <2>3. least \in at /\ \A j \in at : least <= j
      BY <2>2
    <2> HIDE DEF least
    <2>4. \A j \in start .. least - 1 : j \in start .. Len(text) /\ ~(least <= j)
      BY <2>3 DEF Text
    <2>5. \A j \in start .. least - 1 : text[j] # token
      BY <2>3, <2>4
    <2> QED
      BY <1>1, <1>3, <2>3, <2>5
  <1> QED
    BY <1>2, <1>3

\* The first place is the only one with that property.
LEMMA FindIs ==
  ASSUME NEW text \in Text, NEW token, NEW start \in Nat \ {0},
         NEW i \in start .. Len(text), text[i] = token,
         \A j \in start .. i - 1 : text[j] # token
  PROVE  Find(text, token, start) = i
  <1> DEFINE found == Find(text, token, start)
  <1>1. /\ found \in start .. Len(text) /\ text[found] = token
        /\ \A j \in start .. found - 1 : text[j] # token
    BY FindFacts
  <1> HIDE DEF found
  <1>2. Len(text) \in Nat
    BY DEF Text
  <1>3. ~(found < i)
    BY <1>1, <1>2
  <1>4. ~(i < found)
    BY <1>1, <1>2
  <1> QED
    BY <1>1, <1>2, <1>3, <1>4 DEF found

\* string_view::substr.
LEMMA SubStrFacts ==
  ASSUME NEW text \in Text, NEW a \in 1 .. Len(text) + 1, NEW b \in a .. Len(text) + 1
  PROVE  /\ SubStr(text, a, b) \in Text
         /\ Len(SubStr(text, a, b)) = b - a
         /\ \A k \in 1 .. b - a : SubStr(text, a, b)[k] = text[a + k - 1]
  <1>1. Len(text) \in Nat
    BY DEF Text
  <1>2. b - 1 \in a - 1 .. Len(text) /\ (b - 1) - a + 1 = b - a
    BY <1>1
  <1>3. /\ SubSeq(text, a, b - 1) \in Seq(Token)
        /\ Len(SubSeq(text, a, b - 1)) = IF a <= b - 1 THEN (b - 1) - a + 1 ELSE 0
        /\ \A k \in 1 .. (b - 1) - a + 1 : SubSeq(text, a, b - 1)[k] = text[a + k - 1]
    BY <1>1, <1>2, SubSeqProperties DEF Text
  <1> QED
    BY <1>1, <1>2, <1>3 DEF SubStr, Text

\* A substring of one token.
LEMMA SubStrIsOne ==
  ASSUME NEW text \in Text, NEW a \in 1 .. Len(text) + 1, NEW b \in a .. Len(text) + 1,
         NEW Names
  PROVE  SubStr(text, a, b) \in {<<h>> : h \in Names} <=> b = a + 1 /\ text[a] \in Names
  <1> DEFINE s == SubStr(text, a, b)
  <1>1. s \in Text /\ Len(s) = b - a /\ \A k \in 1 .. b - a : s[k] = text[a + k - 1]
    BY SubStrFacts
  <1> HIDE DEF s
  <1>2. ASSUME NEW h \in Names, s = <<h>>
        PROVE  b = a + 1 /\ text[a] \in Names
    <2>1. Len(s) = 1 /\ s[1] = h
      BY <1>2
    <2>2. b = a + 1
      <3>1. Len(text) \in Nat
        BY DEF Text
      <3>2. a \in Int /\ b \in Int
        BY <3>1
      <3>3. b - a = 1
        BY <1>1, <2>1
      <3> QED
        BY ONLY <3>2, <3>3
    <2>3. s[1] = text[a + 1 - 1] /\ a + 1 - 1 = a
      BY <1>1, <2>2 DEF Text
    <2> QED
      BY <2>1, <2>2, <2>3
  <1>3. ASSUME b = a + 1, text[a] \in Names
        PROVE  s = <<text[a]>>
    <2>1. Len(s) = 1 /\ s[1] = text[a + 1 - 1] /\ a + 1 - 1 = a
      BY <1>1, <1>3 DEF Text
    <2> QED
      BY <1>1, <2>1 DEF Text
  <1> QED
    BY <1>2, <1>3 DEF s

-----------------------------------------------------------------------------
(* One header line *)

\* A header line from position p to the new line at v, as the grammar has it.
GoodLine(text, p, v) ==
  /\ text[p] \in StompHeaders /\ text[p + 1] = colon
  /\ v \in p + 3 .. Len(text) /\ text[v] = newLine
  /\ \A k \in p .. v - 1 : text[k] # newLine

LineErrors ==
  {"kParsingMissingColonInHeader", "kParsingUnrecognizedHeader", "throws",
   "kParsingEmptyHeaderValue", "kParsingMissingEolAfterHeaderValue"}

\* The names of headers are no delimiters, and the delimiters differ.
LEMMA Tokens ==
  /\ colon \notin StompHeaders /\ newLine \notin StompHeaders /\ colon # newLine
  /\ newLine \notin Commands /\ null # newLine /\ "kOk" \notin LineErrors
  BY DEF colon, newLine, null, StompHeaders, Commands, RequiredHeaders, LineErrors

\* HeaderLine finds where the name ends exactly if the line starts with a header's name.
LEMMA HeaderEnd ==
  ASSUME NEW text \in Text, NEW p \in 1 .. Len(text)
  PROVE  LET e == Find(text, colon, p)
         IN  e # npos /\ SubStr(text, p, e) \in {<<h>> : h \in StompHeaders}
               <=> /\ p + 1 <= Len(text) /\ text[p] \in StompHeaders
                   /\ text[p + 1] = colon /\ e = p + 1
  <1> DEFINE e == Find(text, colon, p)
  <1>1. Len(text) \in Nat /\ p \in Nat \ {0}
    BY DEF Text
  <1>2. \/ e = npos
        \/ e \in p .. Len(text) /\ text[e] = colon
    BY <1>1, FindFacts
  <1> HIDE DEF e
  <1>3. ASSUME e # npos, SubStr(text, p, e) \in {<<h>> : h \in StompHeaders}
        PROVE  /\ p + 1 <= Len(text) /\ text[p] \in StompHeaders
               /\ text[p + 1] = colon /\ e = p + 1
    <2>1. e \in p .. Len(text) /\ text[e] = colon
      BY <1>2, <1>3
    <2>2. e = p + 1 /\ text[p] \in StompHeaders
      <3>1. p \in 1 .. Len(text) + 1 /\ e \in p .. Len(text) + 1
        BY <1>1, <2>1
      <3> QED
        BY <1>3, <3>1, SubStrIsOne
    <2> QED
      BY <1>1, <2>1, <2>2
  <1>4. ASSUME p + 1 <= Len(text), text[p] \in StompHeaders, text[p + 1] = colon, e = p + 1
        PROVE  e # npos /\ SubStr(text, p, e) \in {<<h>> : h \in StompHeaders}
    <2>1. p \in 1 .. Len(text) + 1 /\ e \in p .. Len(text) + 1 /\ e # 0
      BY <1>1, <1>4
    <2> QED
      BY <1>4, <2>1, SubStrIsOne DEF npos
  <1> QED
    BY <1>3, <1>4 DEF e

\* A line that starts with a header's name and a colon.
LEMMA ColonFound ==
  ASSUME NEW text \in Text, NEW p \in 1 .. Len(text), p + 1 <= Len(text),
         text[p] \in StompHeaders, text[p + 1] = colon
  PROVE  Find(text, colon, p) = p + 1
  <1>1. Len(text) \in Nat /\ p \in Nat \ {0} /\ p + 1 \in p .. Len(text)
    BY DEF Text
  <1>2. \A j \in p .. (p + 1) - 1 : text[j] # colon
    BY <1>1, Tokens
  <1> QED
    BY <1>1, <1>2, FindIs

\* What HeaderLine says of the line at p: it accepts exactly the good lines, up to their
\* end, and throws exactly if the text ends behind the colon.
LEMMA HeaderLineFacts ==
  ASSUME NEW text \in Text, NEW p \in 1 .. Len(text)
  PROVE  LET header == HeaderLine(text, p)
         IN  /\ header.ec \in LineErrors \cup {"kOk"}
             /\ header.ec = "kOk" =>
                  /\ GoodLine(text, p, header.end)
                  /\ header.value = SubSeq(text, p + 2, header.end - 1)
             /\ (\E v : GoodLine(text, p, v)) => header.ec = "kOk"
             /\ header.ec = "throws" <=>
                  p + 1 = Len(text) /\ text[p] \in StompHeaders /\ text[p + 1] = colon
  <1> DEFINE e == Find(text, colon, p)
             v == Find(text, newLine, e + 1)
             named == e # npos /\ SubStr(text, p, e) \in {<<h>> : h \in StompHeaders}
             code == HeaderLine(text, p).ec
  <1>1. Len(text) \in Nat /\ p \in Nat \ {0}
    BY DEF Text
  <1>2. named <=> /\ p + 1 <= Len(text) /\ text[p] \in StompHeaders
                  /\ text[p + 1] = colon /\ e = p + 1
    BY HeaderEnd
  <1>3. /\ code = IF e = npos THEN "kParsingMissingColonInHeader"
                  ELSE IF SubStr(text, p, e) \notin {<<h>> : h \in StompHeaders}
                  THEN "kParsingUnrecognizedHeader"
                  ELSE IF AtThrows(text, e) THEN "throws"
                  ELSE IF ValueEmpty(text, e) THEN "kParsingEmptyHeaderValue"
                  ELSE IF v = npos THEN "kParsingMissingEolAfterHeaderValue"
                  ELSE "kOk"
        /\ HeaderLine(text, p).end = v
        /\ HeaderLine(text, p).value = SubStr(text, e + 1, v)
    BY DEF HeaderLine
  <1> HIDE DEF code
  <1>4. code \in LineErrors \cup {"kOk"}
    BY <1>3 DEF LineErrors
  <1>5. code = "kOk" <=> named /\ ~AtThrows(text, e) /\ ~ValueEmpty(text, e) /\ v # npos
    BY <1>3
  <1>6. code = "throws" <=> named /\ AtThrows(text, e)
    BY <1>3
  <1>7. e = p + 1 => \/ v = npos /\ \A k \in p + 2 .. Len(text) : text[k] # newLine
                     \/ /\ v \in p + 2 .. Len(text) /\ text[v] = newLine
                        /\ \A k \in p + 2 .. v - 1 : text[k] # newLine
    <2> SUFFICES ASSUME e = p + 1
                 PROVE  \/ v = npos /\ \A k \in p + 2 .. Len(text) : text[k] # newLine
                        \/ /\ v \in p + 2 .. Len(text) /\ text[v] = newLine
                           /\ \A k \in p + 2 .. v - 1 : text[k] # newLine
      OBVIOUS
    <2>1. e + 1 = p + 2 /\ e + 1 \in Nat \ {0}
      BY <1>1
    <2> QED
      BY <2>1, FindFacts
  <1> HIDE DEF e, v, named
  <1>8. ASSUME code = "kOk"
        PROVE  GoodLine(text, p, v) /\ SubStr(text, e + 1, v) = SubSeq(text, p + 2, v - 1)
    <2>1. /\ p + 1 <= Len(text) /\ text[p] \in StompHeaders /\ text[p + 1] = colon
          /\ e = p + 1 /\ e # Len(text) /\ ~ValueEmpty(text, e) /\ v # npos
      BY <1>2, <1>5, <1>8 DEF AtThrows
    <2>2. p + 2 <= Len(text) /\ text[p + 2] # newLine
      <3>1. p + 1 < Len(text) /\ e + 1 = p + 2
        BY <1>1, <2>1
      <3> QED
        BY <1>1, <2>1, <3>1 DEF ValueEmpty
    <2>3. /\ v \in p + 2 .. Len(text) /\ text[v] = newLine
          /\ \A k \in p + 2 .. v - 1 : text[k] # newLine
      BY <1>7, <2>1
    <2>4. v \in p + 3 .. Len(text)
      BY <1>1, <2>2, <2>3
    <2>5. ASSUME NEW k \in p .. v - 1 PROVE text[k] # newLine
      <3>1. k = p \/ k = p + 1 \/ k \in p + 2 .. v - 1
        BY <1>1, <2>4
      <3> QED
        BY <2>1, <2>3, <3>1, Tokens
    <2>6. e + 1 = p + 2
      BY <1>1, <2>1
    <2> QED
      BY <2>1, <2>3, <2>4, <2>5, <2>6 DEF GoodLine, SubStr
  <1>9. ASSUME NEW w, GoodLine(text, p, w)
        PROVE  code = "kOk"
    <2>1. /\ text[p] \in StompHeaders /\ text[p + 1] = colon
          /\ w \in p + 3 .. Len(text) /\ text[w] = newLine
          /\ \A k \in p .. w - 1 : text[k] # newLine
      BY <1>9 DEF GoodLine
    <2>2. p + 1 <= Len(text) /\ w \in p + 2 .. Len(text) /\ p + 2 \in p .. w - 1
          /\ p + 1 # Len(text)
      BY <1>1, <2>1
    <2>3. e = p + 1
      BY <2>1, <2>2, ColonFound DEF e
    <2>4. e + 1 = p + 2
      BY <1>1, <2>3
    <2>5. ~AtThrows(text, e) /\ ~ValueEmpty(text, e)
      BY <2>1, <2>2, <2>3, <2>4 DEF AtThrows, ValueEmpty
    <2>6. v # npos
      BY <1>1, <1>7, <2>1, <2>2, <2>3 DEF npos
    <2> QED
      BY <1>2, <1>5, <2>1, <2>2, <2>3, <2>5, <2>6
  <1>10. ASSUME p + 1 = Len(text), text[p] \in StompHeaders, text[p + 1] = colon
         PROVE  code = "throws"
    <2>1. p + 1 <= Len(text)
      BY <1>1, <1>10
    <2>2. e = p + 1
      BY <1>10, <2>1, ColonFound DEF e
    <2> QED
      BY <1>2, <1>6, <1>10, <2>1, <2>2 DEF AtThrows
  <1>11. code = "throws" =>
           p + 1 = Len(text) /\ text[p] \in StompHeaders /\ text[p + 1] = colon
    BY <1>2, <1>6 DEF AtThrows
  <1> QED
    BY <1>3, <1>4, <1>8, <1>9, <1>10, <1>11 DEF code

\* A good line has one end, and no line starts within it.
LEMMA GoodLineOnce ==
  ASSUME NEW text \in Text, NEW p \in 1 .. Len(text), NEW v, GoodLine(text, p, v),
         NEW w, GoodLine(text, p, w)
  PROVE  v = w
  <1>1. v \in Int /\ w \in Int /\ p \in Int
    BY DEF GoodLine, Text
  <1>2. ~(v < w) /\ ~(w < v)
    BY <1>1 DEF GoodLine, Text
  <1> QED
    BY <1>1, <1>2

-----------------------------------------------------------------------------
(* The loop over the header lines *)

\* What the loop finds from position pos on, given what it finds further on.
LineAt(text, pos, g) ==
  IF pos > Len(text) \/ text[pos] = newLine THEN Lines("kOk", pos, NoHeaders)
  ELSE IF HeaderLine(text, pos).ec # "kOk"
  THEN Lines(HeaderLine(text, pos).ec, pos, NoHeaders)
  ELSE Lines(g[HeaderLine(text, pos).end + 1].ec, g[HeaderLine(text, pos).end + 1].end,
             FirstWins(text[pos], HeaderLine(text, pos).value,
                       g[HeaderLine(text, pos).end + 1].headers))
LinesFrom(text, start, g) == [pos \in start .. Len(text) + 1 |-> LineAt(text, pos, g)]
Line(text, start) == CHOOSE g : g = LinesFrom(text, start, g)

LEMMA ParseHeadersIsLine ==
  ASSUME NEW text, NEW start
  PROVE  ParseHeaders(text, start) = Line(text, start)[start]
  BY DEF ParseHeaders, Line, LinesFrom, LineAt, InFront

\* A line's outcome depends on later positions only.
LEMMA LineAtLater ==
  ASSUME NEW text \in Text, NEW pos \in 1 .. Len(text) + 1, NEW g, NEW h,
         \A k \in pos + 1 .. Len(text) + 1 : g[k] = h[k]
  PROVE  LineAt(text, pos, g) = LineAt(text, pos, h)
  <1>1. Len(text) \in Nat
    BY DEF Text
  <1>2. CASE pos > Len(text) \/ text[pos] = newLine
    BY <1>2 DEF LineAt
  <1>3. CASE ~(pos > Len(text) \/ text[pos] = newLine)
    <2> DEFINE next == HeaderLine(text, pos).end + 1
    <2>1. pos \in 1 .. Len(text)
      BY <1>1, <1>3
    <2>2. CASE HeaderLine(text, pos).ec # "kOk"
      BY <1>3, <2>2 DEF LineAt
    <2>3. CASE HeaderLine(text, pos).ec = "kOk"
      <3>1. HeaderLine(text, pos).end \in pos + 3 .. Len(text)
        BY <2>1, <2>3, HeaderLineFacts DEF GoodLine
      <3>2. next \in pos + 1 .. Len(text) + 1
        BY <1>1, <2>1, <3>1
      <3>3. g[next] = h[next]
        BY <3>2
      <3> QED
        BY <1>3, <2>3, <3>3 DEF LineAt
    <2> QED
      BY <2>2, <2>3
  <1> QED
    BY <1>2, <1>3

\* The loop's recursive definition has a solution from every position on.
LEMMA LinesExist ==
  ASSUME NEW text \in Text, NEW start \in 1 .. Len(text) + 1
  PROVE  \E g : g = LinesFrom(text, start, g)
  <1> DEFINE n == Len(text)
             top == n + 1
             Solved(k) == \E g : g = LinesFrom(text, top - k, g)
             bad == {k \in 0 .. n : ~Solved(k)}
  <1>1. n \in Nat
    BY DEF Text
  <1> HIDE DEF n
  <1>2. ASSUME bad # {} PROVE FALSE
    <2>1. bad \in SUBSET Nat
      OBVIOUS
    <2>2. PICK m \in bad : \A k \in bad : m <= k
      BY <1>2, <2>1, LeastOf
    <2>3. m \in 0 .. n /\ ~Solved(m)
      OBVIOUS
    <2>4. m # 0
      <3> DEFINE g == [pos \in {n + 1} |-> Lines("kOk", n + 1, NoHeaders)]
      <3>1. (n + 1) - 0 = n + 1 /\ n + 1 > n /\ (n + 1) .. (n + 1) = {n + 1}
        BY <1>1
      <3>2. \A f : LineAt(text, n + 1, f) = Lines("kOk", n + 1, NoHeaders)
        BY <3>1 DEF LineAt, n
      <3>3. \A f : LinesFrom(text, n + 1, f) = [pos \in {n + 1} |-> LineAt(text, pos, f)]
        BY <3>1 DEF LinesFrom, n
      <3>4. LinesFrom(text, n + 1, g) = g
        <4>1. \A pos \in {n + 1} : LineAt(text, pos, g) = g[pos]
          BY <3>2
        <4>2. LinesFrom(text, n + 1, g) = [pos \in {n + 1} |-> LineAt(text, pos, g)]
          BY <3>3
        <4>3. g = [pos \in {n + 1} |-> g[pos]]
          OBVIOUS
        <4> HIDE DEF g
        <4> QED
          BY <4>1, <4>2, <4>3
      <3>5. Solved(0)
        BY <3>1, <3>4
      <3> QED
        BY <2>3, <3>5
    <2>5. m - 1 \in 0 .. n /\ ~(m <= m - 1)
      BY <1>1, <2>3, <2>4
    <2>6. Solved(m - 1)
      <3>1. m - 1 \notin bad
        <4> HIDE DEF bad
        <4> QED
          BY <2>2, <2>5
      <3> QED
        BY <2>5, <3>1
    <2> DEFINE s == top - m
    <2>7. s \in 1 .. n /\ top - (m - 1) = s + 1
      BY <1>1, <2>3, <2>4
    <2>8. PICK g : g = LinesFrom(text, s + 1, g)
      BY <2>6, <2>7
    <2> HIDE DEF s
    <2> DEFINE h == [pos \in s .. n + 1 |-> IF pos = s THEN LineAt(text, s, g) ELSE g[pos]]
    <2>9. \A k \in s + 1 .. n + 1 : g[k] = h[k]
      BY <1>1, <2>7
    <2>10. ASSUME NEW pos \in s .. n + 1
           PROVE  LineAt(text, pos, g) = LineAt(text, pos, h)
      <3>1. pos \in 1 .. n + 1 /\ \A k \in pos + 1 .. n + 1 : k \in s + 1 .. n + 1
        BY <1>1, <2>7
      <3>2. \A k \in pos + 1 .. n + 1 : g[k] = h[k]
        BY <2>9, <3>1
      <3> HIDE DEF h
      <3> QED
        BY <3>1, <3>2, LineAtLater DEF n
    <2>11. \A pos \in s .. n + 1 : h[pos] = LineAt(text, pos, g)
      <3>1. \A pos \in s + 1 .. n + 1 : g[pos] = LineAt(text, pos, g)
        BY <2>8 DEF LinesFrom, n
      <3>2. \A pos \in s .. n + 1 : pos = s \/ pos \in s + 1 .. n + 1
        BY <1>1, <2>7
      <3> QED
        BY <3>1, <3>2
    <2>12. h = LinesFrom(text, s, h)
      <3>1. LinesFrom(text, s, h) = [pos \in s .. n + 1 |-> LineAt(text, pos, h)]
        BY DEF LinesFrom, n
      <3>2. h = [pos \in s .. n + 1 |-> h[pos]]
        OBVIOUS
      <3> HIDE DEF h
      <3> QED
        BY <2>10, <2>11, <3>1, <3>2
    <2> QED
      BY <2>3, <2>12 DEF s
  <1>3. top - start \in 0 .. n /\ top - (top - start) = start
    BY <1>1 DEF n
  <1> QED
    BY <1>2, <1>3

LEMMA LineIs ==
  ASSUME NEW text \in Text, NEW start \in 1 .. Len(text) + 1,
         NEW pos \in start .. Len(text) + 1
  PROVE  Line(text, start)[pos] = LineAt(text, pos, Line(text, start))
  <1>1. Line(text, start) = LinesFrom(text, start, Line(text, start))
    BY LinesExist DEF Line
  <1> QED
    BY <1>1 DEF LinesFrom

-----------------------------------------------------------------------------
(* The grammar, from a position on *)

Blank(text, p, b) ==
  /\ b \in p .. Len(text) /\ text[b] = newLine /\ text[b - 1] = newLine
  /\ \A j \in p .. b - 1 : text[j] = newLine => text[j - 1] # newLine
StartsIn(text, p, e) == {i \in p .. e - 1 : text[i - 1] = newLine}
Good(text, p, e) ==
  \A i \in StartsIn(text, p, e) :
    i + 2 < e /\ text[i] \in StompHeaders /\ text[i + 1] = colon /\ text[i + 2] # newLine
FirstFrom(text, h, p, e) ==
  LET at == {i \in StartsIn(text, p, e) : text[i] = h}
  IN  CHOOSE i \in at : \A j \in at : i <= j
HeadersFrom(text, p, e) ==
  [h \in {text[i] : i \in StartsIn(text, p, e)} |-> ValueAt(text, FirstFrom(text, h, p, e))]
EndsBehindColon(text, p) ==
  LET n == Len(text)
  IN  /\ p <= n - 1 /\ text[n] = colon /\ text[n - 1] \in StompHeaders /\ text[n - 2] = newLine
      /\ ~ \E b : Blank(text, p, b)
      /\ Good(text, p, n - 1)

\* A line starts at p.
Starts(text, p) == p \in 3 .. Len(text) + 1 /\ text[p - 1] = newLine

\* Behind a good line the grammar goes on at the next line.
LEMMA NextLine ==
  ASSUME NEW text \in Text, NEW p, Starts(text, p), NEW v, GoodLine(text, p, v)
  PROVE  /\ Starts(text, v + 1) /\ p \in 3 .. Len(text) /\ v + 1 \in p + 4 .. Len(text) + 1
         /\ \A b : Blank(text, p, b) <=> Blank(text, v + 1, b)
         /\ \A e \in v + 1 .. Len(text) + 1 :
              /\ StartsIn(text, p, e) = {p} \cup StartsIn(text, v + 1, e)
              /\ Good(text, p, e) <=> Good(text, v + 1, e)
  <1> DEFINE n == Len(text)
             q == v + 1
  <1>1. n \in Nat
    BY DEF Text
  <1>2. /\ p \in 3 .. n + 1 /\ text[p - 1] = newLine
        /\ text[p] \in StompHeaders /\ text[p + 1] = colon
        /\ v \in p + 3 .. n /\ text[v] = newLine
        /\ \A k \in p .. v - 1 : text[k] # newLine
    BY DEF Starts, GoodLine
  <1> HIDE DEF n
  <1>3. p \in 3 .. n /\ q \in p + 4 .. n + 1 /\ q \in 3 .. n + 1 /\ q - 1 = v
    BY <1>1, <1>2
  <1>4. v - 1 \in p .. v - 1 /\ p + 2 \in p .. v - 1
    BY <1>1, <1>2
  <1>5. text[p] # newLine /\ text[p + 2] # newLine /\ text[v - 1] # newLine
    BY <1>2, <1>4, Tokens
  <1> HIDE DEF q
  <1>6. ASSUME NEW b, Blank(text, p, b) PROVE Blank(text, q, b)
    <2>1. /\ b \in p .. n /\ text[b] = newLine /\ text[b - 1] = newLine
          /\ \A j \in p .. b - 1 : text[j] = newLine => text[j - 1] # newLine
      BY <1>6 DEF Blank, n
    <2>2. b \notin p .. v - 1 /\ b # v
      BY <1>2, <1>5, <2>1
    <2>3. b \in q .. n /\ \A j \in q .. b - 1 : j \in p .. b - 1
      BY <1>1, <1>2, <1>3, <2>1, <2>2
    <2> QED
      BY <2>1, <2>3 DEF Blank, n
  <1>7. ASSUME NEW b, Blank(text, q, b) PROVE Blank(text, p, b)
    <2>1. /\ b \in q .. n /\ text[b] = newLine /\ text[b - 1] = newLine
          /\ \A j \in q .. b - 1 : text[j] = newLine => text[j - 1] # newLine
      BY <1>7 DEF Blank, n
    <2>2. ASSUME NEW j \in p .. b - 1, text[j] = newLine PROVE text[j - 1] # newLine
      <3>1. j \in p .. v - 1 \/ j = v \/ j \in q .. b - 1
        BY <1>1, <1>2, <1>3, <2>1
      <3> QED
        BY <1>2, <1>5, <2>1, <2>2, <3>1
    <2>3. b \in p .. n
      BY <1>1, <1>3, <2>1
    <2> QED
      BY <2>1, <2>2, <2>3 DEF Blank, n
  <1>8. ASSUME NEW e \in q .. n + 1
        PROVE  StartsIn(text, p, e) = {p} \cup StartsIn(text, q, e)
    <2>1. ASSUME NEW i \in p .. e - 1, text[i - 1] = newLine
          PROVE  i = p \/ i \in q .. e - 1
      <3>1. i = p \/ i - 1 \in p .. v - 1 \/ i \in q .. e - 1
        BY <1>1, <1>2, <1>3
      <3> QED
        BY <1>2, <2>1, <3>1
    <2>2. p \in p .. e - 1 /\ \A i \in q .. e - 1 : i \in p .. e - 1
      BY <1>1, <1>2, <1>3
    <2> QED
      BY <1>2, <2>1, <2>2 DEF StartsIn
  <1>9. ASSUME NEW e \in q .. n + 1
        PROVE  Good(text, p, e) <=> Good(text, q, e)
    <2>1. p + 2 < e
      BY <1>1, <1>3
    <2> QED
      BY <1>2, <1>5, <1>8, <2>1 DEF Good
  <1>10. Starts(text, q)
    BY <1>2, <1>3 DEF Starts, n
  <1> QED
    BY <1>3, <1>6, <1>7, <1>8, <1>9, <1>10 DEF q, n

\* The lines of a range of positions: the first with a given name exists.
LEMMA FirstFromFacts ==
  ASSUME NEW text \in Text, NEW p \in Nat, NEW e \in Nat, NEW h,
         h \in {text[i] : i \in StartsIn(text, p, e)}
  PROVE  LET i == FirstFrom(text, h, p, e)
         IN  /\ i \in StartsIn(text, p, e) /\ text[i] = h
             /\ \A j \in StartsIn(text, p, e) : text[j] = h => i <= j
  <1> DEFINE at == {i \in StartsIn(text, p, e) : text[i] = h}
  <1>1. at \in SUBSET Nat /\ at # {}
    BY DEF StartsIn
  <1>2. \E i \in at : \A j \in at : i <= j
    BY <1>1, LeastOf
  <1>3. FirstFrom(text, h, p, e) = CHOOSE i \in at : \A j \in at : i <= j
    BY DEF FirstFrom
  <1> QED
    BY <1>2, <1>3

\* The value of a good line.
LEMMA ValueAtIs ==
  ASSUME NEW text \in Text, NEW p \in 1 .. Len(text), NEW v, GoodLine(text, p, v)
  PROVE  ValueAt(text, p) = SubSeq(text, p + 2, v - 1)
  <1> DEFINE Stop(j) == text[j] = newLine /\ \A k \in p .. j - 1 : text[k] # newLine
             stop == CHOOSE j \in p .. Len(text) : Stop(j)
  <1>1. Len(text) \in Nat
    BY DEF Text
  <1>2. v \in p .. Len(text) /\ Stop(v)
    BY <1>1 DEF GoodLine
  <1>3. stop \in p .. Len(text) /\ Stop(stop)
    BY <1>2
  <1>4. ValueAt(text, p) = SubSeq(text, p + 2, stop - 1)
    BY DEF ValueAt
  <1> HIDE DEF stop
  <1>5. ~(stop < v) /\ ~(v < stop)
    BY <1>1, <1>2, <1>3
  <1>6. stop = v
    BY <1>1, <1>2, <1>3, <1>5
  <1> QED
    BY <1>4, <1>6

\* The headers from a line on: its own, and those of the lines behind it unless they
\* have its name.
LEMMA HeadersGrow ==
  ASSUME NEW text \in Text, NEW p, Starts(text, p), NEW v, GoodLine(text, p, v),
         NEW e \in v + 1 .. Len(text) + 1
  PROVE  HeadersFrom(text, p, e)
           = FirstWins(text[p], SubSeq(text, p + 2, v - 1), HeadersFrom(text, v + 1, e))
  <1> DEFINE q == v + 1
             names == {text[i] : i \in StartsIn(text, p, e)}
             later == {text[i] : i \in StartsIn(text, q, e)}
             first(h) == FirstFrom(text, h, p, e)
             next(h) == FirstFrom(text, h, q, e)
             value == SubSeq(text, p + 2, v - 1)
  <1>1. /\ p \in 3 .. Len(text) /\ q \in p + 4 .. Len(text) + 1 /\ Len(text) \in Nat
        /\ StartsIn(text, p, e) = {p} \cup StartsIn(text, q, e)
    BY NextLine DEF Text
  <1>2. p \in Nat /\ q \in Nat /\ e \in Nat /\ p \in 1 .. Len(text) /\ p < q
    BY <1>1
  <1> HIDE DEF q
  <1>3. names = {text[p]} \cup later
    BY <1>1
  <1>4. first(text[p]) = p
    <2>1. text[p] \in names
      BY <1>3
    <2>2. first(text[p]) \in StartsIn(text, p, e) /\ first(text[p]) <= p
      BY <1>1, <1>2, <2>1, FirstFromFacts
    <2>3. first(text[p]) \in p .. e - 1
      BY <2>2 DEF StartsIn
    <2> HIDE DEF first
    <2> QED
      BY <1>2, <2>2, <2>3
  <1>5. ASSUME NEW h \in later, h # text[p]
        PROVE  first(h) = next(h)
    <2>1. h \in names
      BY <1>3
    <2>2. /\ first(h) \in StartsIn(text, p, e) /\ text[first(h)] = h
          /\ \A j \in StartsIn(text, p, e) : text[j] = h => first(h) <= j
      BY <1>2, <2>1, FirstFromFacts
    <2>3. /\ next(h) \in StartsIn(text, q, e) /\ text[next(h)] = h
          /\ \A j \in StartsIn(text, q, e) : text[j] = h => next(h) <= j
      BY <1>2, FirstFromFacts
    <2>4. first(h) \in StartsIn(text, q, e)
      BY <1>1, <1>5, <2>2
    <2> HIDE DEF first, next
    <2>5. first(h) <= next(h) /\ next(h) <= first(h)
      BY <1>1, <2>2, <2>3, <2>4
    <2>6. first(h) \in Int /\ next(h) \in Int
      BY <1>2, <2>2, <2>3 DEF StartsIn
    <2> QED
      BY <2>5, <2>6
  <1>6. ValueAt(text, p) = value
    BY <1>2, ValueAtIs
  <1>7. HeadersFrom(text, p, e) = [h \in names |-> ValueAt(text, first(h))]
    BY DEF HeadersFrom
  <1>8. HeadersFrom(text, q, e) = [h \in later |-> ValueAt(text, next(h))]
    BY DEF HeadersFrom
  <1> HIDE DEF first, next, later, names, value
  <1>9. \A h \in names : ValueAt(text, first(h))
                           = IF h = text[p] THEN value ELSE ValueAt(text, next(h))
    BY <1>3, <1>4, <1>5, <1>6
  <1>10. FirstWins(text[p], value, HeadersFrom(text, q, e))
           = [h \in names |-> IF h = text[p] THEN value ELSE ValueAt(text, next(h))]
    <2>1. DOMAIN HeadersFrom(text, q, e) = later
      BY <1>8
    <2>2. \A h \in names : h # text[p] => HeadersFrom(text, q, e)[h] = ValueAt(text, next(h))
      BY <1>3, <1>8
    <2> QED
      BY <1>3, <2>1, <2>2 DEF FirstWins
  <1> QED
    BY <1>7, <1>9, <1>10 DEF q, value

-----------------------------------------------------------------------------
(* The loop finds what the grammar says *)

\* What the loop over the header lines, entered at the start p of a line, ends with.
LineOK(text, p, res) ==
  /\ res.ec \in LineErrors \cup {"kOk"}
  /\ res.ec = "kOk" => res.end \in p .. Len(text) + 1
  /\ res.ec = "kOk" /\ res.end <= Len(text) =>
       /\ Blank(text, p, res.end) /\ Good(text, p, res.end)
       /\ res.headers = HeadersFrom(text, p, res.end)
  /\ \A b : Blank(text, p, b) /\ Good(text, p, b) => res.ec = "kOk" /\ res.end = b
  /\ res.ec = "throws" <=> EndsBehindColon(text, p)

\* The loop ends at a blank line, or with the text.
LEMMA LineOKAtEnd ==
  ASSUME NEW text \in Text, NEW p, Starts(text, p), p > Len(text) \/ text[p] = newLine
  PROVE  LineOK(text, p, Lines("kOk", p, NoHeaders))
  <1> DEFINE n == Len(text)
             res == Lines("kOk", p, NoHeaders)
  <1>1. n \in Nat /\ p \in 3 .. n + 1 /\ text[p - 1] = newLine
    BY DEF Starts, Text
  <1>2. res.ec = "kOk" /\ res.end = p /\ res.headers = NoHeaders
    BY DEF Lines
  <1> HIDE DEF res
  <1>3. p <= n => Blank(text, p, p)
    BY <1>1 DEF Blank
  <1>4. StartsIn(text, p, p) = {}
    BY <1>1 DEF StartsIn
  <1>5. Good(text, p, p) /\ HeadersFrom(text, p, p) = NoHeaders
    <2>1. {text[i] : i \in StartsIn(text, p, p)} = {}
      BY <1>4
    <2>2. \A f : [h \in {} |-> f[h]] = NoHeaders
      BY DEF NoHeaders
    <2>3. HeadersFrom(text, p, p) = [h \in {} |-> ValueAt(text, FirstFrom(text, h, p, p))]
      BY <2>1 DEF HeadersFrom
    <2> QED
      BY <1>4, <2>3 DEF Good, NoHeaders
  <1>6. ASSUME NEW b, Blank(text, p, b) PROVE b = p
    <2>1. b \in p .. n /\ \A j \in p .. b - 1 : text[j] = newLine => text[j - 1] # newLine
      BY <1>6 DEF Blank
    <2>2. text[p] = newLine
      BY <1>1, <2>1
    <2>3. p \notin p .. b - 1
      BY <1>1, <2>1, <2>2
    <2> QED
      BY <1>1, <2>1, <2>3
  <1>7. ~EndsBehindColon(text, p)
    <2>1. p > n => ~(p <= n - 1)
      BY <1>1
    <2>2. ~(p > n) => Blank(text, p, p)
      BY <1>1, <1>3
    <2> QED
      BY <2>1, <2>2 DEF EndsBehindColon
  <1>8. "kOk" # "throws" /\ p \in p .. n + 1
    BY <1>1
  <1> QED
    BY <1>2, <1>3, <1>5, <1>6, <1>7, <1>8 DEF LineOK, res

\* Where the grammar wants a good line there is one.
LEMMA GoodHasLine ==
  ASSUME NEW text \in Text, NEW p, Starts(text, p), p <= Len(text), text[p] # newLine,
         NEW e, e \in p + 1 .. Len(text), Good(text, p, e),
         NEW w, w \in p + 1 .. e, text[w] = newLine
  PROVE  \E v : GoodLine(text, p, v) /\ v <= w
  <1> DEFINE n == Len(text)
             v == Find(text, newLine, p)
  <1>1. n \in Nat /\ p \in 3 .. n /\ p \in Nat \ {0} /\ text[p - 1] = newLine
    BY DEF Starts, Text
  <1>2. p \in StartsIn(text, p, e)
    BY <1>1 DEF StartsIn
  <1>3. p + 2 < e /\ text[p] \in StompHeaders /\ text[p + 1] = colon /\ text[p + 2] # newLine
    BY <1>2 DEF Good
  <1>4. w \in p .. n
    BY <1>1
  <1>5. /\ v \in p .. n /\ text[v] = newLine
        /\ \A j \in p .. v - 1 : text[j] # newLine
    BY <1>1, <1>4, FindFacts
  <1> HIDE DEF v, n
  <1>6. v # p /\ v # p + 1 /\ v # p + 2
    BY <1>3, <1>5, Tokens
  <1>7. v \in p + 3 .. n
    BY <1>1, <1>5, <1>6
  <1>8. ~(w < v)
    BY <1>1, <1>4, <1>5
  <1>9. v <= w
    BY <1>1, <1>4, <1>7, <1>8
  <1>10. GoodLine(text, p, v)
    BY <1>3, <1>5, <1>7 DEF GoodLine, n
  <1> QED
    BY <1>9, <1>10

\* The loop ends at a line that is not good.
LEMMA LineOKAtError ==
  ASSUME NEW text \in Text, NEW p, Starts(text, p), p <= Len(text), text[p] # newLine,
         HeaderLine(text, p).ec # "kOk"
  PROVE  LineOK(text, p, Lines(HeaderLine(text, p).ec, p, NoHeaders))
  <1> DEFINE n == Len(text)
             code == HeaderLine(text, p).ec
             res == Lines(code, p, NoHeaders)
  <1>1. n \in Nat /\ p \in 3 .. n /\ p \in 1 .. n /\ text[p - 1] = newLine
    BY DEF Starts, Text
  <1>2. /\ code \in LineErrors /\ ~ \E v : GoodLine(text, p, v)
        /\ code = "throws" <=>
             p + 1 = n /\ text[p] \in StompHeaders /\ text[p + 1] = colon
    BY <1>1, HeaderLineFacts
  <1> HIDE DEF code
  <1>3. res.ec = code
    BY DEF Lines
  <1> HIDE DEF res
  <1>4. ASSUME NEW b, Blank(text, p, b), Good(text, p, b) PROVE FALSE
    <2>1. b \in p .. n /\ text[b] = newLine
      BY <1>4 DEF Blank
    <2>2. b \in p + 1 .. n /\ b \in p + 1 .. b
      BY <1>1, <2>1
    <2> QED
      BY <1>1, <1>2, <1>4, <2>1, <2>2, GoodHasLine
  <1>5. ASSUME EndsBehindColon(text, p) PROVE code = "throws"
    <2>1. /\ p <= n - 1 /\ text[n] = colon /\ text[n - 1] \in StompHeaders
          /\ text[n - 2] = newLine /\ Good(text, p, n - 1)
      BY <1>5 DEF EndsBehindColon
    <2>2. CASE p = n - 1
      <3>1. p + 1 = n
        BY <1>1, <2>2
      <3> QED
        BY <1>2, <2>1, <2>2, <3>1
    <2>3. CASE p # n - 1
      <3>1. n - 1 \in p + 1 .. n /\ n - 2 \in p .. n - 1
        BY <1>1, <2>1, <2>3
      <3>2. n - 2 # p
        BY <2>1
      <3>3. n - 2 \in p + 1 .. n - 1
        BY <1>1, <3>1, <3>2
      <3> QED
        BY <1>1, <1>2, <2>1, <3>1, <3>3, GoodHasLine
    <2> QED
      BY <2>2, <2>3
  <1>6. ASSUME code = "throws" PROVE EndsBehindColon(text, p)
    <2>1. p + 1 = n /\ text[p] \in StompHeaders /\ text[p + 1] = colon
      BY <1>2, <1>6
    <2>2. n - 1 = p /\ n - 2 = p - 1 /\ p <= n - 1
      BY <1>1, <2>1
    <2>3. Good(text, p, n - 1)
      <3>1. StartsIn(text, p, p) = {}
        BY <1>1 DEF StartsIn
      <3> QED
        BY <2>2, <3>1 DEF Good
    <2>4. ASSUME NEW b, Blank(text, p, b) PROVE FALSE
      <3>1. b \in p .. n /\ text[b] = newLine
        BY <2>4 DEF Blank
      <3>2. b = p \/ b = p + 1
        BY <1>1, <2>1, <3>1
      <3> QED
        BY <2>1, <3>1, <3>2, Tokens
    <2> QED
      BY <1>1, <2>1, <2>2, <2>3, <2>4 DEF EndsBehindColon
  <1>7. code # "kOk"
    BY <1>2, Tokens
  <1> QED
    BY <1>2, <1>3, <1>4, <1>5, <1>6, <1>7 DEF LineOK, res, code

\* A good line, and what the loop finds behind it.
LEMMA LineOKGoesOn ==
  ASSUME NEW text \in Text, NEW p, Starts(text, p), NEW v, GoodLine(text, p, v),
         NEW rest, LineOK(text, v + 1, rest)
  PROVE  LineOK(text, p, Lines(rest.ec, rest.end,
                               FirstWins(text[p], SubSeq(text, p + 2, v - 1), rest.headers)))
  <1> DEFINE n == Len(text)
             q == v + 1
             headers == FirstWins(text[p], SubSeq(text, p + 2, v - 1), rest.headers)
             res == Lines(rest.ec, rest.end, headers)
  <1>1. n \in Nat /\ p \in 3 .. n /\ q \in p + 4 .. n + 1
    BY NextLine DEF Text
  <1>2. /\ \A b : Blank(text, p, b) <=> Blank(text, q, b)
        /\ \A e \in q .. n + 1 : Good(text, p, e) <=> Good(text, q, e)
    BY NextLine
  <1>3. \A e \in q .. n + 1 :
          HeadersFrom(text, p, e)
            = FirstWins(text[p], SubSeq(text, p + 2, v - 1), HeadersFrom(text, q, e))
    BY HeadersGrow
  <1>4. res.ec = rest.ec /\ res.end = rest.end /\ res.headers = headers
    BY DEF Lines
  <1>5. /\ rest.ec \in LineErrors \cup {"kOk"}
        /\ rest.ec = "kOk" => rest.end \in q .. n + 1
        /\ rest.ec = "kOk" /\ rest.end <= n =>
             /\ Blank(text, q, rest.end) /\ Good(text, q, rest.end)
             /\ rest.headers = HeadersFrom(text, q, rest.end)
        /\ \A b : Blank(text, q, b) /\ Good(text, q, b) => rest.ec = "kOk" /\ rest.end = b
        /\ rest.ec = "throws" <=> EndsBehindColon(text, q)
    BY DEF LineOK
  <1> HIDE DEF res
  <1>6. res.ec = "kOk" => res.end \in p .. n + 1
    BY <1>1, <1>4, <1>5
  <1>7. ASSUME res.ec = "kOk", res.end <= n
        PROVE  /\ Blank(text, p, res.end) /\ Good(text, p, res.end)
               /\ res.headers = HeadersFrom(text, p, res.end)
    BY <1>2, <1>3, <1>4, <1>5, <1>7
  <1>8. ASSUME NEW b, Blank(text, p, b), Good(text, p, b)
        PROVE  res.ec = "kOk" /\ res.end = b
    <2>1. Blank(text, q, b) /\ b \in q .. n
      BY <1>2, <1>8 DEF Blank
    <2>2. b \in q .. n + 1
      BY <1>1, <2>1
    <2> QED
      BY <1>2, <1>4, <1>5, <1>8, <2>1, <2>2
  <1>9. EndsBehindColon(text, p) <=> EndsBehindColon(text, q)
    <2>1. ASSUME p <= n - 1, text[n] = colon, text[n - 1] \in StompHeaders, text[n - 2] = newLine
          PROVE  q <= n - 1
      <3>1. v \in p + 3 .. n /\ text[p] \in StompHeaders /\ text[v] = newLine
            /\ \A k \in p .. v - 1 : text[k] # newLine
        BY DEF GoodLine
      <3>2. v # n /\ v # n - 1
        BY <2>1, <3>1, Tokens
      <3> QED
        BY <1>1, <3>1, <3>2
    <2>2. q <= n - 1 => p <= n - 1 /\ n - 1 \in q .. n + 1
      BY <1>1
    <2> HIDE DEF q
    <2> QED
      BY <1>2, <2>1, <2>2 DEF EndsBehindColon, n
  <1> HIDE DEF headers
  <1> QED
    BY <1>4, <1>5, <1>6, <1>7, <1>8, <1>9 DEF LineOK, res, headers

\* The loop over the header lines finds exactly the lines, the headers and the blank line
\* of the grammar, for texts of any length.
LEMMA LoopFollowsGrammar ==
  ASSUME NEW text \in Text, Starts(text, 3)
  PROVE  LineOK(text, 3, ParseHeaders(text, 3))
  <1> DEFINE n == Len(text)
             line == Line(text, 3)
             wrong == {k \in Nat : \E p : /\ Starts(text, p) /\ k = (n + 1) - p
                                          /\ ~LineOK(text, p, line[p])}
  <1>1. n \in Nat /\ n + 1 >= 3
    BY DEF Starts, Text
  <1>2. ASSUME NEW p, Starts(text, p)
        PROVE  p \in 3 .. n + 1 /\ line[p] = LineAt(text, p, line)
    <2>1. p \in 3 .. n + 1
      BY <1>2 DEF Starts
    <2>2. 3 \in 1 .. n + 1
      BY <1>1
    <2> QED
      BY <2>1, <2>2, LineIs
  <1> HIDE DEF line, n
  <1>3. ASSUME wrong # {} PROVE FALSE
    <2>1. wrong \in SUBSET Nat
      OBVIOUS
    <2>2. PICK m \in wrong : \A k \in wrong : m <= k
      BY <1>3, <2>1, LeastOf
    <2>3. PICK p : Starts(text, p) /\ m = (n + 1) - p /\ ~LineOK(text, p, line[p])
      BY <2>2
    <2>4. p \in 3 .. n + 1 /\ line[p] = LineAt(text, p, line) /\ text[p - 1] = newLine
      BY <1>2, <2>3 DEF Starts
    <2>5. CASE p > n \/ text[p] = newLine
      <3>1. line[p] = Lines("kOk", p, NoHeaders)
        BY <2>4, <2>5 DEF LineAt, n
      <3> QED
        BY <2>3, <2>5, <3>1, LineOKAtEnd DEF n
    <2>6. CASE ~(p > n \/ text[p] = newLine)
      <3> DEFINE header == HeaderLine(text, p)
                 q == header.end + 1
      <3>1. p \in 1 .. n /\ p <= n
        BY <1>1, <2>4, <2>6
      <3>2. CASE header.ec # "kOk"
        <4>1. line[p] = Lines(header.ec, p, NoHeaders)
          BY <2>4, <2>6, <3>2 DEF LineAt, n
        <4> QED
          BY <2>3, <2>6, <3>1, <3>2, <4>1, LineOKAtError DEF n
      <3>3. CASE header.ec = "kOk"
        <4>1. /\ GoodLine(text, p, header.end)
              /\ header.value = SubSeq(text, p + 2, header.end - 1)
          BY <3>1, <3>3, HeaderLineFacts DEF n
        <4>2. line[p] = Lines(line[q].ec, line[q].end,
                              FirstWins(text[p], header.value, line[q].headers))
          BY <2>4, <2>6, <3>3 DEF LineAt, n
        <4>3. Starts(text, q) /\ q \in p + 4 .. n + 1
          BY <2>3, <4>1, NextLine DEF n
        <4>4. (n + 1) - q \in Nat /\ ~(m <= (n + 1) - q)
          BY <1>1, <2>3, <2>4, <4>3
        <4>5. LineOK(text, q, line[q])
          <5>1. (n + 1) - q \notin wrong
            <6> HIDE DEF wrong
            <6> QED
              BY <2>2, <4>4
          <5> HIDE DEF q
          <5> QED
            BY <4>3, <4>4, <5>1
        <4> QED
          BY <2>3, <4>1, <4>2, <4>5, LineOKGoesOn
      <3> QED
        BY <3>2, <3>3
    <2> QED
      BY <2>5, <2>6
  <1>4. LineOK(text, 3, line[3])
    <2>1. (n + 1) - 3 \in Nat
      BY <1>1
    <2>2. (n + 1) - 3 \notin wrong
      BY <1>3
    <2> QED
      BY <2>1, <2>2
  <1> QED
    BY <1>4, ParseHeadersIsLine DEF line

-----------------------------------------------------------------------------
(* Content lengths *)

\* The number StoI reads, by its recursive definition.
Numbers(m, value, g) ==
  [i \in 0 .. m |-> IF i = 0 THEN 0 ELSE 10 * g[i - 1] + Digits[value[i]]]
Number(m, value) == (CHOOSE g : g = Numbers(m, value, g))[m]
LEMMA NumberExists ==
  ASSUME NEW m \in Nat, NEW value
  PROVE  \E g : g = Numbers(m, value, g)
  <1> DEFINE bad == {k \in Nat : ~ \E g : g = Numbers(k, value, g)}
  <1>1. ASSUME bad # {} PROVE FALSE
    <2>1. bad \in SUBSET Nat
      OBVIOUS
    <2>2. PICK k \in bad : \A j \in bad : k <= j
      BY <1>1, <2>1, LeastOf
    <2>3. k \in Nat /\ ~ \E g : g = Numbers(k, value, g)
      OBVIOUS
    <2>4. k # 0
      <3> DEFINE g == [i \in 0 .. 0 |-> 0]
      <3>1. g = Numbers(0, value, g)
        BY DEF Numbers
      <3> QED
        BY <2>3, <3>1
    <2>5. k - 1 \in Nat /\ ~(k <= k - 1)
      BY <2>3, <2>4
    <2>6. k - 1 \notin bad
      <3> HIDE DEF bad
      <3> QED
        BY <2>2, <2>5
    <2>7. PICK g : g = Numbers(k - 1, value, g)
      BY <2>5, <2>6
    <2> DEFINE h == [i \in 0 .. k |-> IF i < k THEN g[i]
                                      ELSE 10 * g[k - 1] + Digits[value[k]]]
    <2>8. \A i \in 0 .. k - 1 :
            g[i] = IF i = 0 THEN 0 ELSE 10 * g[i - 1] + Digits[value[i]]
      BY <2>7 DEF Numbers
    <2>9. ASSUME NEW i \in 0 .. k
          PROVE  h[i] = IF i = 0 THEN 0 ELSE 10 * h[i - 1] + Digits[value[i]]
      <3>1. i # 0 => h[i - 1] = g[i - 1]
        BY <2>3
      <3>2. i < k => i \in 0 .. k - 1 /\ h[i] = g[i]
        BY <2>3
      <3>3. ~(i < k) => i = k /\ i # 0 /\ h[i] = 10 * g[k - 1] + Digits[value[k]]
        BY <2>3, <2>4
      <3> HIDE DEF h
      <3> QED
        BY <2>8, <3>1, <3>2, <3>3
    <2>10. h = Numbers(k, value, h)
      <3>1. h = [i \in 0 .. k |-> h[i]]
        OBVIOUS
      <3> HIDE DEF h
      <3> QED
        BY <2>9, <3>1 DEF Numbers
    <2> QED
      BY <2>3, <2>10
  <1> QED
    BY <1>1

LEMMA NumberIsNat ==
  ASSUME NEW m \in Nat, NEW value, \A i \in 1 .. m : value[i] \in DOMAIN Digits
  PROVE  Number(m, value) \in Nat
  <1> DEFINE g == CHOOSE g : g = Numbers(m, value, g)
             bad == {i \in 0 .. m : g[i] \notin Nat}
  <1>1. g = Numbers(m, value, g)
    BY NumberExists
  <1> HIDE DEF g
  <1>2. \A i \in 0 .. m : g[i] = IF i = 0 THEN 0 ELSE 10 * g[i - 1] + Digits[value[i]]
    BY <1>1 DEF Numbers
  <1>3. \A d \in DOMAIN Digits : Digits[d] \in Nat
    BY DEF Digits
  <1>4. ASSUME bad # {} PROVE FALSE
    <2>1. bad \in SUBSET Nat
      OBVIOUS
    <2>2. PICK k \in bad : \A j \in bad : k <= j
      BY <1>4, <2>1, LeastOf
    <2>3. k \in 0 .. m /\ g[k] \notin Nat
      OBVIOUS
    <2>4. k # 0
      BY <1>2, <2>3
    <2>5. k \in 1 .. m /\ k - 1 \in 0 .. m /\ ~(k <= k - 1)
      BY <2>3, <2>4
    <2>6. k - 1 \notin bad
      <3> HIDE DEF bad
      <3> QED
        BY <2>2, <2>5
    <2>7. g[k - 1] \in Nat /\ Digits[value[k]] \in Nat
      BY <1>3, <2>5, <2>6
    <2>8. g[k] = 10 * g[k - 1] + Digits[value[k]]
      BY <1>2, <2>3, <2>4
    <2> QED
      BY <2>3, <2>7, <2>8
  <1>5. m \in 0 .. m
    OBVIOUS
  <1>6. g[m] \in Nat
    BY <1>4, <1>5
  <1> QED
    BY <1>6 DEF Number, g

\* StoI reads a number or says that there is none; only digits that do not fit into
\* size_t are out of range.
LEMMA StoIFacts ==
  ASSUME NEW value \in Text
  PROVE  /\ StoI(value).number \in Nat
         /\ StoI(value).ec \in {"ok", "out_of_range", "invalid_argument"}
         /\ StoI(value) = [ec |-> StoI(value).ec, number |-> StoI(value).number]
         /\ StoI(value).ec = "out_of_range" =>
              \E i \in DOMAIN value : value[i] = Huge
  <1> DEFINE Ends(i) == /\ i <= Len(value) => ~(value[i] \in DOMAIN Digits)
                        /\ \A j \in 1 .. i - 1 : value[j] \in DOMAIN Digits
             stops == {i \in 1 .. Len(value) + 1 : i <= Len(value) => ~(value[i] \in DOMAIN Digits)}
             end == CHOOSE i \in 1 .. Len(value) + 1 : Ends(i)
  <1>1. Len(value) \in Nat /\ DOMAIN value = 1 .. Len(value)
    BY DEF Text
  <1>2. \E i \in 1 .. Len(value) + 1 : Ends(i)
    <2>1. Len(value) + 1 \in stops /\ stops \in SUBSET Nat
      BY <1>1
    <2>2. PICK i \in stops : \A j \in stops : i <= j
      BY <2>1, LeastOf
    <2>3. i \in 1 .. Len(value) + 1 /\ (i <= Len(value) => ~(value[i] \in DOMAIN Digits))
      OBVIOUS
    <2>4. ASSUME NEW j \in 1 .. i - 1 PROVE value[j] \in DOMAIN Digits
      <3>1. j \in 1 .. Len(value) + 1 /\ j <= Len(value) /\ ~(i <= j)
        BY <1>1, <2>3
      <3>2. j \notin stops
        <4> HIDE DEF stops
        <4> QED
          BY <2>2, <3>1
      <3> QED
        BY <3>1, <3>2
    <2> QED
      BY <2>3, <2>4
  <1>3. end \in 1 .. Len(value) + 1 /\ Ends(end)
    BY <1>2
  <1> DEFINE huge == end <= Len(value) /\ value[end] = Huge
  <1>4. StoI(value) = IF huge THEN [ec |-> "out_of_range", number |-> 0]
                      ELSE IF end > 1 THEN [ec |-> "ok", number |-> Number(end - 1, value)]
                      ELSE [ec |-> "invalid_argument", number |-> 0]
    BY DEF StoI, Number, Numbers
  <1> HIDE DEF end
  <1>5. Number(end - 1, value) \in Nat
    <2>1. end - 1 \in Nat
      BY <1>1, <1>3
    <2> QED
      BY <1>3, <2>1, NumberIsNat
  <1>6. huge => end \in DOMAIN value /\ value[end] = Huge
    BY <1>1, <1>3
  <1> HIDE DEF huge
  <1>7. CASE huge
    <2>1. StoI(value) = [ec |-> "out_of_range", number |-> 0]
      BY <1>4, <1>7
    <2> QED
      BY <1>6, <1>7, <2>1
  <1>8. CASE ~huge /\ end > 1
    <2>1. StoI(value) = [ec |-> "ok", number |-> Number(end - 1, value)]
      BY <1>4, <1>8
    <2> QED
      BY <1>5, <2>1
  <1>9. CASE ~huge /\ ~(end > 1)
    <2>1. StoI(value) = [ec |-> "invalid_argument", number |-> 0]
      BY <1>4, <1>9
    <2> QED
      BY <2>1
  <1> QED
    BY <1>7, <1>8, <1>9

-----------------------------------------------------------------------------
(* The whole frame *)

\* The values of the headers of a well-formed text are parts of it, and not empty.
LEMMA HeaderValues ==
  ASSUME NEW text \in Text, NEW b, Blank(text, 3, b), Good(text, 3, b),
         NEW h \in DOMAIN HeadersFrom(text, 3, b)
  PROVE  LET value == HeadersFrom(text, 3, b)[h]
         IN  /\ h \in StompHeaders
             /\ value \in Text /\ Len(value) > 0
             /\ \A k \in DOMAIN value : value[k] \in ToSet(text)
  <1> DEFINE n == Len(text)
             i == FirstFrom(text, h, 3, b)
             value == HeadersFrom(text, 3, b)[h]
  <1>1. n \in Nat /\ b \in 3 .. n /\ text[b] = newLine /\ DOMAIN text = 1 .. n
    BY DEF Blank, Text
  <1>2. h \in {text[k] : k \in StartsIn(text, 3, b)} /\ value = ValueAt(text, i)
    BY DEF HeadersFrom
  <1>3. i \in StartsIn(text, 3, b) /\ text[i] = h
    <2>1. 3 \in Nat /\ b \in Nat
      BY <1>1
    <2> QED
      BY <1>2, <2>1, FirstFromFacts
  <1> HIDE DEF i, value
  <1>4. i \in 3 .. b - 1 /\ text[i - 1] = newLine
    BY <1>3 DEF StartsIn
  <1>5. Starts(text, i) /\ i <= n /\ b \in i + 1 .. n /\ b \in i + 1 .. b /\ i \in 1 .. n
    BY <1>1, <1>4 DEF Starts
  <1>6. Good(text, i, b) /\ h \in StompHeaders
    <2>1. StartsIn(text, i, b) \subseteq StartsIn(text, 3, b)
      BY <1>1, <1>4 DEF StartsIn
    <2> QED
      BY <1>3, <2>1 DEF Good
  <1>7. text[i] # newLine
    BY <1>3, <1>6, Tokens
  <1>8. PICK v : GoodLine(text, i, v)
    BY <1>1, <1>5, <1>6, <1>7, GoodHasLine
  <1>9. value = SubStr(text, i + 2, v)
    BY <1>2, <1>5, <1>8, ValueAtIs DEF SubStr
  <1>10. v \in i + 3 .. n
    BY <1>8 DEF GoodLine
  <1>11. i + 2 \in 1 .. n + 1 /\ v \in i + 2 .. n + 1 /\ v - (i + 2) > 0
    BY <1>1, <1>5, <1>10
  <1>12. /\ value \in Text /\ Len(value) = v - (i + 2)
         /\ \A k \in 1 .. v - (i + 2) : value[k] = text[i + 2 + k - 1]
    BY <1>9, <1>11, SubStrFacts
  <1>13. ASSUME NEW k \in DOMAIN value PROVE value[k] \in ToSet(text)
    <2>1. k \in 1 .. v - (i + 2)
      BY <1>12 DEF Text
    <2>2. i + 2 + k - 1 \in 1 .. n
      BY <1>1, <1>5, <1>10, <2>1
    <2> QED
      BY <1>1, <1>12, <2>1, <2>2 DEF ToSet
  <1> QED
    BY <1>6, <1>11, <1>12, <1>13 DEF value

\* The grammar of Meaning, with the blank line at b and the NULL at e.
FrameAt(text, b, e) ==
  [command |-> text[1], headers |-> HeadersFrom(text, 3, b), body |-> SubSeq(text, b + 1, e - 1)]
EndsAt(text, b, e) == e \in b + 1 .. Len(text) /\ text[e] = null /\ OnlyNewLines(text, e)
Fits(f) ==
  IF "content-length" \in DOMAIN f.headers
  THEN StoI(f.headers["content-length"]) = [ec |-> "ok", number |-> Len(f.body)]
  ELSE null \notin ToSet(f.body)
LEMMA MeaningIs ==
  ASSUME NEW text \in Text, NEW f
  PROVE  f \in Meaning(text) <=>
           /\ GoodCommand(text)
           /\ \E b : /\ Blank(text, 3, b) /\ Good(text, 3, b)
                     /\ \E e : EndsAt(text, b, e) /\ f = FrameAt(text, b, e) /\ Fits(f)
  <1>1. Len(text) \in Nat /\ DOMAIN text = 1 .. Len(text)
    BY DEF Text
  <1>2. ASSUME NEW b
        PROVE  b \in DOMAIN text /\ IsBlank(text, b) <=> Blank(text, 3, b)
    BY <1>1 DEF IsBlank, Blank
  <1>3. \A b : GoodLines(text, b) <=> Good(text, 3, b)
    BY DEF GoodLines, Good, HeaderLines, StartsIn
  <1>4. \A b : HeadersOf(text, b) = HeadersFrom(text, 3, b)
    BY DEF HeadersOf, HeadersFrom, HeaderLines, StartsIn, FirstLineOf, FirstFrom
  <1> DEFINE blanks == {b \in DOMAIN text : /\ GoodCommand(text) /\ IsBlank(text, b)
                                            /\ GoodLines(text, b)}
             ends(b) == {e \in b + 1 .. Len(text) :
                           text[e] = null /\ \A i \in e + 1 .. Len(text) : text[i] = newLine}
             frame(b, e) == [command |-> text[1], headers |-> HeadersOf(text, b),
                             body |-> SubSeq(text, b + 1, e - 1)]
  <1>5. Meaning(text) = {g \in UNION {{frame(b, e) : e \in ends(b)} : b \in blanks} : Fits(g)}
    BY DEF Meaning, Fits
  <1>6. \A b : b \in blanks <=> GoodCommand(text) /\ Blank(text, 3, b) /\ Good(text, 3, b)
    BY <1>2, <1>3
  <1>7. \A b, e : e \in ends(b) <=> EndsAt(text, b, e)
    BY DEF EndsAt, OnlyNewLines
  <1>8. \A b, e : frame(b, e) = FrameAt(text, b, e)
    BY <1>4 DEF FrameAt
  <1> HIDE DEF blanks, ends, frame
  <1>9. f \in Meaning(text) <=> (\E b \in blanks : \E e \in ends(b) : f = frame(b, e)) /\ Fits(f)
    BY <1>5
  <1> QED
    BY <1>6, <1>7, <1>8, <1>9

\* There is one blank line, that of the first two new lines in a row.
LEMMA BlankOnce ==
  ASSUME NEW text \in Text, NEW b, Blank(text, 3, b), NEW c, Blank(text, 3, c)
  PROVE  b = c
  <1>1. b \in Int /\ c \in Int
    BY DEF Blank, Text
  <1>2. ~(b < c) /\ ~(c < b)
    BY <1>1 DEF Blank, Text
  <1> QED
    BY <1>1, <1>2

BodyErrors ==
  {"kParsingMissingNullInBody", "kParsingInvalidContentLength",
   "kParsingContentLengthExceedsFrameLength"}

\* Where the body ends: at a NULL, and after as many tokens as the header says if it says
\* so and the number fits.
LEMMA BodyEndFacts ==
  ASSUME NEW text \in Text, NEW b, Blank(text, 3, b), Good(text, 3, b)
  PROVE  LET headers == HeadersFrom(text, 3, b)
             body == BodyEnd(text, b + 1, headers)
             length == StoI(headers["content-length"])
         IN  /\ body.ec \in BodyErrors \cup {"kOk"}
             /\ body.ec = "kOk" =>
                  /\ body.end \in b + 1 .. Len(text) /\ text[body.end] = null
                  /\ IF "content-length" \in DOMAIN headers
                     THEN /\ length.ec \in {"ok", "out_of_range"}
                          /\ length.number = body.end - (b + 1)
                          /\ length.ec = "out_of_range" => OutOfRange(text)
                     ELSE \A j \in b + 1 .. body.end - 1 : text[j] # null
             /\ \A e : EndsAt(text, b, e) /\ Fits(FrameAt(text, b, e))
                         => body.ec = "kOk" /\ body.end = e
  <1> DEFINE n == Len(text)
             headers == HeadersFrom(text, 3, b)
             start == b + 1
             body == BodyEnd(text, start, headers)
             value == headers["content-length"]
             length == StoI(value)
  <1>1. n \in Nat /\ b \in 3 .. n /\ start \in 4 .. n + 1 /\ start \in Nat \ {0}
    BY DEF Blank, Text
  <1>2. ASSUME NEW e, EndsAt(text, b, e)
        PROVE  /\ e \in start .. n /\ text[e] = null
               /\ FrameAt(text, b, e).headers = headers
               /\ Len(FrameAt(text, b, e).body) = e - start
               /\ \A k \in 1 .. e - start : FrameAt(text, b, e).body[k] = text[start + k - 1]
               /\ FrameAt(text, b, e).body \in Text
    <2>1. e \in start .. n /\ text[e] = null
      BY <1>2 DEF EndsAt
    <2>2. start \in 1 .. n + 1 /\ e \in start .. n + 1
      BY <1>1, <2>1
    <2>3. FrameAt(text, b, e).headers = headers /\ FrameAt(text, b, e).body = SubStr(text, start, e)
      BY DEF FrameAt, SubStr
    <2> HIDE DEF start, headers, n
    <2> QED
      BY <2>1, <2>2, <2>3, SubStrFacts DEF n
  <1>3. CASE "content-length" \notin DOMAIN headers
    <2> DEFINE end == Find(text, null, start)
    <2>1. body = [ec |-> IF end = npos THEN "kParsingMissingNullInBody" ELSE "kOk", end |-> end]
      BY <1>3 DEF BodyEnd
    <2>2. \/ end = npos /\ \A j \in start .. n : text[j] # null
          \/ /\ end \in start .. n /\ text[end] = null
             /\ \A j \in start .. end - 1 : text[j] # null
      BY <1>1, FindFacts
    <2> HIDE DEF end, body, headers, start, n
    <2>3. body.ec \in BodyErrors \cup {"kOk"} /\ body.end = end /\ (body.ec = "kOk" <=> end # npos)
      BY <2>1 DEF BodyErrors
    <2>4. ASSUME NEW e, EndsAt(text, b, e), Fits(FrameAt(text, b, e))
          PROVE  end = e /\ end # npos
      <3> DEFINE f == FrameAt(text, b, e)
      <3>1. /\ e \in start .. n /\ text[e] = null /\ f.headers = headers
            /\ Len(f.body) = e - start /\ f.body \in Text
            /\ \A k \in 1 .. e - start : f.body[k] = text[start + k - 1]
        BY <1>2, <2>4
      <3>2. null \notin ToSet(f.body)
        BY <1>3, <2>4, <3>1 DEF Fits
      <3> HIDE DEF f
      <3>3. ASSUME NEW j \in start .. e - 1 PROVE text[j] # null
        <4>1. j - start + 1 \in 1 .. e - start /\ start + (j - start + 1) - 1 = j
          BY <1>1, <3>1
        <4>2. j - start + 1 \in DOMAIN f.body
          BY <3>1, <4>1 DEF Text
        <4>3. f.body[j - start + 1] = text[j]
          BY <3>1, <4>1
        <4> QED
          BY <3>2, <4>2, <4>3 DEF ToSet
      <3>4. end = e
        BY <1>1, <3>1, <3>3, FindIs DEF end, n
      <3> QED
        BY <1>1, <3>1, <3>4 DEF npos
    <2> QED
      BY <1>3, <2>2, <2>3, <2>4 DEF body, headers, start, n
  <1>4. CASE "content-length" \in DOMAIN headers
    <2>1. value \in Text /\ \A k \in DOMAIN value : value[k] \in ToSet(text)
      BY <1>4, HeaderValues
    <2>2. /\ length.number \in Nat /\ length.ec \in {"ok", "out_of_range", "invalid_argument"}
          /\ length.ec = "out_of_range" => OutOfRange(text)
      BY <2>1, StoIFacts DEF OutOfRange
    <2>3. body = IF length.ec = "invalid_argument"
                 THEN [ec |-> "kParsingInvalidContentLength", end |-> npos]
                 ELSE IF start + length.number > n + 1
                 THEN [ec |-> "kParsingContentLengthExceedsFrameLength", end |-> npos]
                 ELSE IF start + length.number = n + 1 \/ text[start + length.number] # null
                 THEN [ec |-> "kParsingMissingNullInBody", end |-> npos]
                 ELSE [ec |-> "kOk", end |-> start + length.number]
      BY <1>4 DEF BodyEnd
    <2>4. ASSUME NEW e, EndsAt(text, b, e), Fits(FrameAt(text, b, e))
          PROVE  length.ec = "ok" /\ length.number = e - start
      <3> DEFINE f == FrameAt(text, b, e)
      <3>1. f.headers = headers /\ Len(f.body) = e - start
        BY <1>2, <2>4
      <3>2. StoI(f.headers["content-length"]) = [ec |-> "ok", number |-> Len(f.body)]
        BY <1>4, <2>4, <3>1 DEF Fits
      <3> QED
        BY <3>1, <3>2
    <2> HIDE DEF body, length, start, n
    <2>5. body.ec \in BodyErrors \cup {"kOk"}
      BY <2>3 DEF BodyErrors
    <2>6. ASSUME body.ec = "kOk"
          PROVE  /\ body.end = start + length.number /\ length.ec # "invalid_argument"
                 /\ body.end \in start .. n /\ text[body.end] = null
                 /\ length.number = body.end - start
      <3>1. /\ body = [ec |-> "kOk", end |-> start + length.number]
            /\ length.ec # "invalid_argument" /\ ~(start + length.number > n + 1)
            /\ start + length.number # n + 1 /\ text[start + length.number] = null
        BY <2>3, <2>6
      <3>2. start + length.number \in start .. n
        BY <1>1, <2>2, <3>1
      <3> QED
        BY <1>1, <2>2, <3>1, <3>2
    <2>7. ASSUME NEW e, EndsAt(text, b, e), Fits(FrameAt(text, b, e))
          PROVE  body.ec = "kOk" /\ body.end = e
      <3>1. length.ec = "ok" /\ length.number = e - start /\ e \in start .. n /\ text[e] = null
        BY <1>2, <2>4, <2>7
      <3>2. start + length.number = e /\ ~(e > n + 1) /\ e # n + 1
        BY <1>1, <3>1
      <3> QED
        BY <2>3, <3>1, <3>2
    <2> QED
      BY <1>4, <2>2, <2>5, <2>6, <2>7 DEF body, length, start, n
  <1> QED
    BY <1>3, <1>4

\* The command: one token that is a command's name, and a new line.
LEMMA CommandFacts ==
  ASSUME NEW text \in Text
  PROVE  LET end == Find(text, newLine, 1)
         IN  /\ end # npos /\ SubStr(text, 1, end) \in {<<c>> : c \in Commands}
                  <=> GoodCommand(text)
             /\ GoodCommand(text) => end = 2 /\ Starts(text, 3) /\ text[1] \in Commands
  <1> DEFINE n == Len(text)
             end == Find(text, newLine, 1)
  <1>1. n \in Nat /\ 1 \in Nat \ {0}
    BY DEF Text
  <1>2. \/ end = npos
        \/ end \in 1 .. n /\ text[end] = newLine
    BY <1>1, FindFacts
  <1> HIDE DEF end
  <1>3. ASSUME end # npos, SubStr(text, 1, end) \in {<<c>> : c \in Commands}
        PROVE  GoodCommand(text)
    <2>1. 1 \in 1 .. n + 1 /\ end \in 1 .. n + 1
      BY <1>1, <1>2, <1>3
    <2>2. end = 1 + 1 /\ text[1] \in Commands
      BY <1>3, <2>1, SubStrIsOne
    <2> QED
      BY <1>1, <1>2, <1>3, <2>2 DEF GoodCommand
  <1>4. ASSUME GoodCommand(text)
        PROVE  /\ end = 2 /\ Starts(text, 3) /\ text[1] \in Commands /\ end # npos
               /\ SubStr(text, 1, end) \in {<<c>> : c \in Commands}
    <2>1. n > 1 /\ text[1] \in Commands /\ text[2] = newLine
      BY <1>4 DEF GoodCommand
    <2>2. 2 \in 1 .. n /\ \A j \in 1 .. 2 - 1 : text[j] # newLine
      BY <1>1, <2>1, Tokens
    <2>3. end = 2
      BY <1>1, <2>1, <2>2, FindIs DEF end
    <2>4. 1 \in 1 .. n + 1 /\ 2 \in 1 .. n + 1 /\ 2 = 1 + 1
      BY <1>1, <2>1
    <2>5. SubStr(text, 1, 2) \in {<<c>> : c \in Commands}
      BY <2>1, <2>4, SubStrIsOne
    <2>6. Starts(text, 3)
      BY <1>1, <2>1 DEF Starts
    <2> QED
      BY <2>1, <2>3, <2>5, <2>6 DEF npos
  <1> QED
    BY <1>3, <1>4 DEF end

FrameErrors ==
  {"kParsingMissingEolAfterCommand", "kParsingUnrecognizedCommand",
   "kParsingMissingBlankLineAfterHeaders", "kParsingJunkAfterBody"}
ParseErrors == LineErrors \cup BodyErrors \cup FrameErrors

\* A text the parser accepts: its blank line, the end of its body and what it holds.
Accepted(text, b, e, parsed) ==
  /\ GoodCommand(text) /\ Blank(text, 3, b) /\ Good(text, 3, b) /\ EndsAt(text, b, e)
  /\ parsed = Parsed("kOk", text[1], HeadersFrom(text, 3, b), SubStr(text, b + 1, e))
  /\ LET headers == HeadersFrom(text, 3, b)
         length == StoI(headers["content-length"])
     IN  IF "content-length" \in DOMAIN headers
         THEN /\ length.ec \in {"ok", "out_of_range"} /\ length.number = e - (b + 1)
              /\ length.ec = "out_of_range" => OutOfRange(text)
         ELSE \A j \in b + 1 .. e - 1 : text[j] # null

\* ParseFrame accepts a text, throws or fails with an error; what the grammar gives a
\* meaning is accepted.
LEMMA ParseFrameFacts ==
  ASSUME NEW text \in Text
  PROVE  LET parsed == ParseFrame(text)
         IN  /\ \/ parsed.ec = "kOk" /\ \E b, e : Accepted(text, b, e, parsed)
                \/ parsed.ec \in ParseErrors
             /\ parsed.ec = "throws" <=> GoodCommand(text) /\ EndsBehindColon(text, 3)
             /\ Meaning(text) # {} => parsed.ec = "kOk"
  <1> DEFINE n == Len(text)
             parsed == ParseFrame(text)
             commandEnd == Find(text, newLine, 1)
             lines == ParseHeaders(text, commandEnd + 1)
             body == BodyEnd(text, lines.end + 1, lines.headers)
             named == commandEnd # npos /\ SubStr(text, 1, commandEnd) \in {<<c>> : c \in Commands}
  <1>1. n \in Nat
    BY DEF Text
  <1>2. parsed = IF commandEnd = npos THEN Fails("kParsingMissingEolAfterCommand")
                 ELSE IF SubStr(text, 1, commandEnd) \notin {<<c>> : c \in Commands}
                 THEN Fails("kParsingUnrecognizedCommand")
                 ELSE IF lines.ec # "kOk" THEN Fails(lines.ec)
                 ELSE IF lines.end > n THEN Fails("kParsingMissingBlankLineAfterHeaders")
                 ELSE IF body.ec # "kOk" THEN Fails(body.ec)
                 ELSE IF ~OnlyNewLines(text, body.end) THEN Fails("kParsingJunkAfterBody")
                 ELSE Parsed("kOk", text[1], lines.headers, SubStr(text, lines.end + 1, body.end))
    BY DEF ParseFrame, ParseBody
  <1>3. \A ec : Fails(ec).ec = ec
    BY DEF Fails, Parsed
  <1>4. /\ named <=> GoodCommand(text)
        /\ GoodCommand(text) => commandEnd = 2 /\ Starts(text, 3) /\ text[1] \in Commands
    BY CommandFacts
  <1>5. ~GoodCommand(text) => Meaning(text) = {}
    BY MeaningIs
  <1> HIDE DEF n, parsed, commandEnd, lines, body
  <1>6. CASE ~GoodCommand(text)
    <2>1. parsed.ec \in {"kParsingMissingEolAfterCommand", "kParsingUnrecognizedCommand"}
      BY <1>2, <1>3, <1>4, <1>6
    <2> QED
      BY <1>5, <1>6, <2>1 DEF ParseErrors, FrameErrors, parsed
  <1>7. CASE GoodCommand(text)
    <2>1. named /\ commandEnd + 1 = 3 /\ Starts(text, 3) /\ text[1] \in Commands
      BY <1>4, <1>7
    <2>2. LineOK(text, 3, lines)
      BY <2>1, LoopFollowsGrammar DEF lines
    <2>3. parsed = IF lines.ec # "kOk" THEN Fails(lines.ec)
                   ELSE IF lines.end > n THEN Fails("kParsingMissingBlankLineAfterHeaders")
                   ELSE IF body.ec # "kOk" THEN Fails(body.ec)
                   ELSE IF ~OnlyNewLines(text, body.end) THEN Fails("kParsingJunkAfterBody")
                   ELSE Parsed("kOk", text[1], lines.headers,
                               SubStr(text, lines.end + 1, body.end))
      BY <1>2, <2>1
    <2>4. \A b : Blank(text, 3, b) /\ Good(text, 3, b) => lines.ec = "kOk" /\ lines.end = b
      BY <2>2 DEF LineOK
    <2>5. lines.ec = "throws" <=> EndsBehindColon(text, 3)
      BY <2>2 DEF LineOK
    <2>6. \A f \in Meaning(text) : \E b, e :
            /\ Blank(text, 3, b) /\ Good(text, 3, b) /\ EndsAt(text, b, e)
            /\ Fits(FrameAt(text, b, e))
      BY MeaningIs
    <2>7. CASE lines.ec # "kOk"
      <3>1. parsed.ec = lines.ec /\ lines.ec \in LineErrors
        BY <1>3, <2>2, <2>3, <2>7 DEF LineOK
      <3>2. Meaning(text) = {}
        BY <2>4, <2>6, <2>7
      <3> QED
        BY <1>7, <2>5, <2>7, <3>1, <3>2 DEF ParseErrors, parsed
    <2>8. CASE lines.ec = "kOk" /\ lines.end > n
      <3>1. parsed.ec = "kParsingMissingBlankLineAfterHeaders"
        BY <1>3, <2>3, <2>8
      <3>2. Meaning(text) = {}
        BY <1>1, <2>4, <2>6, <2>8 DEF Blank, n
      <3>3. ~EndsBehindColon(text, 3)
        BY <2>5, <2>8
      <3> QED
        BY <3>1, <3>2, <3>3 DEF ParseErrors, FrameErrors, parsed
    <2>9. CASE lines.ec = "kOk" /\ ~(lines.end > n)
      <3> DEFINE b == lines.end
                 headers == HeadersFrom(text, 3, b)
                 length == StoI(headers["content-length"])
      <3>1. b \in 3 .. n + 1 /\ b <= n
        BY <1>1, <2>2, <2>9 DEF LineOK, n
      <3>2. Blank(text, 3, b) /\ Good(text, 3, b) /\ lines.headers = headers
        BY <2>2, <2>9, <3>1 DEF LineOK, n
      <3>3. body = BodyEnd(text, b + 1, headers)
        BY <3>2 DEF body
      <3>4. /\ body.ec \in BodyErrors \cup {"kOk"}
            /\ body.ec = "kOk" =>
                 /\ body.end \in b + 1 .. n /\ text[body.end] = null
                 /\ IF "content-length" \in DOMAIN headers
                    THEN /\ length.ec \in {"ok", "out_of_range"}
                         /\ length.number = body.end - (b + 1)
                         /\ length.ec = "out_of_range" => OutOfRange(text)
                    ELSE \A j \in b + 1 .. body.end - 1 : text[j] # null
            /\ \A e : EndsAt(text, b, e) /\ Fits(FrameAt(text, b, e))
                         => body.ec = "kOk" /\ body.end = e
        BY <3>2, <3>3, BodyEndFacts DEF n
      <3>5. ASSUME Meaning(text) # {}
            PROVE  body.ec = "kOk" /\ OnlyNewLines(text, body.end)
        <4>1. PICK c, e : /\ Blank(text, 3, c) /\ EndsAt(text, c, e)
                          /\ Fits(FrameAt(text, c, e))
          BY <2>6, <3>5
        <4>2. c = b
          BY <3>2, <4>1, BlankOnce
        <4>3. body.ec = "kOk" /\ body.end = e
          BY <3>4, <4>1, <4>2
        <4> QED
          BY <4>1, <4>3 DEF EndsAt
      <3>6. ~EndsBehindColon(text, 3)
        BY <2>5, <2>9
      <3>7. CASE body.ec # "kOk"
        <4>1. parsed.ec = body.ec /\ body.ec \in BodyErrors
          BY <1>3, <2>3, <2>9, <3>4, <3>7
        <4>2. body.ec # "throws"
          BY <4>1 DEF BodyErrors
        <4> QED
          BY <3>5, <3>6, <3>7, <4>1, <4>2 DEF ParseErrors, parsed
      <3>8. CASE body.ec = "kOk" /\ ~OnlyNewLines(text, body.end)
        <4>1. parsed.ec = "kParsingJunkAfterBody"
          BY <1>3, <2>3, <2>9, <3>8
        <4> QED
          BY <3>5, <3>6, <3>8, <4>1 DEF ParseErrors, FrameErrors, parsed
      <3>9. CASE body.ec = "kOk" /\ OnlyNewLines(text, body.end)
        <4>1. parsed = Parsed("kOk", text[1], headers, SubStr(text, b + 1, body.end))
          BY <2>3, <2>9, <3>2, <3>9
        <4>2. parsed.ec = "kOk"
          BY <4>1 DEF Parsed
        <4>3. EndsAt(text, b, body.end)
          BY <3>4, <3>9 DEF EndsAt, n
        <4>4. Accepted(text, b, body.end, parsed)
          BY <1>7, <3>2, <3>4, <3>9, <4>1, <4>3 DEF Accepted
        <4> HIDE DEF b
        <4> QED
          BY <3>6, <4>2, <4>4 DEF parsed
      <3> QED
        BY <3>7, <3>8, <3>9
    <2> QED
      BY <2>7, <2>8, <2>9
  <1> QED
    BY <1>6, <1>7

\* A text the parser accepts means exactly what was parsed, unless a number is out of
\* range.
LEMMA AcceptedMeans ==
  ASSUME NEW text \in Text, NEW b, NEW e, NEW parsed, Accepted(text, b, e, parsed)
  PROVE  LET f == [command |-> parsed.command, headers |-> parsed.headers,
                   body |-> parsed.body]
         IN  /\ parsed.command \in Commands
             /\ DOMAIN parsed.headers \subseteq StompHeaders
             /\ \A h \in DOMAIN parsed.headers : Len(parsed.headers[h]) > 0
             /\ parsed.body \in Text
             /\ "content-length" \in DOMAIN parsed.headers =>
                  /\ StoI(parsed.headers["content-length"]).ec \in {"ok", "out_of_range"}
                  /\ StoI(parsed.headers["content-length"]).number = Len(parsed.body)
                  /\ StoI(parsed.headers["content-length"]).ec = "out_of_range"
                       => OutOfRange(text)
             /\ \A g \in Meaning(text) : g = f
             /\ ~OutOfRange(text) => Meaning(text) = {f}
  <1> DEFINE headers == HeadersFrom(text, 3, b)
             length == StoI(headers["content-length"])
             n == Len(text)
             f == FrameAt(text, b, e)
  <1>1. /\ GoodCommand(text) /\ Blank(text, 3, b) /\ Good(text, 3, b) /\ EndsAt(text, b, e)
        /\ IF "content-length" \in DOMAIN headers
           THEN /\ length.ec \in {"ok", "out_of_range"} /\ length.number = e - (b + 1)
                /\ length.ec = "out_of_range" => OutOfRange(text)
           ELSE \A j \in b + 1 .. e - 1 : text[j] # null
    BY DEF Accepted
  <1>2. /\ parsed.command = text[1] /\ parsed.headers = headers
        /\ parsed.body = SubStr(text, b + 1, e)
    BY DEF Accepted, Parsed
  <1>3. n \in Nat /\ b \in 3 .. n /\ e \in b + 1 .. n
    BY <1>1 DEF Blank, EndsAt, Text
  <1>4. b + 1 \in 1 .. n + 1 /\ e \in b + 1 .. n + 1
    BY <1>3
  <1>5. /\ parsed.body \in Text /\ Len(parsed.body) = e - (b + 1)
        /\ \A k \in 1 .. e - (b + 1) : parsed.body[k] = text[b + 1 + k - 1]
    BY <1>2, <1>4, SubStrFacts
  <1>6. text[1] \in Commands
    BY <1>1, CommandFacts
  <1>7. /\ DOMAIN headers \subseteq StompHeaders
        /\ \A h \in DOMAIN headers : headers[h] \in Text /\ Len(headers[h]) > 0
    BY <1>1, HeaderValues
  <1>8. f = [command |-> parsed.command, headers |-> parsed.headers, body |-> parsed.body]
    BY <1>2 DEF FrameAt, SubStr
  <1> HIDE DEF headers, f
  <1>9. ASSUME NEW g \in Meaning(text) PROVE g = f
    <2>1. PICK c, d : /\ Blank(text, 3, c) /\ EndsAt(text, c, d)
                      /\ g = FrameAt(text, c, d) /\ Fits(g)
      BY MeaningIs
    <2>2. c = b
      BY <1>1, <2>1, BlankOnce
    <2>3. EndsAt(text, b, d) /\ Fits(FrameAt(text, b, d)) /\ g = FrameAt(text, b, d)
      BY <2>1, <2>2
    <2>4. d = e
      <3>1. d \in b + 1 .. n /\ text[d] = null /\ text[e] = null
        BY <1>1, <2>3 DEF EndsAt
      <3>2. /\ \A i \in e + 1 .. n : text[i] = newLine
            /\ \A i \in d + 1 .. n : text[i] = newLine
        BY <1>1, <2>3 DEF EndsAt, OnlyNewLines
      <3>3. ~(d < e) /\ ~(e < d)
        BY <1>3, <3>1, <3>2, Tokens
      <3> QED
        BY <1>3, <3>1, <3>3
    <2> QED
      BY <2>3, <2>4 DEF f
  <1>10. ASSUME ~OutOfRange(text) PROVE f \in Meaning(text)
    <2>1. Fits(f)
      <3>1. f.headers = headers /\ f.body = parsed.body
        BY <1>2, <1>8
      <3>2. CASE "content-length" \in DOMAIN headers
        <4>1. headers["content-length"] \in Text
          BY <1>7, <3>2
        <4>2. length = [ec |-> length.ec, number |-> length.number]
          BY <4>1, StoIFacts
        <4>3. length.ec = "ok" /\ length.number = Len(parsed.body)
          BY <1>1, <1>5, <1>10, <3>2
        <4> QED
          BY <3>1, <3>2, <4>2, <4>3 DEF Fits
      <3>3. CASE "content-length" \notin DOMAIN headers
        <4>1. ASSUME NEW k \in DOMAIN parsed.body PROVE parsed.body[k] # null
          <5>1. k \in 1 .. e - (b + 1)
            BY <1>5 DEF Text
          <5>2. b + 1 + k - 1 \in b + 1 .. e - 1
            BY <1>3, <5>1
          <5> QED
            BY <1>1, <1>5, <3>3, <5>1, <5>2
        <4> QED
          BY <3>1, <3>3, <4>1 DEF Fits, ToSet
      <3> QED
        BY <3>2, <3>3
    <2> QED
      BY <1>1, <2>1, MeaningIs DEF f
  <1> QED
    BY <1>1, <1>2, <1>5, <1>6, <1>7, <1>8, <1>9, <1>10

-----------------------------------------------------------------------------
(* Components as text *)

\* The header lines that the constructor prints, by their recursive definition.
Printed(headers, order, g) ==
  [i \in 0 .. Len(order) |->
     IF i = 0 THEN <<>> ELSE g[i - 1] \o Header(order[i], headers[order[i]])]
PrintedUpTo(headers, order) == CHOOSE g : g = Printed(headers, order, g)
LEMMA PrintedExists ==
  ASSUME NEW headers, NEW order, Len(order) \in Nat
  PROVE  \E g : g = Printed(headers, order, g)
  <1> DEFINE n == Len(order)
             line(i) == Header(order[i], headers[order[i]])
             Step(k, g) == [i \in 0 .. k |-> IF i = 0 THEN <<>> ELSE g[i - 1] \o line(i)]
             bad == {k \in Nat : ~ \E g : g = Step(k, g)}
  <1> HIDE DEF line
  <1>1. ASSUME bad # {} PROVE FALSE
    <2>1. bad \in SUBSET Nat
      OBVIOUS
    <2>2. PICK k \in bad : \A j \in bad : k <= j
      BY <1>1, <2>1, LeastOf
    <2>3. k \in Nat /\ ~ \E g : g = Step(k, g)
      OBVIOUS
    <2>4. k # 0
      <3> DEFINE g == [i \in 0 .. 0 |-> <<>>]
      <3>1. g = Step(0, g)
        OBVIOUS
      <3> QED
        BY <2>3, <3>1
    <2>5. k - 1 \in Nat /\ ~(k <= k - 1)
      BY <2>3, <2>4
    <2>6. k - 1 \notin bad
      <3> HIDE DEF bad
      <3> QED
        BY <2>2, <2>5
    <2>7. PICK g : g = Step(k - 1, g)
      BY <2>5, <2>6
    <2> DEFINE h == [i \in 0 .. k |-> IF i < k THEN g[i] ELSE g[k - 1] \o line(k)]
    <2>8. \A i \in 0 .. k - 1 : g[i] = IF i = 0 THEN <<>> ELSE g[i - 1] \o line(i)
      BY <2>7
    <2>9. ASSUME NEW i \in 0 .. k
          PROVE  h[i] = IF i = 0 THEN <<>> ELSE h[i - 1] \o line(i)
      <3>1. i # 0 => h[i - 1] = g[i - 1]
        BY <2>3
      <3>2. i < k => i \in 0 .. k - 1 /\ h[i] = g[i]
        BY <2>3
      <3>3. ~(i < k) => i = k /\ i # 0 /\ h[i] = g[k - 1] \o line(k)
        BY <2>3, <2>4
      <3> HIDE DEF h
      <3> QED
        BY <2>8, <3>1, <3>2, <3>3
    <2>10. h = Step(k, h)
      <3>1. h = [i \in 0 .. k |-> h[i]]
        OBVIOUS
      <3> HIDE DEF h
      <3> QED
        BY <2>9, <3>1
    <2> QED
      BY <2>3, <2>10
  <1>2. \E g : g = Step(n, g)
    BY <1>1
  <1> QED
    BY <1>2 DEF Printed, line

\* Two texts joined.
LEMMA Joined ==
  ASSUME NEW S, NEW s \in Seq(S), NEW t \in Seq(S)
  PROVE  /\ s \o t \in Seq(S) /\ Len(s \o t) = Len(s) + Len(t)
         /\ \A i \in 1 .. Len(s) + Len(t) :
              (s \o t)[i] = IF i <= Len(s) THEN s[i] ELSE t[i - Len(s)]
  OBVIOUS

\* A header line as text, and a line added to a text.
LEMMA HeaderIsText ==
  ASSUME NEW h \in Token, NEW value \in Text
  PROVE  /\ Header(h, value) \in Text /\ Len(Header(h, value)) = Len(value) + 3
         /\ Header(h, value)[1] = h /\ Header(h, value)[2] = colon
         /\ \A k \in 1 .. Len(value) : Header(h, value)[k + 2] = value[k]
         /\ Header(h, value)[Len(value) + 3] = newLine
  <1> DEFINE pre == <<h, colon>>
             mid == pre \o value
             all == mid \o <<newLine>>
  <1>1. colon \in Token /\ newLine \in Token /\ Len(value) \in Nat
    BY DEF Token, Text
  <1>2. pre \in Seq(Token) /\ Len(pre) = 2 /\ pre[1] = h /\ pre[2] = colon
    BY <1>1
  <1> HIDE DEF pre
  <1>3. /\ mid \in Seq(Token) /\ Len(mid) = 2 + Len(value)
        /\ \A i \in 1 .. Len(mid) : mid[i] = IF i <= 2 THEN pre[i] ELSE value[i - 2]
    <2>1. value \in Seq(Token)
      BY DEF Text
    <2>2. pre \in Seq(Token)
      BY <1>2
    <2>3. /\ mid \in Seq(Token) /\ Len(mid) = Len(pre) + Len(value)
          /\ \A i \in 1 .. Len(pre) + Len(value) :
               mid[i] = IF i <= Len(pre) THEN pre[i] ELSE value[i - Len(pre)]
      BY ONLY <2>1, <2>2, Joined, Zenon DEF mid
    <2> HIDE DEF mid
    <2> QED
      BY <1>2, <2>3
  <1> HIDE DEF mid
  <1>4. <<newLine>> \in Seq(Token) /\ Len(<<newLine>>) = 1 /\ <<newLine>>[1] = newLine
    BY <1>1
  <1>5. /\ all \in Seq(Token) /\ Len(all) = Len(mid) + 1
        /\ \A i \in 1 .. Len(all) : all[i] = IF i <= Len(mid) THEN mid[i]
                                             ELSE <<newLine>>[i - Len(mid)]
    BY <1>3, <1>4
  <1>6. Header(h, value) = all
    BY DEF Header, all, mid, pre
  <1> HIDE DEF all
  <1>7. Len(all) = Len(value) + 3 /\ Len(mid) = Len(value) + 2
    BY <1>1, <1>3, <1>5
  <1>8. all[1] = h /\ all[2] = colon /\ \A k \in 1 .. Len(value) : all[k + 2] = value[k]
    <2>1. \A i \in 1 .. Len(value) + 2 : all[i] = IF i <= 2 THEN pre[i] ELSE value[i - 2]
      BY <1>1, <1>3, <1>5, <1>7
    <2>2. \A k \in 1 .. Len(value) : k + 2 \in 1 .. Len(value) + 2 /\ ~(k + 2 <= 2)
                                      /\ (k + 2) - 2 = k
      BY <1>1
    <2>3. 1 \in 1 .. Len(value) + 2 /\ 2 \in 1 .. Len(value) + 2
      BY <1>1
    <2> QED
      BY <1>2, <2>1, <2>2, <2>3
  <1>9. all[Len(value) + 3] = newLine
    <2>1. Len(value) + 3 \in 1 .. Len(all) /\ ~(Len(value) + 3 <= Len(mid))
          /\ (Len(value) + 3) - Len(mid) = 1
      BY <1>1, <1>7
    <2> QED
      BY <1>4, <1>5, <2>1
  <1> QED
    BY <1>5, <1>6, <1>7, <1>8, <1>9 DEF Text

\* Components that the program's types allow, with their headers in some order.
Ordered(parts, order) ==
  /\ parts.command \in Token /\ parts.body \in Text
  /\ parts.headers \in [DOMAIN parts.headers -> Text] /\ DOMAIN parts.headers \subseteq Token
  /\ order \in Seq(DOMAIN parts.headers)

\* The text of the first i header lines.
LEMMA PrintedFacts ==
  ASSUME NEW parts, NEW order, Ordered(parts, order)
  PROVE  LET g == PrintedUpTo(parts.headers, order)
         IN  /\ HeaderText(parts.headers, order) = g[Len(order)] /\ Len(order) \in Nat
             /\ \A i \in 0 .. Len(order) : g[i] \in Text
             /\ g[0] = <<>>
             /\ \A i \in 1 .. Len(order) :
                  /\ order[i] \in DOMAIN parts.headers
                  /\ Header(order[i], parts.headers[order[i]]) \in Text
                  /\ g[i] = g[i - 1] \o Header(order[i], parts.headers[order[i]])
  <1> DEFINE n == Len(order)
             g == PrintedUpTo(parts.headers, order)
             line(i) == Header(order[i], parts.headers[order[i]])
             bad == {i \in 0 .. n : g[i] \notin Text}
  <1>1. n \in Nat /\ \A i \in 1 .. n : order[i] \in DOMAIN parts.headers
    BY DEF Ordered
  <1>2. g = Printed(parts.headers, order, g)
    BY <1>1, PrintedExists DEF PrintedUpTo
  <1>3. HeaderText(parts.headers, order) = g[n]
    BY DEF HeaderText, PrintedUpTo, Printed
  <1>4. ASSUME NEW i \in 1 .. n PROVE line(i) \in Text
    <2>1. order[i] \in Token /\ parts.headers[order[i]] \in Text
      BY <1>1 DEF Ordered
    <2> QED
      BY <2>1, HeaderIsText
  <1> HIDE DEF g
  <1>5. \A i \in 0 .. n : g[i] = IF i = 0 THEN <<>> ELSE g[i - 1] \o line(i)
    BY <1>2 DEF Printed
  <1> HIDE DEF line
  <1>6. g[0] = <<>> /\ <<>> \in Text
    BY <1>1, <1>5 DEF Text
  <1>7. ASSUME bad # {} PROVE FALSE
    <2>1. bad \in SUBSET Nat
      OBVIOUS
    <2>2. PICK k \in bad : \A j \in bad : k <= j
      BY <1>7, <2>1, LeastOf
    <2>3. k \in 0 .. n /\ g[k] \notin Text
      OBVIOUS
    <2>4. k \in 1 .. n /\ k - 1 \in 0 .. n /\ ~(k <= k - 1) /\ k # 0
      BY <1>1, <1>6, <2>3
    <2>5. k - 1 \notin bad
      <3> HIDE DEF bad
      <3> QED
        BY <2>2, <2>4
    <2>6. g[k - 1] \in Text /\ line(k) \in Text
      BY <1>4, <2>4, <2>5
    <2>7. g[k - 1] \o line(k) \in Text
      BY <2>6 DEF Text
    <2> QED
      BY <1>5, <2>3, <2>4, <2>7
  <1>8. ASSUME NEW i \in 1 .. n PROVE g[i] = g[i - 1] \o line(i)
    <2>1. i \in 0 .. n /\ i # 0
      BY <1>1
    <2> QED
      BY <1>5, <2>1
  <1> QED
    BY <1>1, <1>3, <1>4, <1>6, <1>7, <1>8 DEF line, g

\* What the constructor from components parses is a text.
LEMMA PlainTextIsText ==
  ASSUME NEW parts, NEW order, Ordered(parts, order)
  PROVE  PlainText(parts, order) \in Text
  <1> DEFINE n == Len(order)
             g == PrintedUpTo(parts.headers, order)
  <1>1. HeaderText(parts.headers, order) = g[n] /\ g[n] \in Text
    <2>1. n \in Nat
      BY PrintedFacts
    <2>2. n \in 0 .. n
      BY <2>1
    <2> QED
      BY <2>2, PrintedFacts
  <1>2. /\ <<parts.command, newLine>> \in Seq(Token) /\ <<newLine>> \in Seq(Token)
        /\ <<null>> \in Seq(Token) /\ parts.body \in Seq(Token)
    <2>1. newLine \in Token /\ null \in Token
      BY DEF Token
    <2> QED
      BY <2>1 DEF Ordered, Text
  <1> HIDE DEF g
  <1>3. <<parts.command, newLine>> \o HeaderText(parts.headers, order) \in Seq(Token)
    BY <1>1, <1>2 DEF Text
  <1>4. (<<parts.command, newLine>> \o HeaderText(parts.headers, order)) \o <<newLine>>
          \in Seq(Token)
    BY <1>2, <1>3
  <1>5. ((<<parts.command, newLine>> \o HeaderText(parts.headers, order)) \o <<newLine>>)
          \o parts.body \in Seq(Token)
    BY <1>2, <1>4
  <1> QED
    BY <1>2, <1>5 DEF PlainText, Text

\* The text of fewer lines is a prefix of the text of more.
LEMMA PrintedPrefix ==
  ASSUME NEW parts, NEW order, Ordered(parts, order)
  PROVE  LET g == PrintedUpTo(parts.headers, order)
         IN  \A m \in 0 .. Len(order) : \A i \in 0 .. m :
               Len(g[i]) <= Len(g[m]) /\ \A k \in 1 .. Len(g[i]) : g[m][k] = g[i][k]
  <1> DEFINE n == Len(order)
             g == PrintedUpTo(parts.headers, order)
             line(i) == Header(order[i], parts.headers[order[i]])
             Prefix(i, m) == Len(g[i]) <= Len(g[m]) /\ \A k \in 1 .. Len(g[i]) : g[m][k] = g[i][k]
             bad == {m \in 0 .. n : \E i \in 0 .. m : ~Prefix(i, m)}
  <1>1. /\ n \in Nat /\ \A i \in 0 .. n : g[i] \in Text
        /\ \A i \in 1 .. n : line(i) \in Text /\ g[i] = g[i - 1] \o line(i)
    BY PrintedFacts
  <1> HIDE DEF g, line, n
  <1>2. \A i \in 0 .. n : Len(g[i]) \in Nat
    BY <1>1 DEF Text
  <1>3. \A i \in 0 .. n : Prefix(i, i)
    BY <1>2
  <1>4. ASSUME bad # {} PROVE FALSE
    <2>1. bad \in SUBSET Nat
      OBVIOUS
    <2>2. PICK m \in bad : \A j \in bad : m <= j
      BY <1>4, <2>1, LeastOf
    <2>3. PICK i \in 0 .. m : ~Prefix(i, m)
      BY <2>2
    <2>4. m \in 0 .. n
      BY <2>2
    <2>5. i # m
      BY <1>3, <2>3, <2>4
    <2>6. m \in 1 .. n /\ m - 1 \in 0 .. n /\ ~(m <= m - 1) /\ i \in 0 .. m - 1 /\ i \in 0 .. n
      BY <1>1, <2>3, <2>4, <2>5
    <2>7. m - 1 \notin bad
      <3> HIDE DEF bad
      <3> QED
        BY <2>2, <2>6
    <2>8. Prefix(i, m - 1)
      BY <2>6, <2>7
    <2> DEFINE s == g[m - 1]
               t == line(m)
    <2>9. s \in Seq(Token) /\ t \in Seq(Token) /\ g[m] = s \o t
      BY <1>1, <2>6 DEF Text
    <2>10. Len(s) \in Nat /\ Len(t) \in Nat /\ Len(g[i]) \in Nat
      BY <1>2, <2>6, <2>9
    <2>11. /\ Len(g[m]) = Len(s) + Len(t)
           /\ \A k \in 1 .. Len(s) + Len(t) :
                g[m][k] = IF k <= Len(s) THEN s[k] ELSE t[k - Len(s)]
      BY <2>9, Joined
    <2>12. Len(g[i]) <= Len(s) /\ \A k \in 1 .. Len(g[i]) : s[k] = g[i][k]
      BY <2>8
    <2> HIDE DEF s, t
    <2>13. \A k \in 1 .. Len(g[i]) : k \in 1 .. Len(s) + Len(t) /\ k <= Len(s)
      BY <2>10, <2>12
    <2>14. \A k \in 1 .. Len(g[i]) : g[m][k] = g[i][k]
      BY <2>11, <2>12, <2>13
    <2>15. Len(g[i]) <= Len(g[m])
      BY <2>10, <2>11, <2>12
    <2> QED
      BY <2>3, <2>14, <2>15
  <1> QED
    BY <1>4 DEF g, n

\* The printed text, by position.
Layout(text, command, head, body) ==
  LET n == Len(head)
      m == Len(body)
  IN  /\ n \in Nat /\ m \in Nat /\ Len(text) = n + m + 4
      /\ text[1] = command /\ text[2] = newLine
      /\ \A k \in 1 .. n : text[k + 2] = head[k]
      /\ text[n + 3] = newLine
      /\ \A k \in 1 .. m : text[n + 3 + k] = body[k]
      /\ text[n + m + 4] = null
LEMMA PlainTextAt ==
  ASSUME NEW parts, NEW order, Ordered(parts, order)
  PROVE  Layout(PlainText(parts, order), parts.command,
                PrintedUpTo(parts.headers, order)[Len(order)], parts.body)
  <1> DEFINE head == PrintedUpTo(parts.headers, order)[Len(order)]
             body == parts.body
             n == Len(head)
             m == Len(body)
             a == <<parts.command, newLine>>
             b == a \o head
             c == b \o <<newLine>>
             d == c \o body
             text == d \o <<null>>
  <1>1. HeaderText(parts.headers, order) = head /\ head \in Seq(Token)
    <2>1. Len(order) \in 0 .. Len(order)
      BY PrintedFacts
    <2> QED
      BY <2>1, PrintedFacts DEF Text
  <1>2. PlainText(parts, order) = text
    BY <1>1 DEF PlainText
  <1>3. /\ a \in Seq(Token) /\ Len(a) = 2 /\ a[1] = parts.command /\ a[2] = newLine
        /\ <<newLine>> \in Seq(Token) /\ Len(<<newLine>>) = 1 /\ <<newLine>>[1] = newLine
        /\ <<null>> \in Seq(Token) /\ Len(<<null>>) = 1 /\ <<null>>[1] = null
        /\ body \in Seq(Token)
    <2>1. newLine \in Token /\ null \in Token /\ parts.command \in Token /\ body \in Seq(Token)
      BY DEF Token, Ordered, Text
    <2> QED
      BY <2>1
  <1> DEFINE nl == <<newLine>>
             zero == <<null>>
  <1> HIDE DEF a, head, body, nl, zero
  <1>4. n \in Nat /\ m \in Nat
    BY <1>1, <1>3
  <1>5. /\ b \in Seq(Token) /\ Len(b) = Len(a) + n
        /\ \A i \in 1 .. Len(a) + n : b[i] = IF i <= Len(a) THEN a[i] ELSE head[i - Len(a)]
    BY ONLY <1>1, <1>3, Joined
  <1> HIDE DEF b
  <1>6. /\ c \in Seq(Token) /\ Len(c) = Len(b) + Len(nl)
        /\ \A i \in 1 .. Len(b) + Len(nl) : c[i] = IF i <= Len(b) THEN b[i] ELSE nl[i - Len(b)]
    BY ONLY <1>3, <1>5, Joined DEF nl
  <1> HIDE DEF c
  <1>7. /\ d \in Seq(Token) /\ Len(d) = Len(c) + m
        /\ \A i \in 1 .. Len(c) + m : d[i] = IF i <= Len(c) THEN c[i] ELSE body[i - Len(c)]
    BY ONLY <1>3, <1>6, Joined
  <1> HIDE DEF d
  <1>8. /\ Len(text) = Len(d) + Len(zero)
        /\ \A i \in 1 .. Len(d) + Len(zero) : text[i] = IF i <= Len(d) THEN d[i] ELSE zero[i - Len(d)]
    BY ONLY <1>3, <1>7, Joined DEF zero
  <1> HIDE DEF text
  <1>9. Len(b) = n + 2 /\ Len(c) = n + 3 /\ Len(d) = n + m + 3 /\ Len(text) = n + m + 4
    BY <1>3, <1>4, <1>5, <1>6, <1>7, <1>8 DEF nl, zero
  <1>10. /\ \A i \in 1 .. n + 2 : b[i] = IF i <= 2 THEN a[i] ELSE head[i - 2]
         /\ \A i \in 1 .. n + 3 : c[i] = IF i <= n + 2 THEN b[i] ELSE nl[i - (n + 2)]
         /\ \A i \in 1 .. n + m + 3 : d[i] = IF i <= n + 3 THEN c[i] ELSE body[i - (n + 3)]
         /\ \A i \in 1 .. n + m + 4 : text[i] = IF i <= n + m + 3 THEN d[i]
                                                ELSE zero[i - (n + m + 3)]
    <2>1. Len(a) = 2 /\ Len(nl) = 1 /\ Len(zero) = 1
      BY <1>3 DEF nl, zero
    <2> HIDE DEF n, m
    <2>2. (n + 2) + 1 = n + 3 /\ (n + 3) + m = n + m + 3 /\ (n + m + 3) + 1 = n + m + 4
          /\ 2 + n = n + 2
      BY <1>4
    <2> QED
      BY <1>5, <1>6, <1>7, <1>8, <1>9, <2>1, <2>2 DEF n, m
  <1> HIDE DEF n, m
  <1>11. ASSUME NEW i \in 1 .. n + 2 PROVE text[i] = b[i]
    <2>1. i \in 1 .. n + 3 /\ i \in 1 .. n + m + 3 /\ i \in 1 .. n + m + 4
          /\ i <= n + 2 /\ i <= n + 3 /\ i <= n + m + 3
      BY <1>4
    <2> QED
      BY <1>10, <2>1
  <1>12. text[1] = parts.command /\ text[2] = newLine
    <2>1. 1 \in 1 .. n + 2 /\ 2 \in 1 .. n + 2
      BY <1>4
    <2> QED
      BY <1>3, <1>10, <1>11, <2>1
  <1>13. ASSUME NEW k \in 1 .. n PROVE text[k + 2] = head[k]
    <2>1. k + 2 \in 1 .. n + 2 /\ ~(k + 2 <= 2) /\ (k + 2) - 2 = k
      BY <1>4
    <2> QED
      BY <1>10, <1>11, <2>1
  <1>14. text[n + 3] = newLine
    <2>1. n + 3 \in 1 .. n + 3 /\ n + 3 \in 1 .. n + m + 3 /\ n + 3 \in 1 .. n + m + 4
          /\ ~(n + 3 <= n + 2) /\ n + 3 <= n + m + 3 /\ (n + 3) - (n + 2) = 1
      BY <1>4
    <2>2. text[n + 3] = d[n + 3] /\ d[n + 3] = c[n + 3] /\ c[n + 3] = nl[1]
      BY <1>10, <2>1
    <2> QED
      BY <1>3, <2>2 DEF nl
  <1>15. ASSUME NEW k \in 1 .. m PROVE text[n + 3 + k] = body[k]
    <2>1. n + 3 + k \in 1 .. n + m + 3 /\ n + 3 + k \in 1 .. n + m + 4
          /\ ~(n + 3 + k <= n + 3) /\ n + 3 + k <= n + m + 3 /\ (n + 3 + k) - (n + 3) = k
      BY <1>4
    <2> QED
      BY <1>10, <2>1
  <1>16. text[n + m + 4] = null
    <2>1. n + m + 4 \in 1 .. n + m + 4 /\ ~(n + m + 4 <= n + m + 3)
          /\ (n + m + 4) - (n + m + 3) = 1
      BY <1>4
    <2>2. text[n + m + 4] = zero[1]
      BY <1>10, <2>1
    <2> QED
      BY <1>3, <2>2 DEF zero
  <1> QED
    BY <1>2, <1>4, <1>9, <1>12, <1>13, <1>14, <1>15, <1>16 DEF Layout, n, m, head, body

-----------------------------------------------------------------------------
(* Components come back from their text *)

\* Components whose names exist and whose values fit on a line.
Printable(parts) ==
  /\ parts.command \in Commands /\ DOMAIN parts.headers \subseteq StompHeaders
  /\ \A h \in DOMAIN parts.headers :
       parts.headers[h] # <<>> /\ newLine \notin ToSet(parts.headers[h])

\* Where the line behind the first i header lines starts.
LineStart(parts, order, i) == 3 + Len(PrintedUpTo(parts.headers, order)[i])

\* Each header is printed as a good line that holds its value.
LEMMA PrintedLine ==
  ASSUME NEW parts, NEW order, Ordered(parts, order), Printable(parts),
         NEW i \in 1 .. Len(order)
  PROVE  LET text == PlainText(parts, order)
             p == LineStart(parts, order, i - 1)
             v == LineStart(parts, order, i) - 1
         IN  /\ GoodLine(text, p, v) /\ text[p] = order[i]
             /\ SubSeq(text, p + 2, v - 1) = parts.headers[order[i]]
  <1> DEFINE text == PlainText(parts, order)
             g == PrintedUpTo(parts.headers, order)
             m == Len(order)
             head == g[m]
             value == parts.headers[order[i]]
             line == Header(order[i], value)
             p == LineStart(parts, order, i - 1)
             v == LineStart(parts, order, i) - 1
             s == Len(g[i - 1])
             l == Len(value)
             n == Len(head)
  <1>1. m \in Nat /\ i \in 0 .. m /\ i - 1 \in 0 .. m /\ m \in 0 .. m
    BY PrintedFacts
  <1>2. /\ order[i] \in DOMAIN parts.headers /\ line \in Text /\ g[i] = g[i - 1] \o line
        /\ g[i - 1] \in Text /\ g[i] \in Text
    BY <1>1, PrintedFacts
  <1>3. order[i] \in Token /\ value \in Text /\ order[i] \in StompHeaders
    BY <1>2 DEF Ordered, Printable
  <1>4. /\ Len(line) = l + 3 /\ line[1] = order[i] /\ line[2] = colon
        /\ \A k \in 1 .. l : line[k + 2] = value[k]
        /\ line[l + 3] = newLine
    BY <1>3, HeaderIsText
  <1>5. l \in Nat /\ s \in Nat /\ DOMAIN value = 1 .. l /\ l # 0 /\ Len(g[i]) \in Nat
    <2>1. l \in Nat /\ s \in Nat /\ DOMAIN value = 1 .. l /\ Len(g[i]) \in Nat
      <3>1. value \in Seq(Token) /\ g[i - 1] \in Seq(Token) /\ g[i] \in Seq(Token)
        BY <1>2, <1>3 DEF Text
      <3> HIDE DEF value, g
      <3> QED
        BY <3>1
    <2>2. value # <<>>
      BY <1>2 DEF Printable
    <2>3. l # 0
      BY <1>3, <2>2, EmptySeq DEF Text
    <2> QED
      BY <2>1, <2>3
  <1>6. Len(g[i]) <= n /\ \A k \in 1 .. Len(g[i]) : head[k] = g[i][k]
    BY <1>1, PrintedPrefix
  <1>7. n \in Nat /\ Len(text) >= n + 4 /\ Len(text) \in Nat
        /\ \A k \in 1 .. n : text[k + 2] = head[k]
    <2>1. /\ n \in Nat /\ Len(parts.body) \in Nat /\ Len(text) = n + Len(parts.body) + 4
          /\ \A k \in 1 .. n : text[k + 2] = head[k]
      <3>1. Layout(text, parts.command, head, parts.body)
        BY PlainTextAt
      <3> HIDE DEF text, head
      <3> QED
        BY <3>1 DEF Layout
    <2> HIDE DEF n, text, head
    <2> QED
      BY <2>1
  <1>8. p = 3 + s /\ v = 2 + Len(g[i])
    <2>1. p = 3 + s /\ v = (3 + Len(g[i])) - 1
      BY DEF LineStart
    <2> HIDE DEF p, v, s, g
    <2> QED
      BY <1>5, <2>1
  <1>9. /\ Len(g[i]) = s + (l + 3)
        /\ \A k \in 1 .. s + (l + 3) : g[i][k] = IF k <= s THEN g[i - 1][k] ELSE line[k - s]
    <2>1. g[i - 1] \in Seq(Token) /\ line \in Seq(Token)
      BY <1>2 DEF Text
    <2> HIDE DEF g, line, l
    <2>2. /\ Len(g[i - 1] \o line) = s + Len(line)
          /\ \A k \in 1 .. s + Len(line) :
               (g[i - 1] \o line)[k] = IF k <= s THEN g[i - 1][k] ELSE line[k - s]
      BY <2>1, Joined
    <2> QED
      BY <1>2, <1>4, <2>2
  <1>10. text \in Text
    BY PlainTextIsText
  <1> HIDE DEF g, head, line, value, p, v, s, l, n, text, m
  <1>11. ASSUME NEW k \in 1 .. l + 3 PROVE text[s + k + 2] = line[k]
    <2>1. s + k \in 1 .. s + (l + 3) /\ ~(s + k <= s) /\ (s + k) - s = k
      BY <1>5
    <2>2. g[i][s + k] = line[k]
      BY <1>9, <2>1
    <2>3. s + k \in 1 .. Len(g[i]) /\ s + k \in 1 .. n
      BY <1>5, <1>6, <1>7, <1>9, <2>1
    <2> QED
      BY <1>6, <1>7, <2>2, <2>3
  <1>12. v = p + l + 2 /\ v <= Len(text) /\ v \in p + 3 .. Len(text)
    <2> DEFINE t == Len(text)
               u == Len(g[i])
    <2>1. /\ l \in Nat /\ s \in Nat /\ l # 0 /\ n \in Nat /\ t \in Nat
          /\ u = s + (l + 3) /\ u <= n /\ t >= n + 4 /\ p = 3 + s /\ v = 2 + u
      BY <1>5, <1>6, <1>7, <1>8, <1>9
    <2> HIDE DEF t, u
    <2>2. v = p + l + 2 /\ v <= t /\ v \in p + 3 .. t
      BY <2>1
    <2> QED
      BY <2>2 DEF t
  <1>13. text[p] = order[i] /\ text[p + 1] = colon /\ text[v] = newLine
    <2>1. 1 \in 1 .. l + 3 /\ 2 \in 1 .. l + 3 /\ l + 3 \in 1 .. l + 3
      BY <1>5
    <2>2. s + 1 + 2 = p /\ s + 2 + 2 = p + 1 /\ s + (l + 3) + 2 = v
      BY <1>5, <1>8, <1>12
    <2> QED
      BY <1>4, <1>11, <2>1, <2>2
  <1>14. ASSUME NEW k \in 1 .. l PROVE text[p + 1 + k] = value[k]
    <2>1. k + 2 \in 1 .. l + 3 /\ s + (k + 2) + 2 = p + 1 + k
      BY <1>5, <1>8
    <2> QED
      BY <1>4, <1>11, <2>1
  <1>15. \A k \in 1 .. l : value[k] # newLine
    BY <1>2, <1>5 DEF Printable, ToSet, value
  <1>16. ASSUME NEW k \in p .. v - 1 PROVE text[k] # newLine
    <2>1. k = p \/ k = p + 1 \/ (k - (p + 1) \in 1 .. l /\ p + 1 + (k - (p + 1)) = k)
      BY <1>5, <1>8, <1>12
    <2> QED
      BY <1>3, <1>13, <1>14, <1>15, <2>1, Tokens
  <1>17. GoodLine(text, p, v)
    BY <1>3, <1>12, <1>13, <1>16 DEF GoodLine
  <1>18. SubSeq(text, p + 2, v - 1) = value
    <2>1. p + 2 \in 1 .. Len(text) + 1 /\ v \in p + 2 .. Len(text) + 1 /\ v - (p + 2) = l
      BY <1>5, <1>7, <1>8, <1>12
    <2>2. /\ SubStr(text, p + 2, v) \in Text /\ Len(SubStr(text, p + 2, v)) = l
          /\ \A k \in 1 .. l : SubStr(text, p + 2, v)[k] = text[(p + 2) + k - 1]
      BY <1>10, <2>1, SubStrFacts
    <2>3. \A k \in 1 .. l : (p + 2) + k - 1 = p + 1 + k
      BY <1>5, <1>8
    <2>4. \A k \in 1 .. l : SubStr(text, p + 2, v)[k] = value[k]
      BY <1>14, <2>2, <2>3
    <2>5. value \in Seq(Token) /\ SubStr(text, p + 2, v) \in Seq(Token) /\ Len(value) = l
      BY <1>3, <2>2 DEF Text, l
    <2>6. SubStr(text, p + 2, v) = value
      BY <2>2, <2>4, <2>5, SeqEqual
    <2> QED
      BY <2>6 DEF SubStr
  <1> QED
    BY <1>13, <1>17, <1>18 DEF text, p, v, value

\* Behind the first i header lines the text holds the other headers, up to the blank line.
Behind(parts, order, i) ==
  LET text == PlainText(parts, order)
      p == LineStart(parts, order, i)
      b == LineStart(parts, order, Len(order))
  IN  /\ Starts(text, p) /\ Blank(text, p, b) /\ Good(text, p, b)
      /\ HeadersFrom(text, p, b)
           = [h \in {order[j] : j \in i + 1 .. Len(order)} |-> parts.headers[h]]

\* A line starts behind each header line.
LEMMA LineStarts ==
  ASSUME NEW parts, NEW order, Ordered(parts, order), Printable(parts),
         NEW i \in 0 .. Len(order)
  PROVE  Starts(PlainText(parts, order), LineStart(parts, order, i))
  <1> DEFINE text == PlainText(parts, order)
             g == PrintedUpTo(parts.headers, order)
             p == LineStart(parts, order, i)
  <1>1. text \in Text /\ Len(order) \in Nat
    BY PlainTextIsText, PrintedFacts
  <1>2. Len(text) \in Nat
    BY <1>1 DEF Text
  <1>3. CASE i = 0
    <2>1. g[0] = <<>>
      BY PrintedFacts
    <2>2. p = 3
      BY <1>3, <2>1 DEF LineStart
    <2>3. Layout(text, parts.command, g[Len(order)], parts.body)
      BY PlainTextAt
    <2>4. Len(text) >= 4 /\ text[2] = newLine
      <3> DEFINE k == Len(g[Len(order)])
                 m == Len(parts.body)
                 t == Len(text)
      <3>1. k \in Nat /\ m \in Nat /\ t = k + m + 4 /\ text[2] = newLine
        BY <2>3 DEF Layout
      <3> HIDE DEF k, m, t
      <3>2. t >= 4
        BY <3>1
      <3> QED
        BY <3>1, <3>2 DEF t
    <2>5. 3 \in 3 .. Len(text) + 1 /\ text[3 - 1] = newLine
      BY <1>2, <2>4
    <2> QED
      BY <2>2, <2>5 DEF Starts
  <1>4. CASE i # 0
    <2>1. i \in 1 .. Len(order)
      BY <1>1, <1>4
    <2>2. GoodLine(text, LineStart(parts, order, i - 1), p - 1)
      BY <2>1, PrintedLine
    <2>3. i - 1 \in 0 .. Len(order)
      BY <1>1, <2>1
    <2>4. g[i] \in Text /\ g[i - 1] \in Text
      BY <2>3, PrintedFacts
    <2>5. Len(g[i]) \in Nat /\ Len(g[i - 1]) \in Nat
      <3> HIDE DEF g
      <3> QED
        BY <2>4 DEF Text
    <2>6. p \in Nat /\ p >= 3 /\ LineStart(parts, order, i - 1) \in Nat
      BY <2>5 DEF LineStart
    <2> HIDE DEF text, p
    <2>7. p - 1 <= Len(text) /\ text[p - 1] = newLine
      BY <1>2, <2>2, <2>6 DEF GoodLine
    <2>8. p \in 3 .. Len(text) + 1
      BY <1>2, <2>6, <2>7
    <2> QED
      BY <2>7, <2>8 DEF Starts, text, p
  <1> QED
    BY <1>3, <1>4

LEMMA LastBehind ==
  ASSUME NEW parts, NEW order, Ordered(parts, order), Printable(parts)
  PROVE  Behind(parts, order, Len(order))
  <1> DEFINE text == PlainText(parts, order)
             head == PrintedUpTo(parts.headers, order)[Len(order)]
             b == LineStart(parts, order, Len(order))
             n == Len(order)
  <1>1. n \in Nat /\ n \in 0 .. n
    BY PrintedFacts
  <1>2. Starts(text, b)
    BY <1>1, LineStarts
  <1>3. Layout(text, parts.command, head, parts.body) /\ b = 3 + Len(head)
    BY PlainTextAt DEF LineStart
  <1> HIDE DEF text, head, b, n
  <1>4. b \in Nat /\ b <= Len(text) /\ text[b] = newLine /\ Len(text) \in Nat
    <2> DEFINE k == Len(head)
               m == Len(parts.body)
    <2>1. k \in Nat /\ m \in Nat /\ Len(text) = k + m + 4 /\ b = 3 + k /\ text[k + 3] = newLine
      BY <1>3 DEF Layout
    <2> HIDE DEF k, m
    <2>2. k + 3 = 3 + k
      BY <2>1
    <2> QED
      BY <2>1, <2>2
  <1>5. text[b - 1] = newLine
    BY <1>2 DEF Starts
  <1>6. b \in b .. Len(text) /\ b .. b - 1 = {} /\ n + 1 .. n = {}
    BY <1>1, <1>4
  <1>7. Blank(text, b, b)
    BY <1>4, <1>5, <1>6 DEF Blank
  <1>8. StartsIn(text, b, b) = {}
    BY <1>6 DEF StartsIn
  <1>9. Good(text, b, b)
    BY <1>8 DEF Good
  <1>10. HeadersFrom(text, b, b) = [h \in {order[j] : j \in n + 1 .. n} |-> parts.headers[h]]
    <2>1. {text[i] : i \in StartsIn(text, b, b)} = {} /\ {order[j] : j \in n + 1 .. n} = {}
      BY <1>6, <1>8
    <2> QED
      BY <2>1 DEF HeadersFrom
  <1> QED
    BY <1>2, <1>7, <1>9, <1>10 DEF Behind, text, b, n

LEMMA OneMoreBehind ==
  ASSUME NEW parts, NEW order, Ordered(parts, order), Printable(parts),
         NEW i \in 1 .. Len(order), Behind(parts, order, i)
  PROVE  Behind(parts, order, i - 1)
  <1> DEFINE text == PlainText(parts, order)
             p == LineStart(parts, order, i - 1)
             q == LineStart(parts, order, i)
             b == LineStart(parts, order, Len(order))
             n == Len(order)
             v == q - 1
             value == parts.headers[order[i]]
             later == {order[j] : j \in i + 1 .. n}
             names == {order[j] : j \in (i - 1) + 1 .. n}
  <1>1. n \in Nat /\ i - 1 \in 0 .. n /\ i \in 0 .. n /\ text \in Text
    BY PrintedFacts, PlainTextIsText
  <1>2. Starts(text, p) /\ Starts(text, q)
    BY <1>1, LineStarts
  <1>3. /\ GoodLine(text, p, v) /\ text[p] = order[i]
        /\ SubSeq(text, p + 2, v - 1) = value
    BY PrintedLine
  <1>4. /\ Blank(text, q, b) /\ Good(text, q, b)
        /\ HeadersFrom(text, q, b) = [h \in later |-> parts.headers[h]]
    BY DEF Behind
  <1> HIDE DEF text, p, q, b, n, value
  <1>5. v + 1 = q /\ Len(text) \in Nat /\ q \in Nat
    BY <1>1, <1>2 DEF Starts, Text
  <1>6. b \in q .. Len(text)
    BY <1>4 DEF Blank
  <1>7. b \in v + 1 .. Len(text) + 1
    BY <1>5, <1>6
  <1>8. Blank(text, p, b) /\ Good(text, p, b)
    <2>1. /\ Blank(text, p, b) <=> Blank(text, v + 1, b)
          /\ Good(text, p, b) <=> Good(text, v + 1, b)
      BY <1>1, <1>2, <1>3, <1>7, NextLine
    <2> QED
      BY <1>4, <1>5, <2>1
  <1>9. HeadersFrom(text, p, b) = FirstWins(order[i], value, [h \in later |-> parts.headers[h]])
    <2>1. HeadersFrom(text, p, b)
            = FirstWins(text[p], SubSeq(text, p + 2, v - 1), HeadersFrom(text, v + 1, b))
      BY <1>1, <1>2, <1>3, <1>7, HeadersGrow
    <2> QED
      BY <1>3, <1>4, <1>5, <2>1
  <1>10. names = {order[i]} \cup later
    <2>1. \A j : j \in (i - 1) + 1 .. n <=> j = i \/ j \in i + 1 .. n
      BY <1>1
    <2> QED
      BY <2>1
  <1>11. FirstWins(order[i], value, [h \in later |-> parts.headers[h]])
           = [h \in names |-> parts.headers[h]]
    <2> HIDE DEF later, names
    <2> QED
      BY <1>10 DEF FirstWins, value
  <1> QED
    BY <1>2, <1>8, <1>9, <1>11 DEF Behind, text, p, b, n

\* All headers are in the text.
LEMMA AllBehind ==
  ASSUME NEW parts, NEW order, Ordered(parts, order), Printable(parts)
  PROVE  Behind(parts, order, 0)
  <1> DEFINE n == Len(order)
             left == {i \in 0 .. n : Behind(parts, order, i)}
  <1>1. n \in Nat
    BY PrintedFacts
  <1>2. n \in left
    BY <1>1, LastBehind
  <1>3. left \in SUBSET Nat /\ left # {}
    BY <1>2
  <1>4. PICK i \in left : \A j \in left : i <= j
    BY <1>3, LeastOf
  <1>5. i \in 0 .. n /\ Behind(parts, order, i)
    BY <1>4
  <1>6. ASSUME i # 0 PROVE FALSE
    <2>1. i \in 1 .. n /\ i - 1 \in 0 .. n /\ ~(i <= i - 1)
      BY <1>1, <1>5, <1>6
    <2>2. Behind(parts, order, i - 1)
      BY <1>5, <2>1, OneMoreBehind
    <2>3. i - 1 \in left
      BY <2>1, <2>2
    <2> HIDE DEF left
    <2> QED
      BY <1>4, <2>1, <2>3
  <1> QED
    BY <1>5, <1>6

\* The text of components that a frame can carry means these components.
LEMMA TextMeansParts ==
  ASSUME NEW parts, NEW order, Ordered(parts, order), Printable(parts), Fits(parts),
         parts = [command |-> parts.command, headers |-> parts.headers, body |-> parts.body],
         {order[j] : j \in 1 .. Len(order)} = DOMAIN parts.headers
  PROVE  parts \in Meaning(PlainText(parts, order))
  <1> DEFINE text == PlainText(parts, order)
             head == PrintedUpTo(parts.headers, order)[Len(order)]
             b == LineStart(parts, order, Len(order))
             e == Len(text)
  <1>1. text \in Text
    BY PlainTextIsText
  <1>2. Layout(text, parts.command, head, parts.body) /\ b = 3 + Len(head)
    BY PlainTextAt DEF LineStart
  <1>3. LineStart(parts, order, 0) = 3
    <2>1. PrintedUpTo(parts.headers, order)[0] = <<>>
      BY PrintedFacts
    <2> QED
      BY <2>1 DEF LineStart
  <1>4. /\ Blank(text, 3, b) /\ Good(text, 3, b)
        /\ HeadersFrom(text, 3, b)
             = [h \in {order[j] : j \in 0 + 1 .. Len(order)} |-> parts.headers[h]]
    <2>1. Behind(parts, order, 0)
      BY AllBehind
    <2>2. LET p == LineStart(parts, order, 0)
          IN  /\ Blank(text, p, b) /\ Good(text, p, b)
              /\ HeadersFrom(text, p, b)
                   = [h \in {order[j] : j \in 0 + 1 .. Len(order)} |-> parts.headers[h]]
      BY <2>1 DEF Behind
    <2> QED
      BY <1>3, <2>2
  <1>5. HeadersFrom(text, 3, b) = parts.headers
    <2>1. {order[j] : j \in 0 + 1 .. Len(order)} = DOMAIN parts.headers
      OBVIOUS
    <2>2. parts.headers = [h \in DOMAIN parts.headers |-> parts.headers[h]]
      BY DEF Ordered
    <2> QED
      BY <1>4, <2>1, <2>2
  <1>6. parts.command \in Commands /\ parts.body \in Text
    BY DEF Printable, Ordered
  <1> HIDE DEF text, head, b
  <1> DEFINE k == Len(head)
             m == Len(parts.body)
  <1>7. /\ k \in Nat /\ m \in Nat /\ e = k + m + 4 /\ b = 3 + k
        /\ text[1] = parts.command /\ text[2] = newLine /\ text[k + m + 4] = null
        /\ \A j \in 1 .. m : text[k + 3 + j] = parts.body[j]
    BY <1>2 DEF Layout
  <1> HIDE DEF k, m, e
  <1>8. GoodCommand(text)
    BY <1>6, <1>7 DEF GoodCommand, e
  <1>9. EndsAt(text, b, e)
    <2>1. e \in b + 1 .. e /\ e + 1 .. e = {}
      BY <1>7
    <2> QED
      BY <1>7, <2>1 DEF EndsAt, OnlyNewLines, e
  <1>10. SubSeq(text, b + 1, e - 1) = parts.body
    <2>1. b + 1 \in 1 .. e + 1 /\ e \in b + 1 .. e + 1 /\ e - (b + 1) = m
      BY <1>7
    <2>2. /\ SubStr(text, b + 1, e) \in Text /\ Len(SubStr(text, b + 1, e)) = m
          /\ \A j \in 1 .. m : SubStr(text, b + 1, e)[j] = text[(b + 1) + j - 1]
      BY <1>1, <2>1, SubStrFacts DEF e
    <2>3. \A j \in 1 .. m : (b + 1) + j - 1 = k + 3 + j
      BY <1>7
    <2>4. \A j \in 1 .. m : SubStr(text, b + 1, e)[j] = parts.body[j]
      BY <1>7, <2>2, <2>3
    <2>5. parts.body \in Seq(Token) /\ SubStr(text, b + 1, e) \in Seq(Token)
          /\ Len(parts.body) = m
      BY <1>6, <2>2 DEF Text, m
    <2>6. SubStr(text, b + 1, e) = parts.body
      BY <2>2, <2>4, <2>5, SeqEqual
    <2> QED
      BY <2>6 DEF SubStr
  <1>11. parts = FrameAt(text, b, e)
    BY <1>5, <1>7, <1>10 DEF FrameAt
  <1>12. parts \in Meaning(text)
    BY <1>1, <1>4, <1>8, <1>9, <1>11, MeaningIs
  <1> QED
    BY <1>12 DEF text

\* An order of the headers lists all of them.
LEMMA OrdersListAll ==
  ASSUME NEW S, IsFiniteSet(S), NEW order \in SetToSeqs(S)
  PROVE  order \in Seq(S) /\ {order[j] : j \in 1 .. Len(order)} = S
  <1> DEFINE n == Cardinality(S)
  <1>1. n \in Nat
    BY FS_CardinalityType
  <1>2. order \in [1 .. n -> S] /\ \A i, j \in 1 .. n : i # j => order[i] # order[j]
    BY DEF SetToSeqs
  <1> HIDE DEF n
  <1>3. order \in Seq(S) /\ Len(order) = n
    BY <1>1, <1>2
  <1>4. order \in Injection(1 .. n, S)
    BY <1>2 DEF Injection, IsInjective
  <1>5. Cardinality(1 .. n) = n
    <2>1. 1 \in Int /\ n \in Int
      BY <1>1
    <2>2. Cardinality(1 .. n) = IF 1 > n THEN 0 ELSE n - 1 + 1
      BY <2>1, FS_Interval
    <2> QED
      BY <1>1, <2>2
  <1>6. order \in Surjection(1 .. n, S)
    BY <1>4, <1>5, FS_Injection DEF n
  <1>7. \A s \in S : \E j \in 1 .. n : order[j] = s
    BY <1>6 DEF Surjection
  <1> QED
    BY <1>2, <1>3, <1>7
-----------------------------------------------------------------------------
(* Frame objects *)

Contents(frame) == [command |-> frame.command, headers |-> frame.headers, body |-> frame.body]

\* An object: its members have their types and, while its views are its own, say what its
\* text says.
FrameTypes(frame) ==
  /\ frame.command \in Commands \cup {"kInvalid"}
  /\ DOMAIN frame.headers \subseteq StompHeaders
  /\ \A h \in DOMAIN frame.headers : Len(frame.headers[h]) > 0
  /\ frame.views \in {"own", "dangling"}
FrameShape(frame) ==
  frame = [plain |-> frame.plain, command |-> frame.command, headers |-> frame.headers,
           body |-> frame.body, views |-> frame.views]
FrameOK(frame) ==
  /\ FrameShape(frame) /\ frame.plain \in Text /\ FrameTypes(frame)
  /\ frame.views = "own" => \A f \in Meaning(frame.plain) : f = Contents(frame)

\* The code that parsing and validating a text gives.
Complete(f) == RequiredHeaders[f.command] \subseteq DOMAIN f.headers
CodeOK(text, ec) ==
  /\ ec # "kValidationInvalidCommand" /\ ec # "kValidationInvalidContentLength"
  /\ ec = "kValidationContentLengthMismatch" => OutOfRange(text)
  /\ ~OutOfRange(text) => /\ ec \in {"kOk", "kValidationMissingHeader"} <=> Meaning(text) # {}
                          /\ ec = "kOk" <=> \E f \in Meaning(text) : Complete(f)
  /\ ec = "throws" <=> GoodCommand(text) /\ EndsBehindColon(text, 3)

\* The validator on a frame whose content length the parser has read.
LEMMA ValidateFacts ==
  ASSUME NEW frame, frame.command \in Commands,
         "content-length" \in DOMAIN frame.headers =>
           /\ StoI(frame.headers["content-length"]).ec \in {"ok", "out_of_range"}
           /\ StoI(frame.headers["content-length"]).number = Len(frame.body),
         NEW ec \in ValidateFrame(frame)
  PROVE  /\ ec \in {"kOk", "kValidationMissingHeader", "kValidationContentLengthMismatch"}
         /\ ec = "kValidationMissingHeader" <=> ~Complete(frame)
         /\ ec = "kValidationContentLengthMismatch" =>
              /\ "content-length" \in DOMAIN frame.headers
              /\ StoI(frame.headers["content-length"]).ec = "out_of_range"
  <1> DEFINE length == StoI(frame.headers["content-length"])
             sized == "content-length" \in DOMAIN frame.headers
  <1>1. CASE ~Complete(frame)
    <2>1. ValidateFrame(frame) = {"kValidationMissingHeader"}
      BY <1>1 DEF ValidateFrame, Complete
    <2> QED
      BY <1>1, <2>1
  <1>2. CASE Complete(frame) /\ ~sized
    <2>1. ValidateFrame(frame) = {"kOk"}
      BY <1>2 DEF ValidateFrame, Complete
    <2> QED
      BY <1>2, <2>1
  <1>3. CASE Complete(frame) /\ sized /\ length.ec = "ok"
    <2>1. length.number = Len(frame.body) /\ length.ec # "invalid_argument"
          /\ length.ec # "out_of_range"
      BY <1>3
    <2>2. ValidateFrame(frame) = {"kOk"}
      <3> HIDE DEF length
      <3> QED
        BY <1>3, <2>1 DEF ValidateFrame, Complete, length
    <2> QED
      BY <1>3, <2>2
  <1>4. CASE Complete(frame) /\ sized /\ length.ec = "out_of_range"
    <2>1. ValidateFrame(frame) = {"kOk", "kValidationContentLengthMismatch"}
      <3>1. length.ec # "invalid_argument"
        BY <1>4
      <3> QED
        BY <1>4, <3>1 DEF ValidateFrame, Complete
    <2> QED
      BY <1>4, <2>1
  <1> QED
    BY <1>1, <1>2, <1>3, <1>4

\* Parsing a text into an object gives an object that says what the text says, and the
\* code; a text with a meaning gives an object with that meaning, and is accepted.
LEMMA MadeFacts ==
  ASSUME NEW frame, FrameOK(frame), NEW text \in Text,
         NEW made \in ParseAndValidateFrame(frame, text)
  PROVE  /\ FrameOK(made[1]) /\ made[1].plain = text /\ CodeOK(text, made[2])
         /\ \A f \in Meaning(text) :
              f = Contents(made[1]) /\ (Complete(f) => made[2] = "kOk")
  <1> DEFINE parsed == ParseFrame(text)
             new == [plain |-> text, command |-> parsed.command, headers |-> parsed.headers,
                     body |-> parsed.body, views |-> "own"]
             old == [frame EXCEPT !.plain = text,
                                  !.views = IF HasViews(frame) THEN "dangling" ELSE @]
  <1>1. /\ \/ parsed.ec = "kOk" /\ \E b, e : Accepted(text, b, e, parsed)
           \/ parsed.ec \in ParseErrors
        /\ parsed.ec = "throws" <=> GoodCommand(text) /\ EndsBehindColon(text, 3)
        /\ Meaning(text) # {} => parsed.ec = "kOk"
    BY ParseFrameFacts
  <1>2. ParseAndValidateFrame(frame, text)
          = IF parsed.ec = "kOk" THEN {<<new, ec>> : ec \in ValidateFrame(new)}
            ELSE {<<old, parsed.ec>>}
    BY DEF ParseAndValidateFrame
  <1>3. "kOk" \notin ParseErrors /\ "kValidationMissingHeader" \notin ParseErrors
        /\ "kValidationInvalidCommand" \notin ParseErrors
        /\ "kValidationInvalidContentLength" \notin ParseErrors
        /\ "kValidationContentLengthMismatch" \notin ParseErrors
    BY DEF ParseErrors, LineErrors, BodyErrors, FrameErrors
  <1> HIDE DEF parsed
  <1>4. CASE parsed.ec = "kOk"
    <2>1. PICK b, e : Accepted(text, b, e, parsed)
      BY <1>1, <1>3, <1>4
    <2> DEFINE f == [command |-> parsed.command, headers |-> parsed.headers, body |-> parsed.body]
    <2>2. /\ parsed.command \in Commands
          /\ DOMAIN parsed.headers \subseteq StompHeaders
          /\ \A h \in DOMAIN parsed.headers : Len(parsed.headers[h]) > 0
          /\ "content-length" \in DOMAIN parsed.headers =>
               /\ StoI(parsed.headers["content-length"]).ec \in {"ok", "out_of_range"}
               /\ StoI(parsed.headers["content-length"]).number = Len(parsed.body)
               /\ StoI(parsed.headers["content-length"]).ec = "out_of_range"
                    => OutOfRange(text)
          /\ \A g \in Meaning(text) : g = f
          /\ ~OutOfRange(text) => Meaning(text) = {f}
      BY <2>1, AcceptedMeans
    <2>3. PICK ec \in ValidateFrame(new) : made = <<new, ec>>
      BY <1>2, <1>4
    <2>4. made[1] = new /\ made[2] = ec
      BY <2>3
    <2>5. /\ new.plain = text /\ new.command = parsed.command /\ new.headers = parsed.headers
          /\ new.body = parsed.body /\ new.views = "own" /\ FrameShape(new) /\ Contents(new) = f
      BY DEF FrameShape, Contents
    <2> HIDE DEF new
    <2>6. /\ ec \in {"kOk", "kValidationMissingHeader", "kValidationContentLengthMismatch"}
          /\ ec = "kValidationMissingHeader" <=> ~Complete(new)
          /\ ec = "kValidationContentLengthMismatch" =>
               /\ "content-length" \in DOMAIN new.headers
               /\ StoI(new.headers["content-length"]).ec = "out_of_range"
      <3>1. new.command \in Commands
        BY <2>2, <2>5
      <3>2. "content-length" \in DOMAIN new.headers =>
              /\ StoI(new.headers["content-length"]).ec \in {"ok", "out_of_range"}
              /\ StoI(new.headers["content-length"]).number = Len(new.body)
        BY <2>2, <2>5
      <3> QED
        BY <2>3, <3>1, <3>2, ValidateFacts
    <2>7. Complete(f) <=> Complete(new)
      BY <2>5 DEF Complete
    <2> HIDE DEF f
    <2>8. FrameOK(new)
      <3>1. FrameTypes(new)
        BY <2>2, <2>5 DEF FrameTypes
      <3> QED
        BY <2>2, <2>5, <3>1 DEF FrameOK
    <2>9. ec = "kValidationContentLengthMismatch" => OutOfRange(text)
      BY <2>2, <2>5, <2>6
    <2>10. CodeOK(text, ec)
      <3>1. ~OutOfRange(text) => /\ ec \in {"kOk", "kValidationMissingHeader"}
                                 /\ Meaning(text) = {f} /\ (ec = "kOk" <=> Complete(f))
        BY <2>2, <2>6, <2>7, <2>9
      <3>2. ~OutOfRange(text) => /\ ec \in {"kOk", "kValidationMissingHeader"} <=> Meaning(text) # {}
                                 /\ ec = "kOk" <=> \E g \in Meaning(text) : Complete(g)
        BY <3>1
      <3>3. ec # "throws" /\ ~(GoodCommand(text) /\ EndsBehindColon(text, 3))
        BY <1>1, <1>4, <2>6
      <3>4. ec # "kValidationInvalidCommand" /\ ec # "kValidationInvalidContentLength"
        BY <2>6
      <3> QED
        BY <2>9, <3>2, <3>3, <3>4 DEF CodeOK
    <2>11. ASSUME NEW g \in Meaning(text) PROVE g = f /\ (Complete(g) => ec = "kOk")
      <3>1. g = f
        BY <2>2
      <3>2. ASSUME ec = "kValidationContentLengthMismatch" PROVE FALSE
        <4>1. Fits(f)
          BY <3>1, MeaningIs
        <4>2. f.headers = new.headers
          BY <2>5 DEF f
        <4>3. StoI(new.headers["content-length"]) = [ec |-> "ok", number |-> Len(f.body)]
          BY <2>6, <3>2, <4>1, <4>2 DEF Fits
        <4> QED
          BY <2>6, <3>2, <4>3
      <3> QED
        BY <2>6, <2>7, <3>1, <3>2
    <2> QED
      BY <2>4, <2>5, <2>8, <2>10, <2>11
  <1>5. CASE parsed.ec # "kOk"
    <2>1. made = <<old, parsed.ec>>
      BY <1>2, <1>5
    <2>2. made[1] = old /\ made[2] = parsed.ec
      BY <2>1
    <2>3. Meaning(text) = {} /\ parsed.ec \in ParseErrors
      BY <1>1, <1>5
    <2>4. FrameShape(frame) /\ FrameTypes(frame)
      BY DEF FrameOK
    <2>5. /\ old.plain = text /\ old.command = frame.command /\ old.headers = frame.headers
          /\ old.body = frame.body /\ old.views \in {"dangling", frame.views} /\ FrameShape(old)
      <3> DEFINE views == IF HasViews(frame) THEN "dangling" ELSE frame.views
      <3>1. old = [plain |-> text, command |-> frame.command, headers |-> frame.headers,
                   body |-> frame.body, views |-> views]
        <4>1. frame = [plain |-> frame.plain, command |-> frame.command,
                       headers |-> frame.headers, body |-> frame.body, views |-> frame.views]
          BY <2>4 DEF FrameShape
        <4>2. old = [frame EXCEPT !.plain = text, !.views = views]
          OBVIOUS
        <4> HIDE DEF views, old
        <4> QED
          BY <4>1, <4>2
      <3>2. views \in {"dangling", frame.views}
        OBVIOUS
      <3> HIDE DEF views, old
      <3> QED
        BY <3>1, <3>2 DEF FrameShape
    <2> HIDE DEF old
    <2>6. FrameOK(old)
      <3>1. FrameTypes(old)
        BY <2>4, <2>5 DEF FrameTypes
      <3> QED
        BY <2>3, <2>5, <3>1 DEF FrameOK
    <2>7. CodeOK(text, parsed.ec)
      BY <1>1, <1>3, <2>3 DEF CodeOK
    <2> QED
      BY <2>2, <2>3, <2>5, <2>6, <2>7
  <1> QED
    BY <1>4, <1>5

\* The empty text says nothing, and the empty object is fine.
LEMMA EmptyIsOK == Meaning(<<>>) = {} /\ <<>> \in Text /\ FrameOK(EmptyFrame)
  <1>1. <<>> \in Text /\ Len(<<>>) = 0
    BY DEF Text
  <1>2. ~GoodCommand(<<>>)
    BY <1>1 DEF GoodCommand
  <1>3. Meaning(<<>>) = {}
    BY <1>1, <1>2, MeaningIs
  <1>4. FrameShape(EmptyFrame) /\ EmptyFrame.plain = <<>>
    BY DEF FrameShape, EmptyFrame
  <1>5. FrameTypes(EmptyFrame)
    BY DEF FrameTypes, EmptyFrame, NoHeaders
  <1> QED
    BY <1>1, <1>3, <1>4, <1>5 DEF FrameOK
-----------------------------------------------------------------------------
(* The inductive invariant *)

\* Components that a frame can carry, and that they come back.
Carried(parts) == Printable(parts) /\ Complete(parts) /\ Fits(parts)
CameBack(parts, frame, ec) == Carried(parts) => ec = "kOk" /\ parts = Contents(frame)

FramesOK == FrameOK(source) /\ FrameOK(target)
OutcomeOK ==
  /\ last.op \in {"none", "construct", "copy", "assign", "move"}
  /\ last.op \in {"none", "move"} => last.ec = "kOk"
  /\ last.op \in {"construct", "copy", "assign"} => CodeOK(source.plain, last.ec)
  /\ last.op = "construct" => CameBack(last.parts, source, last.ec)
FrameInvariant == FramesOK /\ OutcomeOK

\* The texts of the model are texts.
LEMMA StringsAreTexts == Seq(STRING) \subseteq Text
  <1> SUFFICES ASSUME NEW s \in Seq(STRING) PROVE s \in Seq(Token)
    BY DEF Text
  <1>1. STRING \subseteq Token
    BY DEF Token
  <1>2. Len(s) \in Nat /\ s \in [1 .. Len(s) -> STRING]
    OBVIOUS
  <1>3. s \in [1 .. Len(s) -> Token]
    BY <1>1, <1>2
  <1> QED
    BY <1>2, <1>3

LEMMA OutcomeFields ==
  ASSUME NEW op, NEW ec, NEW parts
  PROVE  LET o == Outcome(op, ec, parts) IN o.op = op /\ o.ec = ec /\ o.parts = parts
  BY DEF Outcome

\* No components were given.
LEMMA NoPartsNotCarried == ~Carried(NoParts)
  BY DEF Carried, Printable, NoParts, Commands, RequiredHeaders

LEMMA InvariantHoldsAtFirst == Init => FrameInvariant
  <1> SUFFICES ASSUME Init PROVE FrameInvariant
    OBVIOUS
  <1>1. FrameOK(EmptyFrame)
    BY EmptyIsOK
  <1>2. FrameOK(source) /\ last.op = "none" /\ last.ec = "kOk"
    <2>1. source = EmptyFrame /\ last = Outcome("none", "kOk", NoParts)
      BY DEF Init
    <2> QED
      BY <1>1, <2>1, OutcomeFields
  <1>3. target = EmptyFrame
          \/ \E text \in Targets : \E made \in ParseAndValidateFrame(EmptyFrame, text) : target = made[1]
    BY DEF Init
  <1>4. FrameOK(target)
    <2>1. CASE target = EmptyFrame
      BY <1>1, <2>1
    <2>2. CASE \E text \in Targets :
                 \E made \in ParseAndValidateFrame(EmptyFrame, text) : target = made[1]
      <3>1. PICK text \in Targets :
              \E made \in ParseAndValidateFrame(EmptyFrame, text) : target = made[1]
        BY <2>2
      <3>2. PICK made \in ParseAndValidateFrame(EmptyFrame, text) : target = made[1]
        BY <3>1
      <3>3. text \in Text
        BY TextsAssumption, StringsAreTexts
      <3> QED
        BY <1>1, <3>2, <3>3, MadeFacts
    <2> QED
      BY <1>3, <2>1, <2>2
  <1> QED
    BY <1>2, <1>4 DEF FrameInvariant, FramesOK, OutcomeOK

LEMMA FromTextStep == FrameInvariant /\ FromText => FrameInvariant'
  <1> SUFFICES ASSUME FrameInvariant, FromText PROVE FrameInvariant'
    OBVIOUS
  <1>0. PICK text \in Texts : \E made \in ParseAndValidateFrame(EmptyFrame, text) :
          source' = made[1] /\ last' = Outcome("construct", made[2], NoParts)
    BY DEF FromText
  <1>1. PICK made \in ParseAndValidateFrame(EmptyFrame, text) :
          source' = made[1] /\ last' = Outcome("construct", made[2], NoParts)
    BY <1>0
  <1>2. text \in Text /\ FrameOK(EmptyFrame)
    BY TextsAssumption, StringsAreTexts, EmptyIsOK
  <1>3. FrameOK(made[1]) /\ made[1].plain = text /\ CodeOK(text, made[2])
    BY <1>1, <1>2, MadeFacts
  <1>4. target' = target /\ FrameOK(target)
    BY DEF FromText, FrameInvariant, FramesOK
  <1>5. last'.op = "construct" /\ last'.ec = made[2] /\ last'.parts = NoParts
    BY <1>1, OutcomeFields
  <1>6. FramesOK'
    BY <1>1, <1>3, <1>4 DEF FramesOK
  <1>7. OutcomeOK'
    <2>1. CodeOK(source.plain, last.ec)'
      BY <1>1, <1>3, <1>5
    <2>2. CameBack(last.parts, source, last.ec)'
      BY <1>5, NoPartsNotCarried DEF CameBack
    <2> QED
      BY <1>5, <2>1, <2>2 DEF OutcomeOK
  <1> QED
    BY <1>6, <1>7 DEF FrameInvariant

\* Components as the constructor takes them.
LEMMA PartsOrdered ==
  ASSUME NEW parts \in Parts, NEW order \in SetToSeqs(DOMAIN parts.headers)
  PROVE  /\ Ordered(parts, order)
         /\ parts = [command |-> parts.command, headers |-> parts.headers, body |-> parts.body]
         /\ {order[j] : j \in 1 .. Len(order)} = DOMAIN parts.headers
  <1>1. /\ parts = [command |-> parts.command, headers |-> parts.headers, body |-> parts.body]
        /\ parts.command \in Commands \cup {"kInvalid"} /\ parts.body \in Seq(STRING)
        /\ IsFiniteSet(DOMAIN parts.headers)
        /\ DOMAIN parts.headers \subseteq StompHeaders \cup {"kInvalid"}
        /\ parts.headers \in [DOMAIN parts.headers -> Seq(STRING)]
    BY PartsAssumption
  <1>2. order \in Seq(DOMAIN parts.headers)
        /\ {order[j] : j \in 1 .. Len(order)} = DOMAIN parts.headers
    BY <1>1, OrdersListAll
  <1>3. parts.command \in Token /\ DOMAIN parts.headers \subseteq Token
    BY <1>1 DEF Token
  <1>4. parts.body \in Text /\ parts.headers \in [DOMAIN parts.headers -> Text]
    BY <1>1, StringsAreTexts
  <1> QED
    BY <1>1, <1>2, <1>3, <1>4 DEF Ordered

LEMMA FromPartsStep == FrameInvariant /\ FromParts => FrameInvariant'
  <1> SUFFICES ASSUME FrameInvariant, FromParts PROVE FrameInvariant'
    OBVIOUS
  <1> DEFINE Makes(parts, made) ==
               source' = made[1] /\ last' = Outcome("construct", made[2], parts)
  <1>a. PICK parts \in Parts :
          \E order \in SetToSeqs(DOMAIN parts.headers) :
            \E made \in ParseAndValidateFrame(EmptyFrame, PlainText(parts, order)) :
              Makes(parts, made)
    BY DEF FromParts
  <1>b. PICK order \in SetToSeqs(DOMAIN parts.headers) :
          \E made \in ParseAndValidateFrame(EmptyFrame, PlainText(parts, order)) :
            Makes(parts, made)
    BY <1>a
  <1> DEFINE text == PlainText(parts, order)
  <1>1. PICK made \in ParseAndValidateFrame(EmptyFrame, text) : Makes(parts, made)
    BY <1>b
  <1>2. /\ Ordered(parts, order)
        /\ parts = [command |-> parts.command, headers |-> parts.headers, body |-> parts.body]
        /\ {order[j] : j \in 1 .. Len(order)} = DOMAIN parts.headers
    BY PartsOrdered
  <1>3. text \in Text /\ FrameOK(EmptyFrame)
    BY <1>2, PlainTextIsText, EmptyIsOK
  <1>4. Carried(parts) => parts \in Meaning(text) /\ Complete(parts)
    BY <1>2, TextMeansParts DEF Carried
  <1> HIDE DEF text
  <1>5. /\ FrameOK(made[1]) /\ made[1].plain = text /\ CodeOK(text, made[2])
        /\ \A f \in Meaning(text) : f = Contents(made[1]) /\ (Complete(f) => made[2] = "kOk")
    <2>1. made \in ParseAndValidateFrame(EmptyFrame, text)
      BY DEF text
    <2> QED
      BY <1>3, <2>1, MadeFacts
  <1>6. CameBack(parts, made[1], made[2])
    BY <1>4, <1>5 DEF CameBack
  <1>7. target' = target /\ FrameOK(target)
    BY DEF FromParts, FrameInvariant, FramesOK
  <1>8. last'.op = "construct" /\ last'.ec = made[2] /\ last'.parts = parts
    BY <1>1, OutcomeFields
  <1>9. FramesOK'
    BY <1>1, <1>5, <1>7 DEF FramesOK
  <1>10. OutcomeOK'
    <2>1. CodeOK(source.plain, last.ec)' /\ CameBack(last.parts, source, last.ec)'
      BY <1>1, <1>5, <1>6, <1>8
    <2> QED
      BY <1>8, <2>1 DEF OutcomeOK
  <1> QED
    BY <1>9, <1>10 DEF FrameInvariant

LEMMA CopyConstructStep == FrameInvariant /\ CopyConstruct => FrameInvariant'
  <1> SUFFICES ASSUME FrameInvariant, CopyConstruct PROVE FrameInvariant'
    OBVIOUS
  <1>1. PICK made \in ParseAndValidateFrame(EmptyFrame, source.plain) :
          target' = made[1] /\ last' = Outcome("copy", made[2], NoParts)
    BY DEF CopyConstruct
  <1>2. source' = source /\ FrameOK(source) /\ source.plain \in Text /\ FrameOK(EmptyFrame)
    BY EmptyIsOK DEF CopyConstruct, FrameInvariant, FramesOK, FrameOK
  <1>3. FrameOK(made[1]) /\ CodeOK(source.plain, made[2])
    BY <1>1, <1>2, MadeFacts
  <1>4. last'.op = "copy" /\ last'.ec = made[2]
    BY <1>1, OutcomeFields
  <1>5. FramesOK'
    BY <1>1, <1>2, <1>3 DEF FramesOK
  <1>6. OutcomeOK'
    <2>1. CodeOK(source.plain, last.ec)'
      BY <1>2, <1>3, <1>4
    <2> QED
      BY <1>4, <2>1 DEF OutcomeOK
  <1> QED
    BY <1>5, <1>6 DEF FrameInvariant

LEMMA CopyAssignStep == FrameInvariant /\ CopyAssign => FrameInvariant'
  <1> SUFFICES ASSUME FrameInvariant, CopyAssign PROVE FrameInvariant'
    OBVIOUS
  <1>1. PICK made \in ParseAndValidateFrame(target, source.plain) :
          target' = made[1] /\ last' = Outcome("assign", made[2], NoParts)
    BY DEF CopyAssign
  <1>2. source' = source /\ FrameOK(source) /\ source.plain \in Text /\ FrameOK(target)
    BY DEF CopyAssign, FrameInvariant, FramesOK, FrameOK
  <1>3. FrameOK(made[1]) /\ CodeOK(source.plain, made[2])
    BY <1>1, <1>2, MadeFacts
  <1>4. last'.op = "assign" /\ last'.ec = made[2]
    BY <1>1, OutcomeFields
  <1>5. FramesOK'
    BY <1>1, <1>2, <1>3 DEF FramesOK
  <1>6. OutcomeOK'
    <2>1. CodeOK(source.plain, last.ec)'
      BY <1>2, <1>3, <1>4
    <2> QED
      BY <1>4, <2>1 DEF OutcomeOK
  <1> QED
    BY <1>5, <1>6 DEF FrameInvariant

\* The object moved to has the text and the members; the one moved from has neither.
LEMMA MoveStep == FrameInvariant /\ Move => FrameInvariant'
  <1> SUFFICES ASSUME FrameInvariant, Move PROVE FrameInvariant'
    OBVIOUS
  <1> DEFINE there == IF HasViews(source) /\ Len(source.plain) <= SmallString THEN "dangling"
                      ELSE source.views
             here == IF source.body # <<>> THEN "dangling" ELSE source.views
  <1>1. FrameOK(source) /\ FrameShape(source) /\ FrameTypes(source)
    BY DEF FrameInvariant, FramesOK, FrameOK
  <1>2. /\ target' = [source EXCEPT !.views = there]
        /\ source' = [source EXCEPT !.plain = <<>>, !.headers = NoHeaders, !.views = here]
        /\ last' = Outcome("move", "kOk", NoParts)
    BY DEF Move
  <1>3. there \in {"dangling", source.views} /\ here \in {"dangling", source.views}
    OBVIOUS
  <1> HIDE DEF there, here
  <1>4. source = [plain |-> source.plain, command |-> source.command,
                  headers |-> source.headers, body |-> source.body, views |-> source.views]
    BY <1>1 DEF FrameShape
  <1>5. target' = [plain |-> source.plain, command |-> source.command,
                   headers |-> source.headers, body |-> source.body, views |-> there]
    BY <1>2, <1>4
  <1>6. source' = [plain |-> <<>>, command |-> source.command,
                   headers |-> NoHeaders, body |-> source.body, views |-> here]
    BY <1>2, <1>4
  <1>7. FrameOK(target')
    <2> DEFINE t == target'
    <2>1. /\ t.plain = source.plain /\ t.command = source.command /\ t.headers = source.headers
          /\ t.body = source.body /\ t.views \in {"dangling", source.views} /\ FrameShape(t)
      BY <1>3, <1>5 DEF FrameShape
    <2> HIDE DEF t
    <2>2. FrameTypes(t)
      BY <1>1, <2>1 DEF FrameTypes
    <2>3. Contents(t) = Contents(source)
      BY <2>1 DEF Contents
    <2>4. t.views = "own" => source.views = "own"
      BY <2>1
    <2>5. FrameOK(t)
      BY <1>1, <2>1, <2>2, <2>3, <2>4 DEF FrameOK
    <2> QED
      BY <2>5 DEF t
  <1>8. FrameOK(source')
    <2> DEFINE s == source'
    <2>1. /\ s.plain = <<>> /\ s.command = source.command /\ s.headers = NoHeaders
          /\ s.views \in {"dangling", source.views} /\ FrameShape(s)
      BY <1>3, <1>6 DEF FrameShape
    <2> HIDE DEF s
    <2>2. FrameTypes(s)
      BY <1>1, <2>1 DEF FrameTypes, NoHeaders
    <2>3. FrameOK(s)
      BY <2>1, <2>2, EmptyIsOK DEF FrameOK
    <2> QED
      BY <2>3 DEF s
  <1>9. last'.op = "move" /\ last'.ec = "kOk"
    BY <1>2, OutcomeFields
  <1> QED
    BY <1>7, <1>8, <1>9 DEF FrameInvariant, FramesOK, OutcomeOK

\* Every frame object is sound, and every code is the one its text deserves, whatever was
\* constructed, copied, assigned or moved: the invariant behind the results below.
THEOREM FrameInvariantHolds == Spec => []FrameInvariant
  <1>1. FrameInvariant /\ [Next]_vars => FrameInvariant'
    <2>1. FrameInvariant /\ UNCHANGED vars => FrameInvariant'
      BY DEF FrameInvariant, FramesOK, OutcomeOK, vars
    <2> QED
      BY <2>1, FromTextStep, FromPartsStep, CopyConstructStep, CopyAssignStep, MoveStep
         DEF Next
  <1> QED
    BY <1>1, InvariantHoldsAtFirst, PTL DEF Spec

\* Frames have only commands and headers that exist, and no header without a value
\* (StompFrame's members, whatever the operations did).
THEOREM FrameTypeCorrect == Spec => []TypeOK
  <1>1. FrameInvariant => TypeOK
    BY DEF FrameInvariant, FramesOK, FrameOK, FrameTypes, TypeOK
  <1> QED
    BY <1>1, FrameInvariantHolds, PTL

\* While its views are its own, what GetCommand, GetHeaderValue and GetBody return is what
\* the text of the object says.
THEOREM AccessorsMatchTextHolds == Spec => []AccessorsMatchText
  <1>1. FrameInvariant => AccessorsMatchText
    BY DEF FrameInvariant, FramesOK, FrameOK, Contents, AccessorsMatchText
  <1> QED
    BY <1>1, FrameInvariantHolds, PTL

\* ParseFrame accepts the grammar, for texts of any length, and ValidateFrame then rejects
\* exactly the frames that lack a required header.
THEOREM AcceptedIffWellFormedHolds == Spec => []AcceptedIffWellFormed
  <1>1. FrameInvariant => AcceptedIffWellFormed
    <2> SUFFICES ASSUME FrameInvariant, last.op = "construct", ~OutOfRange(source.plain)
                 PROVE  /\ last.ec \in {"kOk", "kValidationMissingHeader"}
                             <=> Meaning(source.plain) # {}
                        /\ last.ec = "kOk" <=>
                             \E f \in Meaning(source.plain) :
                               RequiredHeaders[f.command] \subseteq DOMAIN f.headers
      BY DEF AcceptedIffWellFormed
    <2>1. CodeOK(source.plain, last.ec)
      BY DEF FrameInvariant, OutcomeOK
    <2> QED
      BY <2>1 DEF CodeOK, Complete
  <1> QED
    BY <1>1, FrameInvariantHolds, PTL

\* The extent of what run frame_throws shows, the constructor throwing where its
\* comment promises a code: it throws for every text that ends right behind the
\* colon of a header with good lines before it, and for no other.
ThrowsOnlyBehindColon ==
  last.op = "construct" =>
    LET text == source.plain
        n == Len(text)
    IN  last.ec = "throws" <=>
          /\ GoodCommand(text) /\ ~\E i \in DOMAIN text : IsBlank(text, i)
          /\ n > 3 /\ text[n] = colon /\ text[n - 1] \in StompHeaders /\ text[n - 2] = newLine
          /\ GoodLines(text, n - 1)

\* The texts for which the constructor breaks ResultInErrorCode, no more and no fewer.
THEOREM ThrowsOnlyBehindColonHolds == Spec => []ThrowsOnlyBehindColon
  <1>1. FrameInvariant => ThrowsOnlyBehindColon
    <2> DEFINE text == source.plain
               n == Len(text)
    <2> SUFFICES ASSUME FrameInvariant, last.op = "construct"
                 PROVE  last.ec = "throws" <=>
                          /\ GoodCommand(text) /\ ~\E i \in DOMAIN text : IsBlank(text, i)
                          /\ n > 3 /\ text[n] = colon /\ text[n - 1] \in StompHeaders
                          /\ text[n - 2] = newLine /\ GoodLines(text, n - 1)
      BY DEF ThrowsOnlyBehindColon
    <2>1. CodeOK(text, last.ec) /\ text \in Text
      BY DEF FrameInvariant, FramesOK, FrameOK, OutcomeOK
    <2> HIDE DEF text
    <2>2. n \in Nat /\ DOMAIN text = 1 .. n
      BY <2>1 DEF Text
    <2>3. last.ec = "throws" <=> GoodCommand(text) /\ EndsBehindColon(text, 3)
      BY <2>1 DEF CodeOK
    <2>4. (\E i \in DOMAIN text : IsBlank(text, i)) <=> \E b : Blank(text, 3, b)
      <3>1. ASSUME NEW i PROVE (i \in DOMAIN text /\ IsBlank(text, i)) <=> Blank(text, 3, i)
        <4>1. i \in 3 .. n => i \in DOMAIN text
          BY <2>2
        <4> QED
          BY <4>1 DEF IsBlank, Blank
      <3> QED
        BY <3>1
    <2>5. GoodLines(text, n - 1) <=> Good(text, 3, n - 1)
      BY DEF GoodLines, HeaderLines, Good, StartsIn
    <2>6. n > 3 <=> 3 <= n - 1
      BY <2>2
    <2> HIDE DEF n
    <2>7. EndsBehindColon(text, 3) <=>
            /\ 3 <= n - 1 /\ text[n] = colon /\ text[n - 1] \in StompHeaders
            /\ text[n - 2] = newLine /\ Good(text, 3, n - 1) /\ ~ \E b : Blank(text, 3, b)
      BY DEF EndsBehindColon, n
    <2> QED
      BY <2>3, <2>4, <2>5, <2>6, <2>7
  <1> QED
    BY <1>1, FrameInvariantHolds, PTL

\* The two readings of the content length, by ParseFrame and by ValidateFrame, agree
\* unless the number does not fit.
THEOREM LengthsAgreeHolds == Spec => []LengthsAgree
  <1>1. FrameInvariant => LengthsAgree
    BY DEF FrameInvariant, OutcomeOK, CodeOK, LengthsAgree
  <1> QED
    BY <1>1, FrameInvariantHolds, PTL

\* Components printed by the constructor, in any order of the hash map, are parsed back
\* unchanged.
THEOREM ComponentsRoundTripHolds == Spec => []ComponentsRoundTrip
  <1>1. FrameInvariant => ComponentsRoundTrip
    <2> DEFINE parts == last.parts
               values == {parts.headers[h] : h \in DOMAIN parts.headers}
    <2> SUFFICES ASSUME FrameInvariant, last.op = "construct",
                        parts.command \in Commands, DOMAIN parts.headers \subseteq StompHeaders,
                        RequiredHeaders[parts.command] \subseteq DOMAIN parts.headers,
                        \A v \in values : v # <<>> /\ newLine \notin ToSet(v),
                        IF "content-length" \in DOMAIN parts.headers
                        THEN StoI(parts.headers["content-length"])
                               = [ec |-> "ok", number |-> Len(parts.body)]
                        ELSE null \notin ToSet(parts.body)
                 PROVE  /\ last.ec = "kOk"
                        /\ parts = [command |-> source.command, headers |-> source.headers,
                                    body |-> source.body]
      BY DEF ComponentsRoundTrip
    <2>1. CameBack(parts, source, last.ec)
      BY DEF FrameInvariant, OutcomeOK
    <2> HIDE DEF parts
    <2>2. Printable(parts) /\ Complete(parts) /\ Fits(parts)
      BY DEF Printable, Complete, Fits
    <2> QED
      BY <2>1, <2>2 DEF CameBack, Carried, Contents
  <1> QED
    BY <1>1, FrameInvariantHolds, PTL
=============================================================================
