-------------------------- MODULE ChatInput_proofs --------------------------
(***************************************************************************)
(* Theorems about what becomes of a typed line, for any lines and any      *)
(* limits.                                                                 *)
(***************************************************************************)
EXTENDS QuoteLookup, TLAPS, WellFoundedInduction

(* The text between s[a] and s[b] is what a trim keeps.                    *)
Spans(s, space, a, b) ==
    /\ a \in DOMAIN s /\ b \in DOMAIN s
    /\ s[a] \notin space /\ s[b] \notin space
    /\ \A i \in DOMAIN s : s[i] \notin space => a <= i /\ i <= b

Blank(s, space) == \A i \in DOMAIN s : s[i] \in space

-----------------------------------------------------------------------------
(* What Trim returns.                                                      *)

LEMMA LeastOf ==
    ASSUME NEW T \in SUBSET Nat, T # {}
    PROVE  \E n \in T : \A k \in T : n <= k
<1>1. \E n \in T : \A k \in T : <<k, n>> \notin OpToRel(<, Nat)
  BY WFMin, NatLessThanWellFounded, Zenon
<1>2. \E n \in T : \A k \in T : ~(k < n)
  BY <1>1, Zenon DEF OpToRel
<1> QED BY <1>2

LEMMA GreatestOf ==
    ASSUME NEW n \in Nat, NEW T \in SUBSET (1 .. n), T # {}
    PROVE  \E m \in T : \A k \in T : k <= m
<1> DEFINE Rest == {k \in Nat : n - k \in T}
<1>1. Rest # {}
  <2>1. PICK m \in T : TRUE
    OBVIOUS
  <2>2. m \in Nat /\ m <= n
    OBVIOUS
  <2>3. n - m \in Nat /\ n - (n - m) = m
    BY <2>2
  <2> QED BY <2>1, <2>3
<1>2. PICK r \in Rest : \A k \in Rest : r <= k
  BY <1>1, LeastOf
<1>3. ASSUME NEW k \in T PROVE k <= n - r
  <2>1. k \in Nat /\ k <= n /\ n - (n - k) = k /\ n - k \in Nat
    OBVIOUS
  <2>2. n - k \in Rest
    BY <2>1
  <2>3. r <= n - k /\ r \in Nat
    BY <1>2, <2>2
  <2> QED BY <2>1, <2>3
<1> QED BY <1>2, <1>3

LEMMA SpanExists ==
    ASSUME NEW s \in Seq(Character), NEW space, ~Blank(s, space)
    PROVE  \E a, b \in DOMAIN s : Spans(s, space, a, b)
<1> DEFINE kept == {i \in DOMAIN s : s[i] \notin space}
<1>1. Len(s) \in Nat /\ DOMAIN s = 1 .. Len(s) /\ kept \in SUBSET (1 .. Len(s)) /\ kept # {}
  BY DEF Blank
<1>5. kept \in SUBSET Nat
  BY <1>1
<1> HIDE DEF kept
<1>2. PICK a \in kept : \A k \in kept : a <= k
  BY <1>1, <1>5, LeastOf
<1>3. PICK b \in kept : \A k \in kept : k <= b
  BY <1>1, GreatestOf
<1>4. Spans(s, space, a, b)
  BY <1>2, <1>3 DEF Spans, kept
<1> QED BY <1>4, <1>2, <1>3 DEF kept

LEMMA TrimSpan ==
    ASSUME NEW s \in Seq(Character), NEW space, NEW a, NEW b, Spans(s, space, a, b)
    PROVE  /\ a \in Nat /\ b \in Nat /\ 1 <= a /\ a <= b /\ b <= Len(s)
           /\ Trim(s, space) = SubSeq(s, a, b)
           /\ Trim(s, space) \in Seq(Character)
           /\ Trim(s, space) # <<>>
           /\ Len(Trim(s, space)) = b - a + 1
           /\ DOMAIN Trim(s, space) = 1 .. b - a + 1
           /\ \A i \in 1 .. b - a + 1 : Trim(s, space)[i] = s[a + i - 1]
<1> DEFINE kept == {i \in DOMAIN s : s[i] \notin space}
<1>1. /\ Len(s) \in Nat /\ DOMAIN s = 1 .. Len(s)
      /\ a \in kept /\ b \in kept /\ \A k \in kept : a <= k /\ k <= b
      /\ \A k \in kept : k \in Nat
  BY DEF Spans
<1>2. Min(kept) = a
  <2>1. Min(kept) \in kept /\ \A k \in kept : Min(kept) <= k
    BY <1>1, Zenon DEF Min
  <2> QED BY <1>1, <2>1
<1>3. Max(kept) = b
  <2>1. \A k \in kept : b >= k
    BY <1>1
  <2>2. Max(kept) \in kept /\ \A k \in kept : Max(kept) >= k
    BY <1>1, <2>1, Zenon DEF Max
  <2>3. Max(kept) \in Nat /\ b \in Nat /\ Max(kept) <= b /\ Max(kept) >= b
    BY <1>1, <2>2
  <2>4. \A m, n \in Nat : m <= n /\ m >= n => m = n
    OBVIOUS
  <2> QED BY <2>3, <2>4, Zenon
<1>4. Trim(s, space) = SubSeq(s, a, b)
  BY <1>1, <1>2, <1>3, Zenon DEF Trim
<1>5. a \in Nat /\ b \in Nat /\ 1 <= a /\ a <= b /\ b <= Len(s)
  BY <1>1
<1> HIDE DEF kept
<1>6. /\ SubSeq(s, a, b) \in Seq(Character)
      /\ Len(SubSeq(s, a, b)) = b - a + 1
      /\ \A i \in 1 .. b - a + 1 : SubSeq(s, a, b)[i] = s[a + i - 1]
  BY <1>5
<1>7. SubSeq(s, a, b) # <<>> /\ DOMAIN SubSeq(s, a, b) = 1 .. b - a + 1
  BY <1>5, <1>6
<1> QED BY <1>4, <1>5, <1>6, <1>7

LEMMA TrimBlank ==
    ASSUME NEW s, NEW space, Blank(s, space)
    PROVE  Trim(s, space) = <<>>
<1>1. {i \in DOMAIN s : s[i] \notin space} = {}
  BY DEF Blank
<1> QED BY <1>1, Zenon DEF Trim

(* A text with no white space at its ends is returned as it is.            *)
LEMMA TrimTight ==
    ASSUME NEW s \in Seq(Character), NEW space, s # <<>>,
           s[1] \notin space, s[Len(s)] \notin space
    PROVE  Trim(s, space) = s
<1>1. Len(s) \in Nat /\ DOMAIN s = 1 .. Len(s) /\ Len(s) >= 1
  OBVIOUS
<1>2. Spans(s, space, 1, Len(s))
  BY <1>1 DEF Spans
<1>3. Trim(s, space) = SubSeq(s, 1, Len(s))
  <2>1. \A a, b : Spans(s, space, a, b) => Trim(s, space) = SubSeq(s, a, b)
    BY TrimSpan
  <2> QED BY <1>2, <2>1, Zenon
<1> QED BY <1>1, <1>3

LEMMA TrimFirst ==
    ASSUME NEW s \in Seq(Character), NEW space, s # <<>>, Head(s) \notin space
    PROVE  Trim(s, space) # <<>> /\ Head(Trim(s, space)) = Head(s)
<1>1. Len(s) \in Nat /\ DOMAIN s = 1 .. Len(s) /\ Len(s) >= 1 /\ Head(s) = s[1]
  OBVIOUS
<1>2. ~Blank(s, space)
  BY <1>1 DEF Blank
<1>3. PICK a, b \in DOMAIN s : Spans(s, space, a, b)
  BY <1>2, SpanExists
<1>4. a = 1
  BY <1>1, <1>3 DEF Spans
<1>5. /\ Trim(s, space) # <<>> /\ Trim(s, space) \in Seq(Character)
      /\ b \in Nat /\ a <= b
      /\ \A i \in 1 .. b - a + 1 : Trim(s, space)[i] = s[a + i - 1]
  BY <1>3, TrimSpan
<1>6. 1 \in 1 .. b - a + 1 /\ a + 1 - 1 = 1
  BY <1>4, <1>5
<1>7. Trim(s, space)[1] = s[1]
  BY <1>5, <1>6
<1> QED BY <1>1, <1>5, <1>7

(* A trim leaves a text that has no white space at its ends, if anything:  *)
(* trimming it again changes nothing.                                      *)
LEMMA TrimClean ==
    ASSUME NEW s \in Seq(Character), NEW space
    PROVE  /\ Trim(s, space) \in Seq(Character)
           /\ Trim(s, space) = <<>> <=> Blank(s, space)
           /\ Trim(s, space) # <<>> => Head(Trim(s, space)) \notin space
           /\ Trim(Trim(s, space), space) = Trim(s, space)
<1> DEFINE t == Trim(s, space)
<1>1. CASE Blank(s, space)
  <2>1. t = <<>>
    BY <1>1, TrimBlank
  <2>2. Blank(<<>>, space)
    BY DEF Blank
  <2>3. Trim(<<>>, space) = <<>>
    BY <2>2, TrimBlank
  <2> QED BY <1>1, <2>1, <2>3
<1>2. CASE ~Blank(s, space)
  <2>1. PICK a, b \in DOMAIN s : Spans(s, space, a, b)
    BY <1>2, SpanExists
  <2>2. /\ a \in Nat /\ b \in Nat /\ 1 <= a /\ a <= b
        /\ t \in Seq(Character) /\ t # <<>> /\ Len(t) = b - a + 1
        /\ \A i \in 1 .. b - a + 1 : t[i] = s[a + i - 1]
    BY <2>1, TrimSpan
  <2>3. t[1] \notin space /\ t[Len(t)] \notin space /\ Head(t) = t[1]
    BY <2>1, <2>2 DEF Spans
  <2>4. Trim(t, space) = t
    BY <2>2, <2>3, TrimTight
  <2> QED BY <1>2, <2>2, <2>3, <2>4
<1> QED BY <1>1, <1>2

-----------------------------------------------------------------------------
(* The value objects.                                                      *)

LEMMA Lowering ==
    ASSUME NEW s \in Seq(Character)
    PROVE  /\ ToLower(s) \in Seq(Character)
           /\ Len(ToLower(s)) = Len(s)
           /\ \A i \in 1 .. Len(s) : ToLower(s)[i] = Lower(s[i])
<1>1. Len(s) \in Nat /\ DOMAIN s = 1 .. Len(s) /\ \A i \in 1 .. Len(s) : s[i] \in Character
  OBVIOUS
<1>2. \A c \in Character : Lower(c) \in Character
  BY DEF Lower, Character, Ticker, JsSpace, NetSpace
<1>3. ToLower(s) = [i \in 1 .. Len(s) |-> Lower(s[i])]
  BY <1>1 DEF ToLower
<1>4. ToLower(s) \in [1 .. Len(s) -> Character]
  BY <1>1, <1>2, <1>3
<1> QED BY <1>1, <1>3, <1>4

(* StockCode.Create: the value of a code is made of the allowed characters *)
(* only, in the allowed number, and creating a code of it again changes    *)
(* nothing.                                                                *)
LEMMA CodesAreSafe ==
    ASSUME NEW s \in Seq(Character), StockCode(s).ok
    PROVE  /\ StockCode(s).value \in Seq(Character)
           /\ ToSet(StockCode(s).value) \subseteq Ticker
           /\ Len(StockCode(s).value) \in 1 .. MaxCodeLength
           /\ StockCode(StockCode(s).value) = StockCode(s)
<1> DEFINE v == ToLower(Trim(s, NetSpace))
<1>1. v \in Seq(Character)
  BY TrimClean, Lowering
<1>2. Len(v) \in 1 .. MaxCodeLength /\ ToSet(v) \subseteq Ticker /\ StockCode(s) = Success(v)
  BY Zenon DEF StockCode, Success, Failure
<1>3. StockCode(s).value = v
  BY <1>2 DEF Success
<1> HIDE DEF v
<1>4. /\ Len(v) \in Nat /\ Len(v) >= 1 /\ DOMAIN v = 1 .. Len(v) /\ v # <<>>
      /\ \A i \in 1 .. Len(v) : v[i] \in Ticker
  BY <1>1, <1>2 DEF ToSet
<1>5. \A c \in Ticker : c \notin NetSpace /\ Lower(c) = c
  BY DEF Ticker, NetSpace, Lower
<1>6. Trim(v, NetSpace) = v
  BY <1>1, <1>4, <1>5, TrimTight
<1>7. ToLower(v) = v
  <2>1. \A i \in 1 .. Len(v) : ToLower(v)[i] = v[i]
    BY <1>1, <1>4, <1>5, Lowering
  <2> QED BY <1>1, <1>4, <2>1, Lowering
<1>8. StockCode(v) = Success(v)
  BY <1>2, <1>6, <1>7, Zenon DEF StockCode
<1> QED BY <1>1, <1>2, <1>3, <1>8

(* MessageContent.Create accepts what PostMessageValidator lets through,   *)
(* as it is handed on by the parser.                                       *)
LEMMA ContentsOfValidLines ==
    ASSUME NEW s \in Seq(Character)
    PROVE  /\ MessageContent(s).ok <=> Validates(s)
           /\ MessageContent(s).ok => MessageContent(s).value = Trim(s, NetSpace)
           /\ MessageContent(Trim(s, NetSpace)) = MessageContent(s)
<1> DEFINE t == Trim(s, NetSpace)
<1>1. t \in Seq(Character) /\ Trim(t, NetSpace) = t
  BY TrimClean
<1>2. Len(t) \in Nat /\ (t # <<>> <=> Len(t) >= 1) /\ MaxContentLength \in Nat
  BY <1>1, LimitAssumption
<1>3. Len(t) \in 1 .. MaxContentLength <=> Validates(s)
  BY <1>2 DEF Validates
<1>4. /\ Len(t) \in 1 .. MaxContentLength => MessageContent(s) = Success(t)
      /\ Len(t) \notin 1 .. MaxContentLength => MessageContent(s) = Failure
  BY Zenon DEF MessageContent
<1>5. MessageContent(t) = MessageContent(s)
  BY <1>1, Zenon DEF MessageContent
<1> QED BY <1>3, <1>4, <1>5 DEF Success, Failure

-----------------------------------------------------------------------------
(* The parser.                                                             *)

LEMMA Separator ==
    ASSUME NEW s \in Seq(Character)
    PROVE  \/ /\ SelectInSeq(s, LAMBDA c : c = "=") = 0
              /\ \A i \in 1 .. Len(s) : s[i] # "="
           \/ /\ SelectInSeq(s, LAMBDA c : c = "=") \in 1 .. Len(s)
              /\ s[SelectInSeq(s, LAMBDA c : c = "=")] = "="
              /\ \A i \in 1 .. Len(s) : s[i] = "=" => SelectInSeq(s, LAMBDA c : c = "=") <= i
<1> DEFINE I == {i \in 1 .. Len(s) : s[i] = "="}
<1>1. SelectInSeq(s, LAMBDA c : c = "=") = IF I # {} THEN Min(I) ELSE 0
  BY DEF SelectInSeq
<1>2. CASE I = {}
  BY <1>1, <1>2
<1>3. CASE I # {}
  <2>1. I \in SUBSET Nat
    BY DEF I
  <2>2. \E n \in I : \A k \in I : n <= k
    BY <1>3, <2>1, LeastOf
  <2>3. Min(I) \in I /\ \A k \in I : Min(I) <= k
    BY <2>2, Zenon DEF Min
  <2> QED BY <1>1, <1>3, <2>3
<1> QED BY <1>2, <1>3

NameBefore(s, e) == Trim(IF e = 0 THEN s ELSE SubSeq(s, 1, e - 1), NetSpace)
CodeAfter(s, e) == StockCode(SubSeq(s, e + 1, Len(s)))

FirstEquals(s, e) ==
    \/ e = 0 /\ \A i \in 1 .. Len(s) : s[i] # "="
    \/ e \in 1 .. Len(s) /\ s[e] = "=" /\ \A i \in 1 .. Len(s) : s[i] = "=" => e <= i

LEMMA CommandParsed ==
    ASSUME NEW s \in Seq(Character)
    PROVE  \E e \in 0 .. Len(s) :
               /\ FirstEquals(s, e)
               /\ ParseCommand(s).kind \in {"UnknownCommand", "Invalid", "StockQuote"}
               /\ ParseCommand(s) =
                      IF NameBefore(s, e) = <<>> THEN Parsed("Invalid", <<>>)
                      ELSE IF e = 0 \/ ToLower(NameBefore(s, e)) # <<"stock">>
                           THEN Parsed("UnknownCommand", ToLower(NameBefore(s, e)))
                      ELSE IF CodeAfter(s, e).ok THEN Parsed("StockQuote", CodeAfter(s, e).value)
                      ELSE Parsed("Invalid", <<>>)
<1> DEFINE e == SelectInSeq(s, LAMBDA c : c = "=")
<1>1. FirstEquals(s, e)
  BY Separator DEF FirstEquals
<1>2. e \in 0 .. Len(s)
  BY <1>1 DEF FirstEquals
<1>3. ParseCommand(s) =
          IF NameBefore(s, e) = <<>> THEN Parsed("Invalid", <<>>)
          ELSE IF e = 0 \/ ToLower(NameBefore(s, e)) # <<"stock">>
               THEN Parsed("UnknownCommand", ToLower(NameBefore(s, e)))
          ELSE IF CodeAfter(s, e).ok THEN Parsed("StockQuote", CodeAfter(s, e).value)
          ELSE Parsed("Invalid", <<>>)
  BY Zenon DEF ParseCommand, NameBefore, CodeAfter
<1> HIDE DEF e
<1>4. ParseCommand(s).kind \in {"UnknownCommand", "Invalid", "StockQuote"}
  <2> DEFINE kinds == {"UnknownCommand", "Invalid", "StockQuote"}
  <2>1. \A v : /\ Parsed("UnknownCommand", v).kind \in kinds
               /\ Parsed("Invalid", v).kind \in kinds
               /\ Parsed("StockQuote", v).kind \in kinds
    BY DEF Parsed
  <2> HIDE DEF kinds
  <2>2. ParseCommand(s).kind \in kinds
    BY <1>3, <2>1, Zenon
  <2> QED BY <2>2 DEF kinds
<1> QED BY <1>1, <1>2, <1>3, <1>4

(* What a line is, before anything is known of its command.                *)
LEMMA KindsOfLines ==
    ASSUME NEW s \in Seq(Character)
    PROVE  /\ Parse(s).kind \in {"PlainMessage", "UnknownCommand", "Invalid", "StockQuote"}
           /\ Parse(s).kind = "PlainMessage" <=>
                  \/ Trim(s, NetSpace) = <<>>
                  \/ Head(Trim(s, NetSpace)) # "/"
           /\ Parse(s).kind = "PlainMessage" => Parse(s).value = Trim(s, NetSpace)
           /\ Parse(s).kind # "PlainMessage" =>
                  /\ Parse(s) = ParseCommand(Tail(Trim(s, NetSpace)))
                  /\ Tail(Trim(s, NetSpace)) \in Seq(Character)
<1> DEFINE t == Trim(s, NetSpace)
<1>1. t \in Seq(Character)
  BY TrimClean
<1>2. CASE t = <<>> \/ Head(t) # "/"
  <2>1. Parse(s) = Parsed("PlainMessage", t)
    BY <1>2, Zenon DEF Parse
  <2> QED BY <1>2, <2>1 DEF Parsed
<1>3. CASE t # <<>> /\ Head(t) = "/"
  <2>1. Parse(s) = ParseCommand(Tail(t))
    BY <1>3, Zenon DEF Parse
  <2>2. Tail(t) \in Seq(Character)
    BY <1>1, <1>3
  <2>3. ParseCommand(Tail(t)).kind \in {"UnknownCommand", "Invalid", "StockQuote"}
    BY <2>2, CommandParsed, Zenon
  <2> QED BY <1>3, <2>1, <2>2, <2>3
<1> QED BY <1>2, <1>3

LEMMA SameText ==
    ASSUME NEW s \in Seq(Character), NEW t \in Seq(Character), Len(s) = Len(t),
           \A i \in 1 .. Len(s) : s[i] = t[i]
    PROVE  s = t
OBVIOUS

(* A trim of what stands from s[m] to s[n].                                *)
Within(s, space, m, n, a, b) ==
    /\ a \in m .. n /\ b \in m .. n
    /\ s[a] \notin space /\ s[b] \notin space
    /\ \A i \in m .. n : s[i] \notin space => a <= i /\ i <= b

LEMMA TrimWithin ==
    ASSUME NEW s \in Seq(Character), NEW space,
           NEW m \in Nat, NEW n \in Nat, 1 <= m, n <= Len(s)
    PROVE  /\ SubSeq(s, m, n) \in Seq(Character)
           /\ Trim(SubSeq(s, m, n), space) \in Seq(Character)
           /\ \A a, b : Within(s, space, m, n, a, b) =>
                  Trim(SubSeq(s, m, n), space) = SubSeq(s, a, b)
           /\ Trim(SubSeq(s, m, n), space) # <<>> =>
                  \E a, b \in m .. n : Within(s, space, m, n, a, b)
<1> DEFINE u == SubSeq(s, m, n)
<1>1. /\ u \in Seq(Character)
      /\ Len(u) = IF m <= n THEN n - m + 1 ELSE 0
      /\ DOMAIN u = 1 .. n - m + 1
      /\ \A i \in 1 .. n - m + 1 : u[i] = s[m + i - 1]
  <2>1. Len(s) \in Nat /\ \A i \in m .. n : i \in 1 .. Len(s)
    OBVIOUS
  <2> QED BY <2>1
<1>2. Trim(u, space) \in Seq(Character)
  BY <1>1, TrimClean
<1> HIDE DEF u
<1>3. ASSUME NEW a, NEW b, Within(s, space, m, n, a, b)
      PROVE  Trim(u, space) = SubSeq(s, a, b)
  <2> DEFINE x == a - m + 1
             y == b - m + 1
  <2>1. a \in Nat /\ b \in Nat /\ m <= a /\ a <= b /\ b <= n
    BY <1>3 DEF Within
  <2>2. /\ x \in 1 .. n - m + 1 /\ y \in 1 .. n - m + 1 /\ x <= y
        /\ m + x - 1 = a /\ m + y - 1 = b
    BY <2>1
  <2>3. Spans(u, space, x, y)
    <3>1. ASSUME NEW i \in 1 .. n - m + 1, u[i] \notin space PROVE x <= i /\ i <= y
      <4>1. m + i - 1 \in m .. n /\ s[m + i - 1] \notin space
        BY <1>1, <3>1
      <4>2. a <= m + i - 1 /\ m + i - 1 <= b
        BY <1>3, <4>1 DEF Within
      <4> QED BY <2>1, <4>2
    <3>2. u[x] \notin space /\ u[y] \notin space
      BY <1>1, <1>3, <2>2 DEF Within
    <3> QED BY <1>1, <2>2, <3>1, <3>2 DEF Spans
  <2> HIDE DEF x, y
  <2>4. Trim(u, space) = SubSeq(u, x, y)
    <3>1. u \in Seq(Character)
      BY <1>1
    <3>2. \A v, w : Spans(u, space, v, w) => Trim(u, space) = SubSeq(u, v, w)
      BY <3>1, TrimSpan
    <3> QED BY <2>3, <3>2, Zenon
  <2>5. SubSeq(u, x, y) = SubSeq(s, a, b)
    <3>1. /\ SubSeq(u, x, y) \in Seq(Character)
          /\ Len(SubSeq(u, x, y)) = y - x + 1
          /\ \A i \in 1 .. y - x + 1 : SubSeq(u, x, y)[i] = u[x + i - 1]
      BY <1>1, <2>2
    <3>2. /\ SubSeq(s, a, b) \in Seq(Character)
          /\ Len(SubSeq(s, a, b)) = b - a + 1
          /\ \A i \in 1 .. b - a + 1 : SubSeq(s, a, b)[i] = s[a + i - 1]
      BY <2>1
    <3>3. y - x + 1 = b - a + 1
      BY <2>1, <2>2
    <3>4. ASSUME NEW i \in 1 .. b - a + 1 PROVE u[x + i - 1] = s[a + i - 1]
      <4>1. x + i - 1 \in 1 .. n - m + 1 /\ m + (x + i - 1) - 1 = a + i - 1
        BY <2>1, <2>2
      <4> QED BY <1>1, <4>1
    <3>5. /\ Len(SubSeq(u, x, y)) = Len(SubSeq(s, a, b))
          /\ \A i \in 1 .. Len(SubSeq(u, x, y)) : SubSeq(u, x, y)[i] = SubSeq(s, a, b)[i]
      BY <3>1, <3>2, <3>3, <3>4
    <3> HIDE DEF u
    <3> QED BY <3>1, <3>2, <3>5, SameText, Zenon
  <2> QED BY <2>4, <2>5
<1>4. ASSUME Trim(u, space) # <<>>
      PROVE  \E a, b \in m .. n : Within(s, space, m, n, a, b)
  <2>1. ~Blank(u, space)
    BY <1>4, TrimBlank
  <2>2. PICK x, y \in DOMAIN u : Spans(u, space, x, y)
    BY <1>1, <2>1, SpanExists
  <2>3. m + x - 1 \in m .. n /\ m + y - 1 \in m .. n
    BY <1>1, <2>2
  <2>4. ASSUME NEW i \in m .. n, s[i] \notin space PROVE m + x - 1 <= i /\ i <= m + y - 1
    <3>1. i - m + 1 \in 1 .. n - m + 1 /\ m + (i - m + 1) - 1 = i
      OBVIOUS
    <3>2. x <= i - m + 1 /\ i - m + 1 <= y
      BY <1>1, <2>2, <2>4, <3>1 DEF Spans
    <3> QED BY <1>1, <3>2
  <2>5. s[m + x - 1] \notin space /\ s[m + y - 1] \notin space
    BY <1>1, <2>2 DEF Spans
  <2>6. Within(s, space, m, n, m + x - 1, m + y - 1)
    BY <2>3, <2>4, <2>5 DEF Within
  <2> QED BY <2>3, <2>6
<1> QED BY <1>1, <1>2, <1>3, <1>4 DEF u

LEMMA SubTexts ==
    ASSUME NEW s \in Seq(Character), NEW m \in Nat, NEW n \in Nat, 1 <= m, n <= Len(s)
    PROVE  /\ SubSeq(s, m, n) \in Seq(Character)
           /\ m <= n => Len(SubSeq(s, m, n)) = n - m + 1
           /\ n < m => Len(SubSeq(s, m, n)) = 0
           /\ \A i \in 1 .. n - m + 1 : SubSeq(s, m, n)[i] = s[m + i - 1]
<1>1. Len(s) \in Nat /\ \A i \in m .. n : i \in 1 .. Len(s)
  OBVIOUS
<1> QED BY <1>1

LEMMA SubText ==
    ASSUME NEW s \in Seq(Character), NEW a \in Nat, NEW b \in Nat, NEW m \in Nat, NEW n \in Nat,
           1 <= a, b <= Len(s), a <= b + 1, 1 <= m, n <= b - a + 1
    PROVE  SubSeq(SubSeq(s, a, b), m, n) = SubSeq(s, a + m - 1, a + n - 1)
<1> DEFINE u == SubSeq(s, a, b)
<1>1. /\ u \in Seq(Character) /\ Len(u) = b - a + 1
      /\ \A i \in 1 .. b - a + 1 : u[i] = s[a + i - 1]
  BY SubTexts
<1> HIDE DEF u
<1> DEFINE v == SubSeq(u, m, n)
           w == SubSeq(s, a + m - 1, a + n - 1)
<1>2. CASE n < m
  BY <1>1, <1>2
<1>3. CASE m <= n
  <2>1. /\ v \in Seq(Character) /\ Len(v) = n - m + 1
        /\ \A i \in 1 .. n - m + 1 : v[i] = u[m + i - 1]
    BY <1>1, <1>3, SubTexts
  <2>2. a + m - 1 \in Nat /\ a + n - 1 \in Nat /\ 1 <= a + m - 1 /\ a + n - 1 <= Len(s)
    OBVIOUS
  <2>3. /\ w \in Seq(Character) /\ Len(w) = (a + n - 1) - (a + m - 1) + 1
        /\ \A i \in 1 .. (a + n - 1) - (a + m - 1) + 1 : w[i] = s[(a + m - 1) + i - 1]
    BY <1>3, <2>2, SubTexts
  <2>4. Len(v) = Len(w) /\ Len(v) = n - m + 1
    BY <2>1, <2>3
  <2>5. ASSUME NEW i \in 1 .. n - m + 1 PROVE v[i] = w[i]
    <3>1. m + i - 1 \in 1 .. b - a + 1 /\ a + (m + i - 1) - 1 = (a + m - 1) + i - 1
      BY <1>3
    <3>2. i \in 1 .. (a + n - 1) - (a + m - 1) + 1
      OBVIOUS
    <3> QED BY <1>1, <2>1, <2>3, <3>1, <3>2
  <2> HIDE DEF v, w
  <2> QED BY <2>1, <2>3, <2>4, <2>5, SameText DEF v, w, u
<1> QED BY <1>2, <1>3

(* How a line that begins with "/" at s[a] and ends at s[b] is read.       *)
LEMMA CommandAt ==
    ASSUME NEW s \in Seq(Character), NEW a, NEW b, Spans(s, NetSpace, a, b), s[a] = "/"
    PROVE  /\ (\A i \in a + 1 .. b : s[i] # "=") => Parse(s).kind # "StockQuote"
           /\ \A q \in a + 1 .. b :
                  s[q] = "=" /\ (\A i \in a + 1 .. q - 1 : s[i] # "=") =>
                      IF /\ ToLower(Trim(SubSeq(s, a + 1, q - 1), NetSpace)) = <<"stock">>
                         /\ StockCode(SubSeq(s, q + 1, b)).ok
                      THEN Parse(s) = Parsed("StockQuote", StockCode(SubSeq(s, q + 1, b)).value)
                      ELSE Parse(s).kind # "StockQuote"
<1> DEFINE t == Trim(s, NetSpace)
           c == Tail(t)
<1>1. /\ a \in Nat /\ b \in Nat /\ 1 <= a /\ a <= b /\ b <= Len(s)
      /\ t = SubSeq(s, a, b) /\ t \in Seq(Character) /\ t # <<>> /\ Len(t) = b - a + 1
      /\ \A i \in 1 .. b - a + 1 : t[i] = s[a + i - 1]
  BY TrimSpan
<1>2. t # <<>> /\ Head(t) = "/"
  <2>1. 1 \in 1 .. b - a + 1 /\ a + 1 - 1 = a
    BY <1>1
  <2> HIDE DEF t
  <2>2. t[1] = "/"
    BY <1>1, <2>1
  <2> QED BY <1>1, <2>2
<1>3. Parse(s) = ParseCommand(c) /\ c \in Seq(Character)
  BY <1>2, KindsOfLines
<1>4. /\ Len(c) = b - a /\ Len(c) \in Nat
      /\ \A i \in 1 .. b - a : c[i] = s[a + i]
      /\ c = SubSeq(s, a + 1, b)
  <2> HIDE DEF t
  <2>1. Len(c) = b - a /\ \A i \in 1 .. b - a : c[i] = t[i + 1]
    BY <1>1
  <2>2. \A i \in 1 .. b - a : i + 1 \in 1 .. b - a + 1 /\ a + (i + 1) - 1 = a + i
    BY <1>1
  <2>3. \A i \in 1 .. b - a : c[i] = s[a + i]
    BY <1>1, <2>1, <2>2
  <2>4. SubSeq(t, 2, b - a + 1) = c
    BY <1>1, <2>1
  <2>5. SubSeq(SubSeq(s, a, b), 2, b - a + 1) = SubSeq(s, a + 2 - 1, a + (b - a + 1) - 1)
    BY <1>1, SubText
  <2>6. a + 2 - 1 = a + 1 /\ a + (b - a + 1) - 1 = b
    BY <1>1
  <2> QED BY <1>1, <2>1, <2>3, <2>4, <2>5, <2>6
<1> HIDE DEF t, c
<1>5. PICK e \in 0 .. Len(c) :
          /\ FirstEquals(c, e)
          /\ ParseCommand(c) =
                 IF NameBefore(c, e) = <<>> THEN Parsed("Invalid", <<>>)
                 ELSE IF e = 0 \/ ToLower(NameBefore(c, e)) # <<"stock">>
                      THEN Parsed("UnknownCommand", ToLower(NameBefore(c, e)))
                 ELSE IF CodeAfter(c, e).ok THEN Parsed("StockQuote", CodeAfter(c, e).value)
                 ELSE Parsed("Invalid", <<>>)
  BY <1>3, CommandParsed, Zenon
<1>6. \A v : Parsed("Invalid", v).kind # "StockQuote" /\ Parsed("UnknownCommand", v).kind # "StockQuote"
  BY DEF Parsed
<1>7. ASSUME \A i \in a + 1 .. b : s[i] # "=" PROVE Parse(s).kind # "StockQuote"
  <2>1. e = 0
    <3>1. ASSUME e \in 1 .. Len(c), c[e] = "=" PROVE FALSE
      <4>1. a + e \in a + 1 .. b /\ s[a + e] = "="
        BY <1>1, <1>4, <3>1
      <4> QED BY <1>7, <4>1
    <3> QED BY <1>5, <3>1 DEF FirstEquals
  <2> QED BY <1>3, <1>5, <1>6, <2>1, Zenon
<1>8. ASSUME NEW q \in a + 1 .. b, s[q] = "=", \A i \in a + 1 .. q - 1 : s[i] # "="
      PROVE  IF /\ ToLower(Trim(SubSeq(s, a + 1, q - 1), NetSpace)) = <<"stock">>
                /\ StockCode(SubSeq(s, q + 1, b)).ok
             THEN Parse(s) = Parsed("StockQuote", StockCode(SubSeq(s, q + 1, b)).value)
             ELSE Parse(s).kind # "StockQuote"
  <2>1. e = q - a /\ e # 0 /\ e \in 1 .. b - a
    <3>1. q - a \in 1 .. Len(c) /\ c[q - a] = "="
      <4>1. q - a \in 1 .. b - a /\ a + (q - a) = q
        BY <1>1
      <4> QED BY <1>4, <1>8, <4>1
    <3>2. e \in 1 .. Len(c) /\ c[e] = "=" /\ e <= q - a
      BY <1>5, <3>1 DEF FirstEquals
    <3>3. a + e \in Nat /\ e \in 1 .. b - a /\ s[a + e] = "=" /\ a + e <= q
      BY <1>1, <1>4, <3>1, <3>2
    <3>4. ~(a + e \in a + 1 .. q - 1)
      BY <1>8, <3>3
    <3> QED BY <1>1, <3>3, <3>4
  <2>2. NameBefore(c, e) = Trim(SubSeq(s, a + 1, q - 1), NetSpace)
    <3>1. SubSeq(SubSeq(s, a + 1, b), 1, e - 1) = SubSeq(s, (a + 1) + 1 - 1, (a + 1) + (e - 1) - 1)
      <4> DEFINE f == a + 1
                 l == e - 1
      <4>1. /\ f \in Nat /\ b \in Nat /\ l \in Nat
            /\ 1 <= f /\ b <= Len(s) /\ f <= b + 1 /\ l <= b - f + 1
        BY <1>1, <2>1
      <4> HIDE DEF f, l
      <4>2. SubSeq(SubSeq(s, f, b), 1, l) = SubSeq(s, f + 1 - 1, f + l - 1)
        BY <4>1, SubText
      <4> QED BY <4>2 DEF f, l
    <3>2. (a + 1) + 1 - 1 = a + 1 /\ (a + 1) + (e - 1) - 1 = q - 1
      BY <1>1, <2>1
    <3>3. SubSeq(c, 1, e - 1) = SubSeq(s, a + 1, q - 1)
      BY <1>4, <3>1, <3>2
    <3> QED BY <2>1, <3>3 DEF NameBefore
  <2>3. CodeAfter(c, e) = StockCode(SubSeq(s, q + 1, b))
    <3>1. SubSeq(SubSeq(s, a + 1, b), e + 1, b - a)
              = SubSeq(s, (a + 1) + (e + 1) - 1, (a + 1) + (b - a) - 1)
      <4> DEFINE f == a + 1
                 g == e + 1
                 l == b - a
      <4>1. /\ f \in Nat /\ b \in Nat /\ g \in Nat /\ l \in Nat
            /\ 1 <= f /\ b <= Len(s) /\ f <= b + 1 /\ 1 <= g /\ l <= b - f + 1
        BY <1>1, <2>1
      <4> HIDE DEF f, g, l
      <4>2. SubSeq(SubSeq(s, f, b), g, l) = SubSeq(s, f + g - 1, f + l - 1)
        BY <4>1, SubText
      <4> QED BY <4>2 DEF f, g, l
    <3>2. (a + 1) + (e + 1) - 1 = q + 1 /\ (a + 1) + (b - a) - 1 = b
      BY <1>1, <2>1
    <3>3. SubSeq(c, e + 1, Len(c)) = SubSeq(s, q + 1, b)
      BY <1>4, <3>1, <3>2
    <3> QED BY <3>3 DEF CodeAfter
  <2>4. ToLower(<<>>) # <<"stock">>
    <3>1. <<>> \in Seq(Character)
      OBVIOUS
    <3>2. Len(ToLower(<<>>)) = 0
      BY <3>1, Lowering
    <3>3. Len(<<"stock">>) # 0
      OBVIOUS
    <3> QED BY <3>2, <3>3, Zenon
  <2>5. CASE /\ ToLower(NameBefore(c, e)) = <<"stock">>
             /\ CodeAfter(c, e).ok
    <3>1. NameBefore(c, e) # <<>>
      BY <2>4, <2>5
    <3>2. ParseCommand(c) = Parsed("StockQuote", CodeAfter(c, e).value)
      BY <1>5, <2>1, <2>5, <3>1, Zenon
    <3> QED BY <1>3, <2>2, <2>3, <2>5, <3>2
  <2>6. CASE ~(/\ ToLower(NameBefore(c, e)) = <<"stock">>
               /\ CodeAfter(c, e).ok)
    <3>1. ParseCommand(c).kind # "StockQuote"
      BY <1>5, <1>6, <2>6, Zenon
    <3> QED BY <1>3, <2>2, <2>3, <2>6, <3>1
  <2> QED BY <2>5, <2>6
<1> QED BY <1>7, <1>8

LEMMA Letters ==
    /\ \A c \in Character : Lower(c) \in Ticker => c \notin NetSpace /\ c # "="
    /\ "stock" \in Ticker /\ "=" \notin NetSpace /\ "/" \notin NetSpace
    /\ "/" \notin JsSpace /\ \A c \in NetSpace : c # "/"
BY DEF Character, JsSpace, NetSpace, Ticker, Lower

(* ToLower of one kept character, and of a part of the text.               *)
LEMMA LoweredPart ==
    ASSUME NEW s \in Seq(Character), NEW m \in Nat, NEW n \in Nat, 1 <= m, m <= n, n <= Len(s)
    PROVE  /\ ToLower(SubSeq(s, m, n)) = SubSeq(ToLower(s), m, n)
           /\ ToLower(SubSeq(s, m, n)) \in Seq(Character)
           /\ Len(ToLower(SubSeq(s, m, n))) = n - m + 1
           /\ \A i \in 1 .. n - m + 1 : ToLower(SubSeq(s, m, n))[i] = Lower(s[m + i - 1])
<1> DEFINE u == SubSeq(s, m, n)
           v == ToLower(s)
           w == SubSeq(v, m, n)
<1>1. u \in Seq(Character) /\ Len(u) = n - m + 1 /\ \A i \in 1 .. n - m + 1 : u[i] = s[m + i - 1]
  BY SubTexts
<1>2. v \in Seq(Character) /\ Len(v) = Len(s) /\ \A i \in 1 .. Len(s) : v[i] = Lower(s[i])
  BY Lowering
<1> HIDE DEF u, v
<1>3. w \in Seq(Character) /\ Len(w) = n - m + 1 /\ \A i \in 1 .. n - m + 1 : w[i] = v[m + i - 1]
  BY <1>2, SubTexts
<1>4. /\ ToLower(u) \in Seq(Character) /\ Len(ToLower(u)) = n - m + 1
      /\ \A i \in 1 .. n - m + 1 : ToLower(u)[i] = Lower(u[i])
  BY <1>1, Lowering
<1>5. \A i \in 1 .. n - m + 1 : m + i - 1 \in 1 .. Len(s)
  OBVIOUS
<1>6. \A i \in 1 .. n - m + 1 : ToLower(u)[i] = Lower(s[m + i - 1]) /\ w[i] = Lower(s[m + i - 1])
  BY <1>1, <1>2, <1>3, <1>4, <1>5
<1> HIDE DEF w
<1>7. ToLower(u) = w
  BY <1>3, <1>4, <1>6, SameText
<1> QED BY <1>4, <1>6, <1>7 DEF u, v, w

(* Every line of the form of a stock command is parsed as one.             *)
LEMMA CommandsAreParsed ==
    ASSUME NEW s \in Seq(Character), NEW first \in DOMAIN s, NEW last \in DOMAIN s,
           StockCommand(s, first, last)
    PROVE  Parse(s) = Parsed("StockQuote", SubSeq(ToLower(s), first, last))
<1>1. PICK slash, word, separator \in DOMAIN s :
          /\ slash < word /\ word < separator /\ separator < first
          /\ s[slash] = "/" /\ Lower(s[word]) = "stock" /\ s[separator] = "="
          /\ \A i \in DOMAIN s \ ({slash, word, separator} \cup first .. last) : s[i] \in NetSpace
  BY DEF StockCommand
<1>2. /\ Len(s) \in Nat /\ DOMAIN s = 1 .. Len(s)
      /\ \A i \in DOMAIN s : s[i] \in Character
      /\ first <= last /\ last - first < MaxCodeLength
      /\ \A i \in first .. last : Lower(s[i]) \in Ticker
  BY DEF StockCommand
<1>3. /\ \A i \in first .. last : i \in DOMAIN s /\ s[i] \notin NetSpace
      /\ s[word] \notin NetSpace /\ s[word] # "="
  BY <1>1, <1>2, Letters
<1>4. Spans(s, NetSpace, slash, last)
  BY <1>1, <1>2, <1>3, Letters DEF Spans
<1>5. separator \in slash + 1 .. last /\ \A i \in slash + 1 .. separator - 1 : s[i] # "="
  <2>1. ASSUME NEW i \in slash + 1 .. separator - 1, i # word PROVE s[i] \in NetSpace
    <3>1. /\ i \in Nat /\ slash < i /\ i < separator /\ 1 <= slash /\ separator <= Len(s)
          /\ separator < first
      BY <1>1, <1>2
    <3>2. i \in DOMAIN s /\ i # slash /\ i # separator /\ i \notin first .. last
      BY <1>2, <3>1
    <3> QED BY <1>1, <2>1, <3>2
  <2> QED BY <1>1, <1>2, <1>3, <2>1, Letters
<1>6. ToLower(Trim(SubSeq(s, slash + 1, separator - 1), NetSpace)) = <<"stock">>
  <2> DEFINE m == slash + 1
             n == separator - 1
  <2>1. m \in Nat /\ n \in Nat /\ 1 <= m /\ n <= Len(s) /\ word \in m .. n
    BY <1>1, <1>2
  <2>2. Within(s, NetSpace, m, n, word, word)
    BY <1>1, <1>2, <1>3 DEF Within
  <2> HIDE DEF m, n
  <2>3. Trim(SubSeq(s, m, n), NetSpace) = SubSeq(s, word, word)
    <3>1. \A a, b : Within(s, NetSpace, m, n, a, b) =>
                        Trim(SubSeq(s, m, n), NetSpace) = SubSeq(s, a, b)
      BY <2>1, TrimWithin
    <3> QED BY <2>2, <3>1, Zenon
  <2>4. /\ ToLower(SubSeq(s, word, word)) \in Seq(Character)
        /\ Len(ToLower(SubSeq(s, word, word))) = word - word + 1
        /\ \A i \in 1 .. word - word + 1 :
               ToLower(SubSeq(s, word, word))[i] = Lower(s[word + i - 1])
    <3>1. word \in Nat /\ 1 <= word /\ word <= word /\ word <= Len(s)
      BY <1>2
    <3> QED BY <3>1, LoweredPart
  <2>5. word - word + 1 = 1 /\ word + 1 - 1 = word /\ 1 \in 1 .. 1
    BY <1>2
  <2>6. ToLower(SubSeq(s, word, word)) = <<"stock">>
    BY <1>1, <2>4, <2>5
  <2> QED BY <2>3, <2>6 DEF m, n
<1>7. StockCode(SubSeq(s, separator + 1, last)) = Success(SubSeq(ToLower(s), first, last))
  <2> DEFINE m == separator + 1
             code == ToLower(SubSeq(s, first, last))
  <2>1. m \in Nat /\ last \in Nat /\ 1 <= m /\ last <= Len(s) /\ first \in m .. last
    BY <1>1, <1>2
  <2>2. Within(s, NetSpace, m, last, first, last)
    BY <1>1, <1>2, <1>3 DEF Within
  <2> HIDE DEF m
  <2>3. Trim(SubSeq(s, m, last), NetSpace) = SubSeq(s, first, last)
    <3>1. \A a, b : Within(s, NetSpace, m, last, a, b) =>
                        Trim(SubSeq(s, m, last), NetSpace) = SubSeq(s, a, b)
      BY <2>1, TrimWithin
    <3> QED BY <2>2, <3>1, Zenon
  <2>4. /\ code = SubSeq(ToLower(s), first, last)
        /\ code \in Seq(Character) /\ Len(code) = last - first + 1
        /\ \A i \in 1 .. last - first + 1 : code[i] = Lower(s[first + i - 1])
    <3>1. first \in Nat /\ last \in Nat /\ 1 <= first /\ first <= last /\ last <= Len(s)
      BY <1>2
    <3> QED BY <3>1, LoweredPart
  <2> HIDE DEF code
  <2>5. ToSet(code) \subseteq Ticker
    <3>1. ASSUME NEW i \in 1 .. last - first + 1 PROVE code[i] \in Ticker
      <4>1. first + i - 1 \in first .. last
        BY <1>2
      <4> QED BY <1>2, <2>4, <4>1
    <3> QED BY <2>4, <3>1 DEF ToSet
  <2>6. Len(code) \in 1 .. MaxCodeLength
    BY <1>2, <2>4, LimitAssumption
  <2>7. StockCode(SubSeq(s, m, last)) = Success(code)
    BY <2>3, <2>5, <2>6, Zenon DEF StockCode, code
  <2> QED BY <2>4, <2>7 DEF m
<1>8. StockCode(SubSeq(s, separator + 1, last)).ok
      /\ StockCode(SubSeq(s, separator + 1, last)).value = SubSeq(ToLower(s), first, last)
  BY <1>7 DEF Success
<1> QED BY <1>1, <1>4, <1>5, <1>6, <1>8, CommandAt

(* And no other line is.                                                   *)
LEMMA ParsedCommandsHaveTheForm ==
    ASSUME NEW s \in Seq(Character), Parse(s).kind = "StockQuote"
    PROVE  \E first, last \in DOMAIN s : StockCommand(s, first, last)
<1>1. /\ Trim(s, NetSpace) # <<>> /\ Head(Trim(s, NetSpace)) = "/"
  BY KindsOfLines
<1>2. PICK a, b \in DOMAIN s : Spans(s, NetSpace, a, b)
  BY <1>1, TrimBlank, SpanExists
<1>3. /\ Len(s) \in Nat /\ DOMAIN s = 1 .. Len(s)
      /\ \A i \in DOMAIN s : s[i] \in Character
      /\ a \in Nat /\ b \in Nat /\ 1 <= a /\ a <= b /\ b <= Len(s)
  BY <1>2 DEF Spans
<1>4. s[a] = "/"
  <2> DEFINE t == Trim(s, NetSpace)
  <2>1. /\ t \in Seq(Character) /\ \A i \in 1 .. b - a + 1 : t[i] = s[a + i - 1]
    BY <1>2, TrimSpan
  <2>2. 1 \in 1 .. b - a + 1 /\ a + 1 - 1 = a
    BY <1>3
  <2>3. t # <<>> /\ Head(t) = "/"
    BY <1>1
  <2> HIDE DEF t
  <2>4. Head(t) = t[1]
    BY <2>1, <2>3
  <2> QED BY <2>1, <2>2, <2>3, <2>4
<1>5. PICK q \in a + 1 .. b : s[q] = "=" /\ \A i \in a + 1 .. q - 1 : s[i] # "="
  <2> DEFINE equals == {i \in a + 1 .. b : s[i] = "="}
  <2>1. equals # {}
    <3>1. (\A i \in a + 1 .. b : s[i] # "=") => Parse(s).kind # "StockQuote"
      BY <1>2, <1>4, CommandAt
    <3> QED BY <3>1
  <2>2. equals \in SUBSET Nat
    BY <1>3
  <2>3. PICK q \in equals : \A i \in equals : q <= i
    <3> HIDE DEF equals
    <3> QED BY <2>1, <2>2, LeastOf
  <2>4. ASSUME NEW i \in a + 1 .. q - 1 PROVE s[i] # "="
    <3>1. i \in Nat /\ i < q /\ i \in a + 1 .. b
      BY <1>3, <2>3
    <3>2. i \notin equals
      BY <2>3, <3>1
    <3> QED BY <3>1, <3>2
  <2> QED BY <2>3, <2>4
<1> DEFINE m == a + 1
           n == q - 1
           k == q + 1
           name == Trim(SubSeq(s, m, n), NetSpace)
           code == Trim(SubSeq(s, k, b), NetSpace)
<1>6. ToLower(name) = <<"stock">> /\ StockCode(SubSeq(s, k, b)).ok
  BY <1>2, <1>4, <1>5, CommandAt
<1>7. /\ m \in Nat /\ n \in Nat /\ k \in Nat /\ q \in Nat
      /\ 1 <= m /\ n <= Len(s) /\ 1 <= k /\ a < q /\ q <= b /\ m <= n + 1
      /\ \A i \in Nat : m <= i /\ i <= n <=> a < i /\ i < q
      /\ \A i \in Nat : k <= i <=> q < i
  BY <1>3, <1>5
<1> HIDE DEF m, n, k
<1>8. Len(name) = 1 /\ name # <<>>
  <2>1. name \in Seq(Character)
    BY <1>7, TrimWithin
  <2> HIDE DEF name
  <2>2. Len(ToLower(name)) = Len(name)
    BY <2>1, Lowering
  <2>3. Len(<<"stock">>) = 1
    OBVIOUS
  <2>4. Len(name) = 1
    BY <1>6, <2>2, <2>3
  <2>5. Len(<<>>) # 1
    OBVIOUS
  <2> QED BY <2>4, <2>5, Zenon
<1>9. PICK word, word2 \in m .. n : Within(s, NetSpace, m, n, word, word2) /\ name = SubSeq(s, word, word2)
  <2>1. \E v, w \in m .. n : Within(s, NetSpace, m, n, v, w)
    BY <1>7, <1>8, TrimWithin
  <2>2. \A v, w : Within(s, NetSpace, m, n, v, w) => name = SubSeq(s, v, w)
    BY <1>7, TrimWithin
  <2> HIDE DEF name
  <2> QED BY <2>1, <2>2
<1>10. /\ word = word2 /\ word \in Nat /\ a < word /\ word < q /\ word <= Len(s)
       /\ Lower(s[word]) = "stock"
       /\ \A i \in Nat : a < i /\ i < q /\ s[i] \notin NetSpace => i = word
  <2>1. /\ word \in Nat /\ word2 \in Nat /\ 1 <= word /\ word <= word2 /\ word2 <= Len(s)
        /\ a < word /\ word < q
    BY <1>3, <1>7, <1>9 DEF Within
  <2>2. Len(SubSeq(s, word, word2)) = word2 - word + 1
    BY <2>1, SubTexts
  <2>3. word = word2
    BY <1>8, <1>9, <2>1, <2>2
  <2>4. \A i \in 1 .. word2 - word + 1 : ToLower(SubSeq(s, word, word2))[i] = Lower(s[word + i - 1])
    BY <2>1, LoweredPart
  <2>5. 1 \in 1 .. word2 - word + 1 /\ word + 1 - 1 = word
    BY <2>1
  <2>6. ToLower(SubSeq(s, word, word2))[1] = "stock"
    BY <1>6, <1>9
  <2>7. Lower(s[word]) = "stock"
    BY <2>4, <2>5, <2>6
  <2>8. ASSUME NEW i \in Nat, a < i, i < q, s[i] \notin NetSpace PROVE i = word
    <3>1. i \in m .. n
      BY <1>7, <2>8
    <3>2. word <= i /\ i <= word
      BY <1>9, <2>3, <2>8, <3>1 DEF Within
    <3> QED BY <2>1, <3>2
  <2> QED BY <2>1, <2>3, <2>7, <2>8
<1>11. /\ code \in Seq(Character)
       /\ Len(ToLower(code)) \in 1 .. MaxCodeLength /\ ToSet(ToLower(code)) \subseteq Ticker
       /\ Len(ToLower(code)) = Len(code)
       /\ code # <<>>
  <2>1. code \in Seq(Character)
    BY <1>3, <1>7, TrimWithin
  <2>2. Len(ToLower(code)) \in 1 .. MaxCodeLength /\ ToSet(ToLower(code)) \subseteq Ticker
    BY <1>6, Zenon DEF StockCode, Failure
  <2> HIDE DEF code
  <2>3. Len(ToLower(code)) = Len(code)
    BY <2>1, Lowering
  <2> QED BY <2>1, <2>2, <2>3, LimitAssumption
<1>12. PICK first, last \in k .. b : Within(s, NetSpace, k, b, first, last) /\ code = SubSeq(s, first, last)
  <2>1. \E v, w \in k .. b : Within(s, NetSpace, k, b, v, w)
    BY <1>3, <1>7, <1>11, TrimWithin
  <2>2. \A v, w : Within(s, NetSpace, k, b, v, w) => code = SubSeq(s, v, w)
    <3>1. k \in Nat /\ b \in Nat /\ 1 <= k /\ b <= Len(s)
      BY <1>3, <1>7
    <3> QED BY <3>1, TrimWithin
  <2> HIDE DEF code
  <2> QED BY <2>1, <2>2
<1>13. /\ first \in Nat /\ last \in Nat /\ q < first /\ first <= last /\ last <= b
       /\ \A i \in Nat : q < i /\ i <= b /\ s[i] \notin NetSpace => i \in first .. last
  <2>1. first \in Nat /\ last \in Nat /\ q < first /\ first <= last /\ last <= b
    BY <1>3, <1>7, <1>12 DEF Within
  <2>2. ASSUME NEW i \in Nat, q < i, i <= b, s[i] \notin NetSpace PROVE i \in first .. last
    <3>1. i \in k .. b
      BY <1>3, <1>7, <2>2
    <3>2. first <= i /\ i <= last
      BY <1>12, <2>2, <3>1 DEF Within
    <3> QED BY <2>1, <3>2
  <2> QED BY <2>1, <2>2
<1>14. /\ last - first < MaxCodeLength
       /\ \A i \in first .. last : Lower(s[i]) \in Ticker
  <2>1. 1 <= first /\ last <= Len(s)
    BY <1>3, <1>7, <1>13
  <2> DEFINE low == ToLower(SubSeq(s, first, last))
  <2>2. /\ low \in Seq(Character) /\ Len(low) = last - first + 1
        /\ \A i \in 1 .. last - first + 1 : low[i] = Lower(s[first + i - 1])
    BY <1>13, <2>1, LoweredPart
  <2>3. Len(low) \in 1 .. MaxCodeLength /\ ToSet(low) \subseteq Ticker
    BY <1>11, <1>12, Zenon
  <2> HIDE DEF low
  <2>4. last - first < MaxCodeLength
    BY <1>13, <2>2, <2>3, LimitAssumption
  <2>5. ASSUME NEW i \in first .. last PROVE Lower(s[i]) \in Ticker
    <3>1. i - first + 1 \in 1 .. last - first + 1 /\ first + (i - first + 1) - 1 = i
      BY <1>13
    <3>2. low[i - first + 1] \in Ticker
      BY <2>2, <2>3, <3>1 DEF ToSet
    <3> QED BY <2>2, <3>1, <3>2
  <2> QED BY <2>4, <2>5
<1>15. ASSUME NEW i \in DOMAIN s \ ({a, word, q} \cup first .. last) PROVE s[i] \in NetSpace
  <2> SUFFICES ASSUME s[i] \notin NetSpace PROVE FALSE
    OBVIOUS
  <2>1. i \in Nat /\ a <= i /\ i <= b
    BY <1>2, <1>3 DEF Spans
  <2>2. i # a /\ i # word /\ i # q /\ i \notin first .. last
    BY <1>15
  <2>3. a < i /\ (i < q \/ q < i)
    BY <1>3, <1>7, <2>1, <2>2
  <2> QED BY <1>10, <1>13, <2>1, <2>2, <2>3
<1>16. /\ first \in DOMAIN s /\ last \in DOMAIN s /\ a \in DOMAIN s /\ word \in DOMAIN s
       /\ q \in DOMAIN s /\ a < word /\ word < q /\ q < first
  BY <1>3, <1>7, <1>10, <1>13
<1>17. StockCommand(s, first, last)
  BY <1>4, <1>5, <1>10, <1>13, <1>14, <1>15, <1>16, Zenon DEF StockCommand
<1> QED BY <1>16, <1>17

-----------------------------------------------------------------------------
(* Room names.                                                             *)

(* One step of CollapseWhitespace over t.                                  *)
Grown(t, f, n) ==
    IF n = 0 THEN <<>>
    ELSE IF t[n] \in NetSpace THEN f[n - 1]
    ELSE IF n > 1 /\ t[n - 1] \in NetSpace /\ f[n - 1] # <<>>
         THEN f[n - 1] \o <<"space", t[n]>>
         ELSE Append(f[n - 1], t[n])

LEMMA BuildingExists ==
    ASSUME NEW t, NEW m \in Nat
    PROVE  \E f : f = [n \in 0 .. m |-> Grown(t, f, n)]
<1> DEFINE Bad == {k \in Nat : ~ \E f : f = [n \in 0 .. k |-> Grown(t, f, n)]}
<1> SUFFICES ASSUME Bad # {} PROVE FALSE
  OBVIOUS
<1>1. PICK k \in Bad : \A l \in Bad : k <= l
  BY LeastOf
<1>2. CASE k = 0
  <2> DEFINE f == [n \in 0 .. 0 |-> <<>>]
  <2>1. \A h, n : n \in 0 .. 0 => Grown(t, h, n) = <<>>
    <3>1. \A n : n \in 0 .. 0 => n = 0
      OBVIOUS
    <3>2. \A h, n : n = 0 => Grown(t, h, n) = <<>>
      BY Zenon DEF Grown
    <3> QED BY <3>1, <3>2, Zenon
  <2>2. f = [n \in 0 .. 0 |-> Grown(t, f, n)]
    <3>1. \A n \in 0 .. 0 : Grown(t, f, n) = <<>>
      <4> HIDE DEF f
      <4> QED BY <2>1, Zenon
    <3>2. [n \in 0 .. 0 |-> Grown(t, f, n)] = [n \in 0 .. 0 |-> <<>>]
      <4> HIDE DEF f
      <4> QED BY <3>1, Zenon
    <3> QED BY <3>2, Zenon
  <2>3. \E h : h = [n \in 0 .. 0 |-> Grown(t, h, n)]
    BY <2>2, Zenon
  <2> QED BY <1>1, <1>2, <2>3
<1>3. CASE k # 0
  <2>1. k \in Nat /\ k - 1 \in Nat /\ ~(k <= k - 1)
    BY <1>1, <1>3
  <2>2. k - 1 \notin Bad
    BY <1>1, <2>1
  <2>3. PICK g : g = [n \in 0 .. k - 1 |-> Grown(t, g, n)]
    BY <2>1, <2>2
  <2> DEFINE f == [n \in 0 .. k |-> IF n = k THEN Grown(t, g, k) ELSE g[n]]
  <2>4. ASSUME NEW n \in 0 .. k PROVE f[n] = Grown(t, f, n)
    <3>1. n # 0 => f[n - 1] = g[n - 1]
      BY <2>1
    <3>2. Grown(t, f, n) = Grown(t, g, n)
      <4>1. CASE n = 0
        BY <4>1 DEF Grown
      <4>2. CASE n # 0
        <5> HIDE DEF f
        <5> QED BY <3>1, <4>2 DEF Grown
      <4> QED BY <4>1, <4>2
    <3>3. CASE n = k
      BY <3>2, <3>3
    <3>4. CASE n # k
      <4>1. n \in 0 .. k - 1
        BY <2>1, <3>4
      <4>2. g[n] = Grown(t, g, n)
        BY <2>3, <4>1, Zenon
      <4>3. f[n] = g[n]
        BY <3>4
      <4> QED BY <3>2, <4>2, <4>3
    <3> QED BY <3>3, <3>4
  <2>5. f = [n \in 0 .. k |-> Grown(t, f, n)]
    <3>1. f = [n \in 0 .. k |-> f[n]]
      BY Zenon
    <3> HIDE DEF f
    <3>2. [n \in 0 .. k |-> f[n]] = [n \in 0 .. k |-> Grown(t, f, n)]
      BY <2>4, Zenon
    <3> QED BY <3>1, <3>2
  <2>6. \E h : h = [n \in 0 .. k |-> Grown(t, h, n)]
    BY <2>5, Zenon
  <2> QED BY <1>1, <2>6
<1> QED BY <1>2, <1>3

LEMMA CollapsingBuilds ==
    ASSUME NEW s \in Seq(Character)
    PROVE  LET t == Trim(s, NetSpace) IN
           \/ ~NeedsCollapsing(t) /\ CollapseWhitespace(s) = t
           \/ \E f : /\ f = [n \in 0 .. Len(t) |-> Grown(t, f, n)]
                     /\ CollapseWhitespace(s) = f[Len(t)]
<1> DEFINE t == Trim(s, NetSpace)
           f == CHOOSE f : f = [n \in 0 .. Len(t) |-> Grown(t, f, n)]
<1>1. t \in Seq(Character)
  BY TrimClean
<1>2. Len(t) \in Nat
  <2> HIDE DEF t
  <2> QED BY <1>1
<1>3. f = [n \in 0 .. Len(t) |-> Grown(t, f, n)]
  <2>1. \E h : h = [n \in 0 .. Len(t) |-> Grown(t, h, n)]
    BY <1>2, BuildingExists
  <2> QED BY <2>1, Zenon
<1>4. CollapseWhitespace(s) = IF NeedsCollapsing(t) THEN f[Len(t)] ELSE t
  BY Zenon DEF CollapseWhitespace, Grown
<1> HIDE DEF f
<1> QED BY <1>3, <1>4, Zenon

(* White space only as a single space between two visible characters.      *)
Tidy(b) ==
    \A i \in 1 .. Len(b) :
        b[i] \in NetSpace => b[i] = "space" /\ 1 < i /\ i < Len(b) /\ b[i - 1] \notin NetSpace

(* Every visible character of t, up to the n-th, in its place in b.        *)
Placed(t, n, b, place) ==
    /\ place \in [1 .. Len(b) -> 1 .. n]
    /\ \A i, j \in 1 .. Len(b) : i < j => place[i] < place[j]
    /\ \A i \in 1 .. Len(b) : b[i] # "space" => b[i] = t[place[i]]
    /\ \A j \in 1 .. n : t[j] \notin NetSpace =>
           \E i \in 1 .. Len(b) : place[i] = j /\ b[i] = t[j]

Collapsed(t, n, b) ==
    b \in Seq(Character) /\ Tidy(b) /\ \E place : Placed(t, n, b, place)

LEMMA CollapseSpace ==
    ASSUME NEW t \in Seq(Character), NEW n \in 1 .. Len(t), t[n] \in NetSpace,
           NEW b, Collapsed(t, n - 1, b)
    PROVE  Collapsed(t, n, b)
<1>1. b \in Seq(Character) /\ Len(b) \in Nat /\ n \in Nat
  BY DEF Collapsed
<1>2. PICK place : Placed(t, n - 1, b, place)
  BY DEF Collapsed
<1>3. place \in [1 .. Len(b) -> 1 .. n]
  BY <1>1, <1>2 DEF Placed
<1>4. ASSUME NEW j \in 1 .. n, t[j] \notin NetSpace
      PROVE  \E i \in 1 .. Len(b) : place[i] = j /\ b[i] = t[j]
  <2>1. j # n
    BY <1>4
  <2>2. j \in 1 .. n - 1
    BY <1>1, <2>1
  <2> QED BY <1>2, <1>4, <2>2 DEF Placed
<1>5. Placed(t, n, b, place)
  BY <1>2, <1>3, <1>4 DEF Placed
<1> QED BY <1>5 DEF Collapsed

(* The places of what has been built lie before a white space that follows.*)
LEMMA CollapseVisible ==
    ASSUME NEW t \in Seq(Character), NEW n \in 1 .. Len(t), t[n] \notin NetSpace,
           NEW b, Collapsed(t, n - 1, b)
    PROVE  Collapsed(t, n, Append(b, t[n]))
<1> DEFINE l == Len(b)
           d == Append(b, t[n])
<1>1. b \in Seq(Character) /\ l \in Nat /\ n \in Nat /\ t[n] \in Character /\ Tidy(b)
  BY DEF Collapsed
<1>2. PICK place : Placed(t, n - 1, b, place)
  BY DEF Collapsed
<1>3. /\ d \in Seq(Character) /\ Len(d) = l + 1 /\ d[l + 1] = t[n]
      /\ \A i \in 1 .. l : d[i] = b[i]
  BY <1>1
<1>4. Tidy(d)
  <2> SUFFICES ASSUME NEW i \in 1 .. l + 1, d[i] \in NetSpace
               PROVE  d[i] = "space" /\ 1 < i /\ i < l + 1 /\ d[i - 1] \notin NetSpace
    BY <1>3 DEF Tidy
  <2>1. i \in 1 .. l /\ d[i] = b[i]
    BY <1>1, <1>3
  <2>2. b[i] = "space" /\ 1 < i /\ i < l /\ b[i - 1] \notin NetSpace
    BY <1>1, <2>1 DEF Tidy
  <2>3. i - 1 \in 1 .. l
    BY <1>1, <2>1, <2>2
  <2> QED BY <1>1, <1>3, <2>1, <2>2, <2>3
<1> DEFINE next == [i \in 1 .. l + 1 |-> IF i = l + 1 THEN n ELSE place[i]]
<1> HIDE DEF d, l
<1>5. /\ place \in [1 .. l -> 1 .. n - 1]
      /\ \A i, j \in 1 .. l : i < j => place[i] < place[j]
      /\ \A i \in 1 .. l : b[i] # "space" => b[i] = t[place[i]]
      /\ \A j \in 1 .. n - 1 : t[j] \notin NetSpace =>
             \E i \in 1 .. l : place[i] = j /\ b[i] = t[j]
  BY <1>2 DEF Placed, l
<1>6. \A i \in 1 .. l : next[i] = place[i] /\ next[i] \in Nat /\ next[i] < n
  BY <1>1, <1>5
<1>7. next[l + 1] = n /\ next \in [1 .. l + 1 -> 1 .. n]
  BY <1>1, <1>5
<1> HIDE DEF next
<1>8. \A i \in 1 .. l + 1 : i = l + 1 \/ i \in 1 .. l
  BY <1>1
<1>9. Placed(t, n, d, next)
  <2>1. ASSUME NEW i \in 1 .. l + 1, NEW j \in 1 .. l + 1, i < j PROVE next[i] < next[j]
    <3>1. i \in 1 .. l
      BY <1>1, <2>1
    <3> QED BY <1>1, <1>5, <1>6, <1>7, <1>8, <2>1, <3>1
  <2>2. ASSUME NEW i \in 1 .. l + 1, d[i] # "space" PROVE d[i] = t[next[i]]
    BY <1>3, <1>5, <1>6, <1>7, <1>8, <2>2
  <2>3. ASSUME NEW j \in 1 .. n, t[j] \notin NetSpace
        PROVE  \E i \in 1 .. l + 1 : next[i] = j /\ d[i] = t[j]
    <3>1. CASE j = n
      <4>1. l + 1 \in 1 .. l + 1
        BY <1>1
      <4> QED BY <1>3, <1>7, <3>1, <4>1
    <3>2. CASE j # n
      <4>1. j \in 1 .. n - 1
        BY <1>1, <3>2
      <4>2. PICK i \in 1 .. l : place[i] = j /\ b[i] = t[j]
        BY <1>5, <2>3, <4>1
      <4>3. i \in 1 .. l + 1
        BY <1>1
      <4> QED BY <1>3, <1>6, <4>2, <4>3
    <3> QED BY <3>1, <3>2
  <2> QED BY <1>3, <1>7, <2>1, <2>2, <2>3 DEF Placed
<1> QED BY <1>3, <1>4, <1>9 DEF Collapsed, d

LEMMA CollapseGap ==
    ASSUME NEW t \in Seq(Character), NEW n \in 1 .. Len(t), t[n] \notin NetSpace,
           n > 1, t[n - 1] \in NetSpace,
           NEW b, b # <<>>, Collapsed(t, n - 1, b)
    PROVE  Collapsed(t, n, b \o <<"space", t[n]>>)
<1> DEFINE l == Len(b)
           d == b \o <<"space", t[n]>>
<1>1. /\ b \in Seq(Character) /\ l \in Nat /\ l >= 1 /\ n \in Nat /\ t[n] \in Character /\ Tidy(b)
      /\ "space" \in Character /\ "space" \in NetSpace
  BY DEF Collapsed, Character, NetSpace
<1>2. PICK place : Placed(t, n - 1, b, place)
  BY DEF Collapsed
<1>3. /\ d \in Seq(Character) /\ Len(d) = l + 2 /\ d[l + 1] = "space" /\ d[l + 2] = t[n]
      /\ \A i \in 1 .. l : d[i] = b[i]
  BY <1>1
<1>4. b[l] \notin NetSpace
  BY <1>1 DEF Tidy
<1>5. Tidy(d)
  <2> SUFFICES ASSUME NEW i \in 1 .. l + 2, d[i] \in NetSpace
               PROVE  d[i] = "space" /\ 1 < i /\ i < l + 2 /\ d[i - 1] \notin NetSpace
    BY <1>3 DEF Tidy
  <2>1. CASE i \in 1 .. l
    <3>1. b[i] = "space" /\ 1 < i /\ i < l /\ b[i - 1] \notin NetSpace
      BY <1>1, <1>3, <2>1 DEF Tidy
    <3>2. i - 1 \in 1 .. l
      BY <1>1, <2>1, <3>1
    <3> QED BY <1>1, <1>3, <2>1, <3>1, <3>2
  <2>2. CASE i = l + 1
    <3>1. i - 1 = l /\ l \in 1 .. l
      BY <1>1, <2>2
    <3> QED BY <1>1, <1>3, <1>4, <2>2, <3>1
  <2>3. i # l + 2
    BY <1>3
  <2>4. i \in 1 .. l \/ i = l + 1 \/ i = l + 2
    BY <1>1
  <2> QED BY <2>1, <2>2, <2>3, <2>4, Zenon
<1> DEFINE next == [i \in 1 .. l + 2 |-> IF i = l + 2 THEN n ELSE IF i = l + 1 THEN n - 1 ELSE place[i]]
<1> HIDE DEF d, l
<1>6. /\ place \in [1 .. l -> 1 .. n - 1]
      /\ \A i, j \in 1 .. l : i < j => place[i] < place[j]
      /\ \A i \in 1 .. l : b[i] # "space" => b[i] = t[place[i]]
      /\ \A j \in 1 .. n - 1 : t[j] \notin NetSpace =>
             \E i \in 1 .. l : place[i] = j /\ b[i] = t[j]
  BY <1>2 DEF Placed, l
<1>7. \A i \in 1 .. l : place[i] \in Nat /\ place[i] < n - 1
  <2>1. l \in 1 .. l /\ b[l] # "space"
    BY <1>1, <1>4
  <2>2. place[l] \in Nat /\ place[l] <= n - 1 /\ place[l] # n - 1
    BY <1>1, <1>4, <1>6, <2>1
  <2>3. ASSUME NEW i \in 1 .. l PROVE place[i] \in Nat /\ place[i] < n - 1
    <3>1. place[i] \in Nat
      BY <1>6
    <3>2. i = l \/ i < l
      BY <1>1
    <3>3. place[i] = place[l] \/ place[i] < place[l]
      BY <1>6, <2>1, <3>2
    <3> QED BY <1>1, <2>2, <3>1, <3>3
  <2> QED BY <2>3
<1>8. \A i \in 1 .. l : next[i] = place[i]
  BY <1>1
<1>9. next[l + 1] = n - 1 /\ next[l + 2] = n /\ next \in [1 .. l + 2 -> 1 .. n]
  BY <1>1, <1>6
<1> HIDE DEF next
<1>10. \A i \in 1 .. l + 2 : i = l + 2 \/ i = l + 1 \/ i \in 1 .. l
  BY <1>1
<1>11. Placed(t, n, d, next)
  <2>1. ASSUME NEW i \in 1 .. l + 2, NEW j \in 1 .. l + 2, i < j PROVE next[i] < next[j]
    <3>1. CASE i \in 1 .. l /\ j \in 1 .. l
      BY <1>6, <1>8, <2>1, <3>1
    <3>2. CASE i \in 1 .. l /\ j \notin 1 .. l
      <4>1. next[i] \in Nat /\ next[i] < n - 1
        BY <1>7, <1>8, <3>2
      <4>2. next[j] = n - 1 \/ next[j] = n
        BY <1>9, <1>10, <3>2
      <4> QED BY <1>1, <4>1, <4>2
    <3>3. CASE i \notin 1 .. l
      <4>1. i = l + 1 /\ j = l + 2
        BY <1>1, <1>10, <2>1, <3>3
      <4> QED BY <1>1, <1>9, <4>1
    <3> QED BY <3>1, <3>2, <3>3
  <2>2. ASSUME NEW i \in 1 .. l + 2, d[i] # "space" PROVE d[i] = t[next[i]]
    BY <1>3, <1>6, <1>8, <1>9, <1>10, <2>2 DEF l
  <2>3. ASSUME NEW j \in 1 .. n, t[j] \notin NetSpace
        PROVE  \E i \in 1 .. l + 2 : next[i] = j /\ d[i] = t[j]
    <3>1. CASE j = n
      <4>1. l + 2 \in 1 .. l + 2
        BY <1>1
      <4> QED BY <1>3, <1>9, <3>1, <4>1
    <3>2. CASE j # n
      <4>1. j \in 1 .. n - 1
        BY <1>1, <3>2
      <4>2. PICK i \in 1 .. l : place[i] = j /\ b[i] = t[j]
        BY <1>6, <2>3, <4>1
      <4>3. i \in 1 .. l + 2
        BY <1>1
      <4> QED BY <1>3, <1>8, <4>2, <4>3
    <3> QED BY <3>1, <3>2
  <2> QED BY <1>3, <1>9, <2>1, <2>2, <2>3 DEF Placed
<1> QED BY <1>3, <1>5, <1>11 DEF Collapsed, d

LEMMA GrowsCollapsed ==
    ASSUME NEW t \in Seq(Character), NEW f, NEW n \in 1 .. Len(t), Collapsed(t, n - 1, f[n - 1])
    PROVE  Collapsed(t, n, Grown(t, f, n))
<1>1. n # 0
  OBVIOUS
<1>2. CASE t[n] \in NetSpace
  <2>1. Grown(t, f, n) = f[n - 1]
    BY <1>1, <1>2, Zenon DEF Grown
  <2> QED BY <1>2, <2>1, CollapseSpace
<1>3. CASE t[n] \notin NetSpace /\ n > 1 /\ t[n - 1] \in NetSpace /\ f[n - 1] # <<>>
  <2>1. Grown(t, f, n) = f[n - 1] \o <<"space", t[n]>>
    BY <1>1, <1>3, Zenon DEF Grown
  <2>2. Collapsed(t, n, f[n - 1] \o <<"space", t[n]>>)
    BY <1>3, CollapseGap
  <2> QED BY <2>1, <2>2, Zenon
<1>4. CASE t[n] \notin NetSpace /\ ~(n > 1 /\ t[n - 1] \in NetSpace /\ f[n - 1] # <<>>)
  <2>1. Grown(t, f, n) = Append(f[n - 1], t[n])
    BY <1>1, <1>4, Zenon DEF Grown
  <2>2. Collapsed(t, n, Append(f[n - 1], t[n]))
    BY <1>4, CollapseVisible
  <2> QED BY <2>1, <2>2, Zenon
<1> QED BY <1>2, <1>3, <1>4

LEMMA StaysCollapsed ==
    ASSUME NEW t \in Seq(Character), NEW f, f = [n \in 0 .. Len(t) |-> Grown(t, f, n)]
    PROVE  Collapsed(t, Len(t), f[Len(t)])
<1> DEFINE Bad == {n \in 0 .. Len(t) : ~Collapsed(t, n, f[n])}
<1>1. Len(t) \in Nat /\ Bad \in SUBSET Nat
  OBVIOUS
<1>2. \A n \in 0 .. Len(t) : f[n] = Grown(t, f, n)
  BY Zenon
<1>3. Bad = {}
  <2> SUFFICES ASSUME Bad # {} PROVE FALSE
    OBVIOUS
  <2> HIDE DEF Bad
  <2>1. PICK k \in Bad : \A l \in Bad : k <= l
    BY <1>1, LeastOf
  <2>2. k \in 0 .. Len(t) /\ ~Collapsed(t, k, f[k])
    BY DEF Bad
  <2>3. CASE k = 0
    <3>1. f[0] = <<>>
      <4>1. 0 \in 0 .. Len(t)
        BY <1>1
      <4>2. Grown(t, f, 0) = <<>>
        BY Zenon DEF Grown
      <4> QED BY <1>2, <4>1, <4>2, Zenon
    <3>2. <<>> \in Seq(Character) /\ Len(<<>>) = 0
      OBVIOUS
    <3>3. Placed(t, 0, <<>>, <<>>) /\ Tidy(<<>>)
      BY <3>2 DEF Placed, Tidy
    <3>4. Collapsed(t, 0, <<>>)
      BY <3>2, <3>3 DEF Collapsed
    <3> QED BY <2>2, <2>3, <3>1, <3>4
  <2>4. CASE k # 0
    <3>1. k \in 1 .. Len(t) /\ k - 1 \in 0 .. Len(t) /\ ~(k <= k - 1)
      BY <1>1, <2>2, <2>4
    <3>2. Collapsed(t, k - 1, f[k - 1])
      <4>1. k - 1 \notin Bad
        BY <2>1, <3>1
      <4> QED BY <3>1, <4>1 DEF Bad
    <3>3. Collapsed(t, k, Grown(t, f, k))
      BY <3>1, <3>2, GrowsCollapsed
    <3> QED BY <1>2, <2>2, <3>3, Zenon
  <2> QED BY <2>3, <2>4
<1>4. Len(t) \in 0 .. Len(t)
  BY <1>1
<1> QED BY <1>3, <1>4

(* A trimmed text that needs no collapsing is tidy as it is.               *)
LEMMA NothingToCollapse ==
    ASSUME NEW s \in Seq(Character), ~NeedsCollapsing(Trim(s, NetSpace))
    PROVE  Collapsed(Trim(s, NetSpace), Len(Trim(s, NetSpace)), Trim(s, NetSpace))
<1> DEFINE t == Trim(s, NetSpace)
<1>1. t \in Seq(Character)
  BY TrimClean
<1>2. t # <<>> => t[1] \notin NetSpace /\ t[Len(t)] \notin NetSpace
  <2> SUFFICES ASSUME t # <<>> PROVE t[1] \notin NetSpace /\ t[Len(t)] \notin NetSpace
    OBVIOUS
  <2>1. PICK a, b \in DOMAIN s : Spans(s, NetSpace, a, b)
    BY TrimBlank, SpanExists
  <2>2. /\ a \in Nat /\ b \in Nat /\ a <= b
        /\ Len(t) = b - a + 1 /\ \A i \in 1 .. b - a + 1 : t[i] = s[a + i - 1]
    BY <2>1, TrimSpan
  <2> HIDE DEF t
  <2>3. /\ 1 \in 1 .. b - a + 1 /\ a + 1 - 1 = a
        /\ b - a + 1 \in 1 .. b - a + 1 /\ a + (b - a + 1) - 1 = b
    BY <2>2
  <2>4. t[1] = s[a] /\ t[Len(t)] = s[b]
    BY <2>2, <2>3
  <2> QED BY <2>1, <2>4 DEF Spans
<1>3. ~NeedsCollapsing(t)
  OBVIOUS
<1> HIDE DEF t
<1>4. Len(t) \in Nat /\ DOMAIN t = 1 .. Len(t)
  BY <1>1
<1>5. \A i \in 1 .. Len(t) : t[i] \in NetSpace =>
          t[i] = "space" /\ (i < Len(t) => t[i + 1] \notin NetSpace)
  BY <1>3, <1>4 DEF NeedsCollapsing
<1>6. Tidy(t)
  <2> SUFFICES ASSUME NEW i \in 1 .. Len(t), t[i] \in NetSpace
               PROVE  t[i] = "space" /\ 1 < i /\ i < Len(t) /\ t[i - 1] \notin NetSpace
    BY DEF Tidy
  <2> DEFINE l == Len(t)
  <2>1. i # 1 /\ i # l /\ l \in Nat /\ i \in 1 .. l
    <3>1. t # <<>>
      <4>1. Len(t) # 0
        BY <1>4
      <4>2. Len(<<>>) = 0
        OBVIOUS
      <4> QED BY <4>1, <4>2, Zenon
    <3>2. t[1] \notin NetSpace /\ t[Len(t)] \notin NetSpace
      BY <1>2, <3>1
    <3> QED BY <1>4, <3>2
  <2> HIDE DEF l
  <2>2. i - 1 \in 1 .. l /\ i - 1 < l /\ (i - 1) + 1 = i /\ 1 < i /\ i < l
    BY <2>1
  <2> USE DEF l
  <2>3. t[i - 1] \notin NetSpace
    BY <1>5, <2>2
  <2> QED BY <1>5, <2>2, <2>3
<1>7. Placed(t, Len(t), t, [i \in 1 .. Len(t) |-> i])
  BY <1>4 DEF Placed
<1> QED BY <1>1, <1>6, <1>7 DEF Collapsed, t

(* RoomName.Create.                                                        *)
LEMMA NamesAreCanonical ==
    ASSUME NEW s \in Seq(Character), RoomName(s).ok
    PROVE  LET v == RoomName(s).value IN
           /\ v \in Seq(Character)
           /\ Len(v) \in 1 .. MaxNameLength
           /\ Trim(v, NetSpace) = v
           /\ ToSet(v) \cap NetSpace \subseteq {"space"}
           /\ \A i \in 1 .. Len(v) - 1 : v[i] # "space" \/ v[i + 1] # "space"
           /\ KeepsVisible(s, v)
<1> DEFINE t == Trim(s, NetSpace)
           v == CollapseWhitespace(s)
<1>1. Len(v) \in 1 .. MaxNameLength /\ RoomName(s).value = v
  BY Zenon DEF RoomName, Success, Failure
<1>2. t \in Seq(Character)
  BY TrimClean
<1>3. Collapsed(t, Len(t), v)
  <2>1. CASE ~NeedsCollapsing(t) /\ v = t
    BY <2>1, NothingToCollapse
  <2>2. CASE \E f : f = [n \in 0 .. Len(t) |-> Grown(t, f, n)] /\ v = f[Len(t)]
    <3>1. PICK f : f = [n \in 0 .. Len(t) |-> Grown(t, f, n)] /\ v = f[Len(t)]
      BY <2>2
    <3> HIDE DEF t, v
    <3>2. Collapsed(t, Len(t), f[Len(t)])
      BY <1>2, <3>1, StaysCollapsed, Zenon
    <3> QED BY <3>1, <3>2
  <2> QED BY <2>1, <2>2, CollapsingBuilds
<1> HIDE DEF v
<1>4. /\ v \in Seq(Character) /\ Tidy(v) /\ Len(v) \in Nat /\ Len(v) >= 1 /\ v # <<>>
      /\ DOMAIN v = 1 .. Len(v)
  BY <1>1, <1>3, LimitAssumption DEF Collapsed
<1>5. v[1] \notin NetSpace /\ v[Len(v)] \notin NetSpace
  BY <1>4 DEF Tidy
<1>6. Trim(v, NetSpace) = v
  BY <1>4, <1>5, TrimTight
<1>7. ToSet(v) \cap NetSpace \subseteq {"space"}
  BY <1>4 DEF Tidy, ToSet
<1>8. \A i \in 1 .. Len(v) - 1 : v[i] # "space" \/ v[i + 1] # "space"
  <2> SUFFICES ASSUME NEW i \in 1 .. Len(v) - 1, v[i + 1] = "space" PROVE v[i] # "space"
    OBVIOUS
  <2>1. i + 1 \in 1 .. Len(v) /\ (i + 1) - 1 = i /\ "space" \in NetSpace
    BY <1>4 DEF NetSpace
  <2>2. v[i] \notin NetSpace
    BY <1>4, <2>1 DEF Tidy
  <2> QED BY <2>1, <2>2
<1>9. KeepsVisible(s, v)
  <2>1. PICK place : Placed(t, Len(t), v, place)
    BY <1>3 DEF Collapsed
  <2>2. t # <<>>
    <3> SUFFICES ASSUME t = <<>> PROVE FALSE
      OBVIOUS
    <3>1. Len(t) = 0
      OBVIOUS
    <3>2. 1 \in 1 .. Len(v) /\ place[1] \in 1 .. Len(t)
      BY <1>4, <2>1 DEF Placed
    <3> QED BY <3>1, <3>2
  <2>3. PICK a, b \in DOMAIN s : Spans(s, NetSpace, a, b)
    BY <2>2, TrimBlank, SpanExists
  <2>4. /\ a \in Nat /\ b \in Nat /\ 1 <= a /\ a <= b /\ b <= Len(s) /\ Len(s) \in Nat
        /\ DOMAIN s = 1 .. Len(s)
        /\ Len(t) = b - a + 1 /\ \A i \in 1 .. b - a + 1 : t[i] = s[a + i - 1]
    BY <2>3, TrimSpan
  <2> HIDE DEF t
  <2> DEFINE l == Len(v)
             home == [i \in 1 .. l |-> a + place[i] - 1]
  <2>5. /\ place \in [1 .. l -> 1 .. b - a + 1]
        /\ \A i, j \in 1 .. l : i < j => place[i] < place[j]
        /\ \A i \in 1 .. l : v[i] # "space" => v[i] = t[place[i]]
        /\ \A j \in 1 .. b - a + 1 : t[j] \notin NetSpace =>
               \E i \in 1 .. l : place[i] = j /\ v[i] = t[j]
    BY <2>1, <2>4 DEF Placed
  <2> HIDE DEF l
  <2>6. \A i \in 1 .. l : /\ home[i] = a + place[i] - 1 /\ home[i] \in DOMAIN s
                          /\ t[place[i]] = s[home[i]] /\ place[i] \in Nat
    BY <2>4, <2>5
  <2>7. home \in [1 .. l -> DOMAIN s]
    BY <2>6
  <2> HIDE DEF home
  <2>8. \A i, j \in 1 .. l : i < j => home[i] < home[j]
    BY <2>4, <2>5, <2>6
  <2>9. \A i \in 1 .. l : v[i] # "space" => v[i] = s[home[i]]
    BY <2>5, <2>6
  <2>10. ASSUME NEW j \in DOMAIN s, s[j] \notin NetSpace
         PROVE  \E i \in 1 .. l : home[i] = j /\ v[i] = s[j]
    <3>1. a <= j /\ j <= b /\ j \in Nat
      BY <2>3, <2>4, <2>10 DEF Spans
    <3>2. j - a + 1 \in 1 .. b - a + 1 /\ a + (j - a + 1) - 1 = j
      BY <2>4, <3>1
    <3>3. t[j - a + 1] = s[j]
      BY <2>4, <3>2
    <3>4. PICK i \in 1 .. l : place[i] = j - a + 1 /\ v[i] = t[j - a + 1]
      BY <2>5, <2>10, <3>2, <3>3
    <3> QED BY <2>6, <3>2, <3>3, <3>4
  <2>11. DOMAIN v = 1 .. l
    BY <1>4 DEF l
  <2>12. home \in [DOMAIN v -> DOMAIN s]
    BY <2>7, <2>11
  <2>13. \A j \in DOMAIN s : s[j] \notin NetSpace =>
             \E i \in DOMAIN v : home[i] = j /\ v[i] = s[j]
    BY <2>10, <2>11
  <2>14. /\ \A i, j \in DOMAIN v : i < j => home[i] < home[j]
         /\ \A i \in DOMAIN v : v[i] # "space" => v[i] = s[home[i]]
    BY <2>8, <2>9, <2>11
  <2> QED BY <2>12, <2>13, <2>14 DEF KeepsVisible
<1> QED BY <1>1, <1>4, <1>6, <1>7, <1>8, <1>9

(* The value of a parsed stock command is a code already.                  *)
LEMMA ParsedCodes ==
    ASSUME NEW s \in Seq(Character), Parse(s).kind = "StockQuote"
    PROVE  LET v == Parse(s).value IN
           /\ v \in Seq(Character)
           /\ ToSet(v) \subseteq Ticker /\ Len(v) \in 1 .. MaxCodeLength
           /\ StockCode(v).ok /\ StockCode(v).value = v
<1> DEFINE c == Tail(Trim(s, NetSpace))
<1>1. Parse(s) = ParseCommand(c) /\ c \in Seq(Character)
  BY KindsOfLines
<1> HIDE DEF c
<1>2. PICK e \in 0 .. Len(c) :
          ParseCommand(c) =
              IF NameBefore(c, e) = <<>> THEN Parsed("Invalid", <<>>)
              ELSE IF e = 0 \/ ToLower(NameBefore(c, e)) # <<"stock">>
                   THEN Parsed("UnknownCommand", ToLower(NameBefore(c, e)))
              ELSE IF CodeAfter(c, e).ok THEN Parsed("StockQuote", CodeAfter(c, e).value)
              ELSE Parsed("Invalid", <<>>)
  BY <1>1, CommandParsed, Zenon
<1>3. \A v : Parsed("Invalid", v).kind # "StockQuote" /\ Parsed("UnknownCommand", v).kind # "StockQuote"
  BY DEF Parsed
<1>4. Parse(s) = Parsed("StockQuote", CodeAfter(c, e).value) /\ CodeAfter(c, e).ok
  BY <1>1, <1>2, <1>3, Zenon
<1> DEFINE part == SubSeq(c, e + 1, Len(c))
<1>5. part \in Seq(Character) /\ StockCode(part).ok /\ Parse(s).value = StockCode(part).value
  <2>1. e + 1 \in Nat /\ Len(c) \in Nat /\ 1 <= e + 1 /\ Len(c) <= Len(c)
    BY <1>1
  <2>2. part \in Seq(Character)
    BY <1>1, <2>1, SubTexts
  <2>3. Parse(s).value = CodeAfter(c, e).value
    BY <1>4 DEF Parsed
  <2> QED BY <1>4, <2>2, <2>3 DEF CodeAfter
<1> HIDE DEF part
<1> QED BY <1>5, CodesAreSafe, Zenon

-----------------------------------------------------------------------------
(* The invariant: what has become of the line says what the line was.      *)

OnItsFeet == {"sent", "posted", "requested", "validated", "named", "refused"}

FromSent ==
    /\ at \in OnItsFeet => Sent # <<>>
    /\ at = "sent" => text = Sent
    /\ at \in {"typed", "sent"} => refusedBy = "nobody"
    /\ at \in OnItsFeet /\ box = "line" => (echoed <=> Head(Sent) = "/")

FromLine ==
    /\ at # "discarded"
    /\ at \in {"posted", "requested", "validated"} =>
           box = "line" /\ refusedBy = "nobody" /\ Validates(Sent)
    /\ at = "posted" => Parse(Sent).kind = "PlainMessage" /\ text = Trim(Sent, NetSpace)
    /\ at \in {"requested", "validated"} =>
           Parse(Sent).kind = "StockQuote" /\ text = Parse(Sent).value
    /\ at = "refused" /\ box = "line" =>
           \/ refusedBy = "validator" /\ ~Validates(Sent)
           \/ refusedBy = "room" /\ Validates(Sent)
           \/ /\ refusedBy = "parser" /\ Validates(Sent)
              /\ Parse(Sent).kind \in {"UnknownCommand", "Invalid"}

FromName == at = "named" => RoomName(Sent).ok /\ text = RoomName(Sent).value

InputInv == InputTypeOK /\ FromSent /\ FromLine /\ FromName

LEMMA SentText ==
    ASSUME InputTypeOK
    PROVE  Sent \in Seq(Character) /\ (Sent # <<>> => Head(Sent) \notin JsSpace)
BY TrimClean DEF InputTypeOK, Sent

LEMMA InputInitInv == Init => InputInv
<1> SUFFICES ASSUME InputInit PROVE InputInv
  BY DEF Init
<1>1. typed \in Seq(Character) /\ <<>> \in Seq(Character)
  BY TextAssumption DEF InputInit
<1> QED BY <1>1 DEF InputInit, InputInv, InputTypeOK, FromSent, FromLine, FromName, OnItsFeet

LEMMA SubmitStep ==
    ASSUME InputInv, Submit PROVE InputInv'
<1>1. Trim(typed, JsSpace) \in Seq(Character) /\ Sent' = Trim(typed, JsSpace)
  BY TrimClean DEF InputInv, InputTypeOK, Submit, Sent
<1>2. /\ text' = Sent' /\ at' \in {"ignored", "sent"} /\ (at' = "sent" => Sent' # <<>>)
      /\ typed' = typed /\ box' = box /\ refusedBy' = refusedBy /\ refusedBy = "nobody"
      /\ echoed' = (box = "line" /\ Sent' # <<>> /\ Head(Sent') = "/")
  BY <1>1, Zenon DEF Submit, Echoes, InputInv, FromSent
<1>3. InputTypeOK'
  BY <1>1, <1>2 DEF InputInv, InputTypeOK
<1>4. FromSent' /\ FromLine' /\ FromName'
  BY <1>2 DEF FromSent, FromLine, FromName, OnItsFeet
<1> QED BY <1>3, <1>4 DEF InputInv

(* The line that is sent is what the handlers are given.                   *)
LEMMA HandleLineStep ==
    ASSUME InputInv, HandleLine PROVE InputInv'
<1>1. /\ at = "sent" /\ box = "line" /\ text = Sent /\ refusedBy = "nobody" /\ Sent # <<>>
      /\ (echoed <=> Head(Sent) = "/") /\ Sent \in Seq(Character) /\ InputTypeOK
  BY SentText DEF HandleLine, InputInv, FromSent, OnItsFeet
<1>2. Sent' = Sent /\ box' = box /\ typed' = typed /\ echoed' = echoed
  BY DEF HandleLine, Refuse, Accept, Sent
<1>3. ASSUME ~Validates(Sent), Refuse("validator") PROVE InputInv'
  <2>1. at' = "refused" /\ refusedBy' = "validator" /\ text' = text
    BY <1>3 DEF Refuse
  <2>2. InputTypeOK'
    BY <1>1, <1>2, <2>1 DEF InputTypeOK
  <2>3. Validates(Sent') = Validates(Sent)
    BY <1>2, Zenon
  <2>4. FromSent' /\ FromLine' /\ FromName'
    BY <1>1, <1>2, <1>3, <2>1, <2>3 DEF FromSent, FromLine, FromName, OnItsFeet
  <2> QED BY <2>2, <2>4 DEF InputInv
<1>4. ASSUME Validates(Sent), Parse(Sent).kind \in {"UnknownCommand", "Invalid"}, Refuse("parser")
      PROVE  InputInv'
  <2>1. at' = "refused" /\ refusedBy' = "parser" /\ text' = text
    BY <1>4 DEF Refuse
  <2>2. InputTypeOK'
    BY <1>1, <1>2, <2>1 DEF InputTypeOK
  <2>3. Validates(Sent') = Validates(Sent) /\ Parse(Sent') = Parse(Sent)
    BY <1>2, Zenon
  <2>4. FromSent' /\ FromLine' /\ FromName'
    BY <1>1, <1>2, <1>4, <2>1, <2>3 DEF FromSent, FromLine, FromName, OnItsFeet
  <2> QED BY <2>2, <2>4 DEF InputInv
<1>5. ASSUME Validates(Sent), NEW outcome, Accept(outcome, text'),
             text' \in Seq(Character),
             \/ /\ outcome = "requested"
                /\ Parse(Sent).kind = "StockQuote" /\ text' = Parse(Sent).value
             \/ /\ outcome = "posted"
                /\ Parse(Sent).kind = "PlainMessage" /\ text' = Trim(Sent, NetSpace)
      PROVE  InputInv'
  <2>1. at' = outcome /\ refusedBy' = refusedBy
    BY <1>5 DEF Accept
  <2>2. InputTypeOK'
    BY <1>1, <1>2, <1>5, <2>1 DEF InputTypeOK
  <2>3. /\ Validates(Sent') = Validates(Sent) /\ Parse(Sent') = Parse(Sent)
        /\ Trim(Sent', NetSpace) = Trim(Sent, NetSpace)
    BY <1>2, Zenon
  <2>4. FromSent' /\ FromLine' /\ FromName'
    BY <1>1, <1>2, <1>5, <2>1, <2>3 DEF FromSent, FromLine, FromName, OnItsFeet
  <2> QED BY <2>2, <2>4 DEF InputInv
<1>6. ASSUME Validates(Sent), Parse(Sent).kind = "StockQuote", Accept("requested", Parse(Sent).value)
      PROVE  InputInv'
  <2>1. text' = Parse(Sent).value /\ text' \in Seq(Character)
    BY <1>1, <1>6, ParsedCodes DEF Accept
  <2>2. Accept("requested", text')
    BY <1>6, <2>1
  <2> QED BY <1>5, <1>6, <2>1, <2>2
<1>7. ASSUME Validates(Sent), Parse(Sent).kind = "PlainMessage",
             IF MessageContent(Parse(Sent).value).ok
             THEN Accept("posted", MessageContent(Parse(Sent).value).value) ELSE Refuse("content")
      PROVE  InputInv'
  <2>1. Parse(Sent).value = Trim(Sent, NetSpace)
    BY <1>1, <1>7, KindsOfLines
  <2>2. /\ MessageContent(Trim(Sent, NetSpace)).ok
        /\ MessageContent(Trim(Sent, NetSpace)).value = Trim(Sent, NetSpace)
    BY <1>1, <1>7, ContentsOfValidLines
  <2>3. Accept("posted", Trim(Sent, NetSpace))
    BY <1>7, <2>1, <2>2, Zenon
  <2>4. text' = Trim(Sent, NetSpace) /\ Accept("posted", text')
    BY <2>3, Zenon DEF Accept
  <2>5. text' \in Seq(Character)
    BY <1>1, <2>4, TrimClean
  <2> QED BY <1>5, <1>7, <2>4, <2>5
<1>8. ASSUME Validates(Sent), Refuse("room") PROVE InputInv'
  <2>1. at' = "refused" /\ refusedBy' = "room" /\ text' = text
    BY <1>8 DEF Refuse
  <2>2. InputTypeOK'
    BY <1>1, <1>2, <2>1 DEF InputTypeOK
  <2>3. Validates(Sent') = Validates(Sent)
    BY <1>2, Zenon
  <2>4. FromSent' /\ FromLine' /\ FromName'
    BY <1>1, <1>2, <1>8, <2>1, <2>3 DEF FromSent, FromLine, FromName, OnItsFeet
  <2> QED BY <2>2, <2>4 DEF InputInv
<1> QED BY <1>1, <1>3, <1>4, <1>6, <1>7, <1>8, Zenon DEF HandleLine

LEMMA HandleNameStep ==
    ASSUME InputInv, HandleName PROVE InputInv'
<1>1. /\ at = "sent" /\ box = "name" /\ text = Sent /\ refusedBy = "nobody" /\ Sent # <<>>
      /\ Sent \in Seq(Character) /\ InputTypeOK
  BY SentText DEF HandleName, InputInv, FromSent, OnItsFeet
<1>2. Sent' = Sent /\ box' = box /\ typed' = typed /\ echoed' = echoed
  BY DEF HandleName, Refuse, Accept, Sent
<1>3. CASE RoomName(text).ok
  <2>1. Accept("named", RoomName(text).value)
    BY <1>3, Zenon DEF HandleName
  <2>2. at' = "named" /\ text' = RoomName(Sent).value /\ refusedBy' = refusedBy
    BY <1>1, <2>1 DEF Accept
  <2>3. text' \in Seq(Character) /\ RoomName(Sent') = RoomName(Sent)
    BY <1>1, <1>2, <1>3, <2>2, NamesAreCanonical
  <2>4. InputTypeOK'
    BY <1>1, <1>2, <2>2, <2>3 DEF InputTypeOK
  <2>5. FromSent' /\ FromLine' /\ FromName'
    BY <1>1, <1>2, <1>3, <2>2, <2>3 DEF FromSent, FromLine, FromName, OnItsFeet
  <2> QED BY <2>4, <2>5 DEF InputInv
<1>4. CASE ~RoomName(text).ok
  <2>1. Refuse("name")
    BY <1>4, Zenon DEF HandleName
  <2>2. at' = "refused" /\ refusedBy' = "name" /\ text' = text
    BY <2>1 DEF Refuse
  <2>3. InputTypeOK'
    BY <1>1, <1>2, <2>2 DEF InputTypeOK
  <2>4. FromSent' /\ FromLine' /\ FromName'
    BY <1>1, <1>2, <2>2 DEF FromSent, FromLine, FromName, OnItsFeet
  <2> QED BY <2>3, <2>4 DEF InputInv
<1> QED BY <1>3, <1>4

LEMMA RevalidateStep ==
    ASSUME InputInv, Revalidate PROVE InputInv'
<1>1. /\ at = "requested" /\ box = "line" /\ refusedBy = "nobody" /\ Sent # <<>>
      /\ Validates(Sent) /\ Parse(Sent).kind = "StockQuote" /\ text = Parse(Sent).value
      /\ (echoed <=> Head(Sent) = "/") /\ Sent \in Seq(Character) /\ InputTypeOK
  BY SentText DEF Revalidate, InputInv, FromSent, FromLine, OnItsFeet
<1>2. StockCode(text).ok /\ StockCode(text).value = text
  BY <1>1, ParsedCodes
<1>3. Accept("validated", text)
  BY <1>2, Zenon DEF Revalidate
<1>4. /\ at' = "validated" /\ text' = text /\ refusedBy' = refusedBy
      /\ box' = box /\ typed' = typed /\ echoed' = echoed /\ Sent' = Sent
  BY <1>3 DEF Accept, Sent
<1>5. Validates(Sent') = Validates(Sent) /\ Parse(Sent') = Parse(Sent)
  BY <1>4, Zenon
<1>6. InputTypeOK'
  BY <1>1, <1>4 DEF InputTypeOK
<1>7. FromSent' /\ FromLine' /\ FromName'
  BY <1>1, <1>4, <1>5 DEF FromSent, FromLine, FromName, OnItsFeet
<1> QED BY <1>6, <1>7 DEF InputInv

(* The lookup forgets the line, and touches nothing of it afterwards.      *)
LEMMA LookupSteps ==
    ASSUME InputInv,
           \/ Call \/ NoKey \/ PipelineStep \/ ReadBody \/ Refused \/ BodyFails \/ Stop \/ Cancelled
           \/ UNCHANGED inputVars
    PROVE  InputInv'
<1>1. CASE Begin
  <2>1. /\ at' = "asked" /\ typed' = <<>> /\ text' = <<>> /\ echoed' = FALSE
        /\ box' = box /\ refusedBy' = refusedBy
    BY <1>1 DEF Begin
  <2>2. <<>> \in Seq(Character)
    OBVIOUS
  <2>3. InputTypeOK'
    BY <2>1, <2>2 DEF InputInv, InputTypeOK
  <2>4. FromSent' /\ FromLine' /\ FromName'
    BY <2>1 DEF FromSent, FromLine, FromName, OnItsFeet
  <2> QED BY <2>3, <2>4 DEF InputInv
<1>2. CASE UNCHANGED inputVars
  <2>1. UNCHANGED <<box, typed, text, at, echoed, refusedBy>> /\ Sent' = Sent
    BY <1>2 DEF inputVars, Sent
  <2>2. /\ Validates(Sent') = Validates(Sent) /\ Parse(Sent') = Parse(Sent)
        /\ Trim(Sent', NetSpace) = Trim(Sent, NetSpace) /\ RoomName(Sent') = RoomName(Sent)
    BY <2>1, Zenon
  <2> QED BY <2>1, <2>2 DEF InputInv, InputTypeOK, FromSent, FromLine, FromName, OnItsFeet
<1>3. Begin \/ UNCHANGED inputVars
  <2>1. PipelineStep => UNCHANGED inputVars
    BY Zenon DEF PipelineStep, Tick, AttemptTimesOut, TransportFails, Transient, TryAgain,
           BreakerRejects, TotalTimesOut, HeadersArrive, Retry, Wait, Raise, Finish
  <2> QED BY <2>1, Zenon DEF Call, NoKey, ReadBody, Refused, BodyFails, Raise, Finish, Stop, Cancelled
<1> QED BY <1>1, <1>2, <1>3

-----------------------------------------------------------------------------
(* The theorems.                                                           *)

(* What has become of a line, at any time: chat.js, PostMessageHandler,    *)
(* CreateRoomHandler and StockQuoteRequestConsumer one after the other.    *)
THEOREM InputInvariant == Spec => []InputInv
<1>1. InputInv /\ [Next]_vars => InputInv'
  <2> SUFFICES ASSUME InputInv, [Next]_vars PROVE InputInv'
    OBVIOUS
  <2>1. CASE InputNext
    BY <2>1, SubmitStep, HandleLineStep, HandleNameStep, RevalidateStep DEF InputNext
  <2>2. CASE UNCHANGED vars
    BY <2>2, LookupSteps DEF vars
  <2> QED BY <2>1, <2>2, LookupSteps DEF Next
<1> QED BY InputInitInv, <1>1, PTL DEF Spec

LEMMA CommandsStayCommands == InputInv => CommandsAreNeverPosts
<1> SUFFICES ASSUME InputInv, at = "posted" PROVE Head(text) # "/" /\ Trim(text, NetSpace) = text
  BY DEF CommandsAreNeverPosts
<1>1. /\ Sent \in Seq(Character) /\ Validates(Sent)
      /\ Parse(Sent).kind = "PlainMessage" /\ text = Trim(Sent, NetSpace)
  BY SentText DEF InputInv, FromLine
<1>2. Trim(Sent, NetSpace) # <<>>
  BY <1>1 DEF Validates
<1>3. Head(Trim(Sent, NetSpace)) # "/"
  BY <1>1, <1>2, KindsOfLines
<1> QED BY <1>1, <1>3, TrimClean

(* ChatCommandParser and PostMessageHandler: whatever white space stands   *)
(* around it, a command is never stored and broadcast as a post.           *)
THEOREM NoCommandIsPosted == Spec => []CommandsAreNeverPosts
BY CommandsStayCommands, InputInvariant, PTL

LEMMA EchoesAreCommands == InputInv => EchoMeansCommand
<1> SUFFICES ASSUME InputInv, Handled, refusedBy \notin {"validator", "room"}, Head(Sent) # "nel"
             PROVE  echoed <=> IsCommand
  BY DEF EchoMeansCommand
<1>1. /\ box = "line" /\ at \in {"posted", "requested", "validated", "refused"}
      /\ Sent \in Seq(Character) /\ Sent # <<>> /\ Head(Sent) \notin JsSpace
      /\ (echoed <=> Head(Sent) = "/")
  BY SentText DEF Handled, InputInv, FromSent, FromLine, OnItsFeet
<1>2. Validates(Sent) /\ (IsCommand <=> Parse(Sent).kind # "PlainMessage")
  BY <1>1 DEF IsCommand, InputInv, FromLine, FromSent
<1>3. Head(Sent) \notin NetSpace
  BY <1>1 DEF JsSpace, NetSpace
<1>4. Trim(Sent, NetSpace) # <<>> /\ Head(Trim(Sent, NetSpace)) = Head(Sent)
  BY <1>1, <1>3, TrimFirst
<1> QED BY <1>1, <1>2, <1>4, KindsOfLines

(* chat.js echoes a line "you typed" exactly when the server, which trims  *)
(* and parses it once more, makes no post of it.                           *)
THEOREM EchoAgreesWithServer == Spec => []EchoMeansCommand
BY EchoesAreCommands, InputInvariant, PTL

LEMMA ValidatorIsExact == InputInv => ValidatorRejectsNothingMore
<1> SUFFICES ASSUME InputInv, Handled
             PROVE  /\ (refusedBy = "validator") <=> ~MessageContent(Sent).ok
                    /\ refusedBy # "content"
  BY DEF ValidatorRejectsNothingMore
<1>1. /\ box = "line" /\ at \in {"posted", "requested", "validated", "refused"}
      /\ Sent \in Seq(Character)
  BY SentText DEF Handled, InputInv, FromLine
<1>2. MessageContent(Sent).ok <=> Validates(Sent)
  BY <1>1, ContentsOfValidLines
<1>3. CASE at = "refused"
  BY <1>1, <1>2, <1>3 DEF InputInv, FromLine
<1>4. CASE at # "refused"
  BY <1>1, <1>2, <1>4 DEF InputInv, FromLine
<1> QED BY <1>3, <1>4

(* PostMessageValidator rejects what MessageContent would have rejected    *)
(* and nothing more.                                                       *)
THEOREM ValidatorMatchesContent == Spec => []ValidatorRejectsNothingMore
BY ValidatorIsExact, InputInvariant, PTL

LEMMA TickersStaySafe == InputInv => OnlySafeTickers
<1> SUFFICES ASSUME InputInv, at = "validated"
             PROVE  ToSet(text) \subseteq Ticker /\ Len(text) \in 1 .. MaxCodeLength
  BY DEF OnlySafeTickers
<1>1. Sent \in Seq(Character) /\ Parse(Sent).kind = "StockQuote" /\ text = Parse(Sent).value
  BY SentText DEF InputInv, FromLine
<1> QED BY <1>1, ParsedCodes

(* StockCode: nothing but the allowed characters, in the allowed number,   *)
(* ever goes into a URL.                                                   *)
THEOREM TickersAreSafe == Spec => []OnlySafeTickers
BY TickersStaySafe, InputInvariant, PTL

LEMMA CommandsReachTheLookup == InputInv => StockCommandsReachTheLookup
<1> SUFFICES ASSUME InputInv PROVE StockCommandsReachTheLookup
  OBVIOUS
<1>1. at # "discarded"
  BY DEF InputInv, FromLine
<1>2. ASSUME Handled, MessageContent(Sent).ok, at # "requested", refusedBy # "room"
      PROVE  /\ \A first, last \in DOMAIN Sent :
                    StockCommand(Sent, first, last) =>
                        at = "validated" /\ text = SubSeq(ToLower(Sent), first, last)
             /\ at = "validated" =>
                    \E first, last \in DOMAIN Sent : StockCommand(Sent, first, last)
  <2>1. /\ box = "line" /\ at \in {"posted", "validated", "refused"}
        /\ Sent \in Seq(Character) /\ Validates(Sent)
    BY <1>2, SentText, ContentsOfValidLines DEF Handled, InputInv, FromLine
  <2>2. /\ at = "validated" <=> Parse(Sent).kind = "StockQuote"
        /\ at = "validated" => text = Parse(Sent).value
    BY <1>2, <2>1 DEF InputInv, FromLine
  <2>3. ASSUME NEW first \in DOMAIN Sent, NEW last \in DOMAIN Sent,
               StockCommand(Sent, first, last)
        PROVE  at = "validated" /\ text = SubSeq(ToLower(Sent), first, last)
    <3>1. Parse(Sent) = Parsed("StockQuote", SubSeq(ToLower(Sent), first, last))
      BY <2>1, <2>3, CommandsAreParsed
    <3> QED BY <2>2, <3>1 DEF Parsed
  <2>4. ASSUME at = "validated"
        PROVE  \E first, last \in DOMAIN Sent : StockCommand(Sent, first, last)
    BY <2>1, <2>2, <2>4, ParsedCommandsHaveTheForm
  <2> QED BY <2>3, <2>4
<1> QED BY <1>1, <1>2 DEF StockCommandsReachTheLookup

(* Every line of the form of a stock command, and no other, arrives at the *)
(* lookup with its code in lower case, and Chat.Bot discards none of what  *)
(* Chat.Web has let through.                                               *)
THEOREM CommandsArrive == Spec => []StockCommandsReachTheLookup
BY CommandsReachTheLookup, InputInvariant, PTL

LEMMA NamesStayCanonical == InputInv => RoomNamesAreCanonical
<1> SUFFICES ASSUME InputInv, at = "named" PROVE RoomNamesAreCanonical
  BY DEF RoomNamesAreCanonical
<1>1. Sent \in Seq(Character) /\ RoomName(Sent).ok /\ text = RoomName(Sent).value
  BY SentText DEF InputInv, FromName
<1> QED BY <1>1, NamesAreCanonical DEF RoomNamesAreCanonical

(* RoomName: never empty, never padded, never doubly spaced, and nothing   *)
(* visible is lost.                                                        *)
THEOREM RoomNamesStayCanonical == Spec => []RoomNamesAreCanonical
BY NamesStayCanonical, InputInvariant, PTL

=============================================================================
