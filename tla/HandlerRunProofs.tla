---------------------------- MODULE HandlerRunProofs ----------------------------
(***************************************************************************)
(* What the process makes of the producer's answers, for handlers of any   *)
(* length and any credentials: no text but queries and JavaScript runs, no *)
(* connection is made with stale credentials, and, as long as bodies       *)
(* arrive in one piece, a valid answer is the producer's.                  *)
(***************************************************************************)
EXTENDS HandlerRun, SequenceLemmas

-------------------------------------------------------------------------------
(* The encoding.                                                           *)

Literals ==
  {"password", "username", "info", "text", "is_valid", "named_params_size", "0", "1", "2"}
  \cup Names

Values ==
  Literals \cup {Usernames[n] : n \in DOMAIN Usernames} \cup {Passwords[n] : n \in DOMAIN Passwords}

\* No value is mistaken for what separates values.
LEMMA ValuesAreValues == \A v \in Values : IsValue(v)
<1>1. \A v \in Literals : IsValue(v)
  BY DEF Literals, Names, IsValue
<1> QED
  BY <1>1, CommunicatorAssumption DEF Values

Sym == Values \cup {"&", "="}
Items == Seq(Values \X Values) \ {<<>>}

\* The symbols of an encoded list: key, "=", value and "&" take turns.
LEMMA EncodedSymbols ==
  ASSUME NEW items \in Items
  PROVE  LET E == Encode(items)
             n == Len(items)
         IN  /\ n \in Nat \ {0} /\ E \in Seq(Sym) /\ Len(E) = 4 * n - 1
             /\ \A a \in 0 .. n - 1 :
                  /\ E[4 * a + 1] = items[a + 1][1] /\ E[4 * a + 1] \in Values
                  /\ E[4 * a + 2] = "="
                  /\ E[4 * a + 3] = items[a + 1][2] /\ E[4 * a + 3] \in Values
             /\ \A a \in 1 .. n - 1 : E[4 * a] = "&"
<1> DEFINE E == Encode(items)
           n == Len(items)
<1>1. n \in Nat \ {0} /\ \A a \in 1 .. n : items[a] \in Values \X Values
  BY EmptySeq, LenProperties, ElementOfSeq DEF Items
<1>2. E = [i \in 1 .. 4 * n - 1 |->
             CASE i % 4 = 1 -> items[(i + 3) \div 4][1] [] i % 4 = 2 -> "="
               [] i % 4 = 3 -> items[(i + 3) \div 4][2] [] i % 4 = 0 -> "&"]
  BY DEF Encode
<1>7. ASSUME NEW i \in 1 .. 4 * n - 1
      PROVE  /\ i % 4 = 1 => E[i] = items[(i + 3) \div 4][1]
             /\ i % 4 = 2 => E[i] = "="
             /\ i % 4 = 3 => E[i] = items[(i + 3) \div 4][2]
             /\ i % 4 = 0 => E[i] = "&"
  BY <1>2
<1> HIDE DEF E, n
<1>3. ASSUME NEW a \in 0 .. n - 1
      PROVE  /\ E[4 * a + 1] = items[a + 1][1] /\ E[4 * a + 1] \in Values
             /\ E[4 * a + 2] = "="
             /\ E[4 * a + 3] = items[a + 1][2] /\ E[4 * a + 3] \in Values
  <2>1. /\ 4 * a + 1 \in 1 .. 4 * n - 1 /\ 4 * a + 2 \in 1 .. 4 * n - 1
        /\ 4 * a + 3 \in 1 .. 4 * n - 1 /\ a + 1 \in 1 .. n
    BY <1>1
  <2>2. /\ (4 * a + 1) % 4 = 1 /\ (4 * a + 2) % 4 = 2 /\ (4 * a + 3) % 4 = 3
        /\ ((4 * a + 1) + 3) \div 4 = a + 1 /\ ((4 * a + 3) + 3) \div 4 = a + 1
    BY <1>1
  <2>3. items[a + 1] \in Values \X Values
    BY <1>1, <2>1
  <2>4. E[4 * a + 1] = items[a + 1][1]
    BY <1>7, <2>1, <2>2
  <2>5. E[4 * a + 2] = "="
    BY <1>7, <2>1, <2>2
  <2>6. E[4 * a + 3] = items[a + 1][2]
    BY <1>7, <2>1, <2>2
  <2> QED
    BY <2>3, <2>4, <2>5, <2>6
<1>4. ASSUME NEW a \in 1 .. n - 1
      PROVE  E[4 * a] = "&"
  <2>1. 4 * a \in 1 .. 4 * n - 1 /\ (4 * a) % 4 = 0
    BY <1>1
  <2> QED
    BY <1>7, <2>1
<1>5. ASSUME NEW i \in 1 .. 4 * n - 1
      PROVE  E[i] \in Sym
  <2>1. PICK a \in 0 .. n - 1 : i \in {4 * a, 4 * a + 1, 4 * a + 2, 4 * a + 3}
    <3> DEFINE b == i \div 4
    <3>1. b \in Int /\ 4 * b <= i /\ i <= 4 * b + 3
      BY <1>1
    <3> HIDE DEF b
    <3>2. b \in 0 .. n - 1 /\ i \in {4 * b, 4 * b + 1, 4 * b + 2, 4 * b + 3}
      BY <1>1, <3>1
    <3> QED
      BY <3>2
  <2>2. CASE i = 4 * a
    <3>1. a \in 1 .. n - 1
      BY <1>1, <2>2
    <3>2. E[4 * a] = "&"
      BY <1>4, <3>1
    <3> QED
      BY <2>2, <3>2 DEF Sym
  <2>3. CASE i # 4 * a
    <3>1. /\ E[4 * a + 1] \in Sym /\ E[4 * a + 2] \in Sym
          /\ E[4 * a + 3] \in Sym
      BY <1>3 DEF Sym
    <3> QED
      BY <2>1, <2>3, <3>1
  <2> QED
    BY <2>2, <2>3
<1>6. E \in Seq(Sym) /\ Len(E) = 4 * n - 1
  <2>1. 4 * n - 1 \in Nat
    BY <1>1
  <2>2. DOMAIN E = 1 .. 4 * n - 1 /\ E = [i \in 1 .. 4 * n - 1 |-> E[i]]
    BY <1>2
  <2>3. E \in [1 .. 4 * n - 1 -> Sym]
    BY <1>5, <2>2
  <2> QED
    BY <2>1, <2>3, IsASeq, LenProperties
<1> QED
  BY <1>1, <1>3, <1>4, <1>6 DEF E, n

\* The symbols that stand for themselves.
LEMMA EncodedSeparators ==
  ASSUME NEW items \in Items, NEW i \in 1 .. Len(Encode(items))
  PROVE  /\ Encode(items)[i] = "&" <=> \E a \in 1 .. Len(items) - 1 : i = 4 * a
         /\ Encode(items)[i] = "=" <=> \E a \in 0 .. Len(items) - 1 : i = 4 * a + 2
<1> DEFINE E == Encode(items)
           n == Len(items)
<1>1. /\ n \in Nat \ {0} /\ Len(E) = 4 * n - 1
      /\ \A a \in 0 .. n - 1 :
           E[4 * a + 1] \in Values /\ E[4 * a + 2] = "=" /\ E[4 * a + 3] \in Values
      /\ \A a \in 1 .. n - 1 : E[4 * a] = "&"
  BY EncodedSymbols
<1> HIDE DEF E, n
<1>2. i \in 1 .. 4 * n - 1
  BY <1>1 DEF E
<1>3. PICK a \in 0 .. n - 1 : i \in {4 * a, 4 * a + 1, 4 * a + 2, 4 * a + 3}
  <2> DEFINE b == i \div 4
  <2>1. b \in Int /\ 4 * b <= i /\ i <= 4 * b + 3
    BY <1>2
  <2> HIDE DEF b
  <2>2. b \in 0 .. n - 1 /\ i \in {4 * b, 4 * b + 1, 4 * b + 2, 4 * b + 3}
    BY <1>1, <1>2, <2>1
  <2> QED
    BY <2>2
<1>4. E[4 * a + 1] \in Values /\ E[4 * a + 2] = "=" /\ E[4 * a + 3] \in Values
  BY <1>1
<1>5. "&" \notin Values /\ "=" \notin Values
  BY ValuesAreValues DEF IsValue
<1>6. CASE i = 4 * a
  <2>1. a \in 1 .. n - 1
    BY <1>1, <1>2, <1>6
  <2>2. E[i] = "&" /\ \A b \in 0 .. n - 1 : i # 4 * b + 2
    BY <1>1, <1>6, <2>1
  <2> QED
    BY <1>6, <2>1, <2>2 DEF E, n
<1>7. CASE i = 4 * a + 2
  <2>1. E[i] = "=" /\ \A b \in 1 .. n - 1 : i # 4 * b
    BY <1>1, <1>4, <1>7
  <2> QED
    BY <1>7, <2>1 DEF E, n
<1>8. CASE i \in {4 * a + 1, 4 * a + 3}
  <2>1. /\ E[i] \in Values
        /\ \A b \in 1 .. n - 1 : i # 4 * b
        /\ \A b \in 0 .. n - 1 : i # 4 * b + 2
    BY <1>1, <1>4, <1>8
  <2> QED
    BY <1>5, <2>1 DEF E, n
<1> QED
  BY <1>3, <1>6, <1>7, <1>8

\* A part of three symbols is made of them.
LEMMA Triple ==
  ASSUME NEW body \in Seq(Sym), NEW p \in 0 .. Len(body), NEW q \in 1 .. Len(body) + 1, p < q,
         NEW x \in Sym, NEW y \in Sym, NEW z \in Sym
  PROVE  SubSeq(body, p + 1, q - 1) = <<x, y, z>> <=>
           q = p + 4 /\ body[p + 1] = x /\ body[p + 2] = y /\ body[p + 3] = z
<1> DEFINE part == SubSeq(body, p + 1, q - 1)
           triple == <<x, y, z>>
<1>1. Len(body) \in Nat
  BY LenProperties
<1>2. /\ part \in Seq(Sym) /\ Len(part) = q - p - 1
      /\ \A i \in 1 .. q - p - 1 : part[i] = body[p + i]
  <2>1. /\ p + 1 \in Int /\ q - 1 \in Int
        /\ \A i \in p + 1 .. q - 1 : i \in 1 .. Len(body)
    BY <1>1
  <2>2. \A i \in p + 1 .. q - 1 : body[i] \in Sym
    BY <2>1, ElementOfSeq
  <2>3. /\ part \in Seq(Sym)
        /\ Len(part) = IF p + 1 <= q - 1 THEN q - 1 - (p + 1) + 1 ELSE 0
        /\ \A i \in 1 .. q - 1 - (p + 1) + 1 : part[i] = body[p + 1 + i - 1]
    BY <2>1, <2>2, SubSeqProperties
  <2>4. q - 1 - (p + 1) + 1 = q - p - 1 /\ \A i \in Int : p + 1 + i - 1 = p + i
    BY <1>1
  <2>5. Len(part) = q - p - 1
    BY <1>1, <2>3
  <2> QED
    BY <2>3, <2>4, <2>5
<1>3. /\ triple \in Seq(Sym) /\ Len(triple) = 3
      /\ triple[1] = x /\ triple[2] = y /\ triple[3] = z
  OBVIOUS
<1> HIDE DEF part, triple
<1>4. ASSUME part = triple
      PROVE  q = p + 4 /\ body[p + 1] = x /\ body[p + 2] = y /\ body[p + 3] = z
  <2>0. q - p - 1 = 3
    <3>1. Len(part) = 3
      BY <1>3, <1>4
    <3> QED
      BY <1>2, <3>1
  <2>1. q - p - 1 = 3 /\ q = p + 4
    <3>1. p \in Int /\ q \in Int
      BY <1>1
    <3> QED
      BY <2>0, <3>1
  <2>2. part[1] = body[p + 1] /\ part[2] = body[p + 2] /\ part[3] = body[p + 3]
    BY <1>2, <2>1
  <2> QED
    BY <1>3, <1>4, <2>1, <2>2
<1>5. ASSUME q = p + 4, body[p + 1] = x, body[p + 2] = y, body[p + 3] = z
      PROVE  part = triple
  <2>1. q - p - 1 = 3
    BY <1>1, <1>5
  <2>2. Len(part) = Len(triple)
    BY <1>2, <1>3, <2>1
  <2>3. \A i \in 1 .. 3 : part[i] = body[p + i]
    BY <1>2, <2>1
  <2>4. \A i \in 1 .. 3 : part[i] = triple[i]
    BY <1>3, <1>5, <2>3
  <2>5. Len(part) = 3
    BY <1>2, <2>1
  <2> QED
    BY <1>2, <1>3, <2>2, <2>4, <2>5, SeqEqual
<1> QED
  BY <1>4, <1>5 DEF part, triple

\* What is left of a sequence.
LEMMA SuffixProperties ==
  ASSUME NEW S, NEW s \in Seq(S), NEW l \in 1 .. Len(s) + 1
  PROVE  /\ SubSeq(s, l, Len(s)) \in Seq(S) /\ Len(SubSeq(s, l, Len(s))) = Len(s) - l + 1
         /\ \A i \in 1 .. Len(s) - l + 1 : SubSeq(s, l, Len(s))[i] = s[i + l - 1]
<1>1. Len(s) \in Nat /\ \A i \in l .. Len(s) : s[i] \in S
  BY LenProperties, ElementOfSeq
<1>2. l \in Int /\ Len(s) \in Int
  BY <1>1
<1>3. /\ SubSeq(s, l, Len(s)) \in Seq(S)
      /\ Len(SubSeq(s, l, Len(s))) = IF l <= Len(s) THEN Len(s) - l + 1 ELSE 0
      /\ \A i \in 1 .. Len(s) - l + 1 : SubSeq(s, l, Len(s))[i] = s[l + i - 1]
  BY <1>1, <1>2, SubSeqProperties
<1>4. Len(SubSeq(s, l, Len(s))) = Len(s) - l + 1
  BY <1>1, <1>3
<1>5. \A i \in 1 .. Len(s) - l + 1 : l + i - 1 = i + l - 1
  BY <1>1
<1> QED
  BY <1>3, <1>4, <1>5

\* What is left is a suffix, and a suffix is what is left from some place on.
LEMMA SuffixOf ==
  ASSUME NEW S, NEW s \in Seq(S), NEW t
  PROVE  t \in Suffixes(s) <=> \E l \in 1 .. Len(s) + 1 : t = SubSeq(s, l, Len(s))
<1>1. Len(s) \in Nat
  BY LenProperties
<1>2. SubSeq(s, Len(s) + 1, Len(s)) = <<>>
  <2> DEFINE l == Len(s) + 1
             rest == SubSeq(s, l, Len(s))
  <2>1. l \in 1 .. Len(s) + 1 /\ Len(s) - l + 1 = 0
    BY <1>1
  <2> HIDE DEF l
  <2>2. rest \in Seq(S) /\ Len(rest) = 0
    BY <2>1, SuffixProperties
  <2> HIDE DEF rest
  <2>3. rest = <<>>
    BY <2>2, EmptySeq
  <2> QED
    BY <2>3 DEF l, rest
<1>3. \A l : l \in 1 .. Len(s) + 1 <=> l \in 1 .. Len(s) \/ l = Len(s) + 1
  BY <1>1
<1> QED
  BY <1>2, <1>3 DEF Suffixes

\* What is left of what is left.
LEMMA SuffixOfSuffix ==
  ASSUME NEW S, NEW s \in Seq(S), NEW t \in Suffixes(s), NEW n \in 1 .. Len(t)
  PROVE  /\ t \in Seq(S) /\ SubSeq(t, n + 1, Len(t)) \in Suffixes(s)
         /\ SubSeq(t, n + 1, Len(t)) = <<>> <=> n = Len(t)
<1>1. Len(s) \in Nat
  BY LenProperties
<1>2. PICK l \in 1 .. Len(s) + 1 : t = SubSeq(s, l, Len(s))
  BY SuffixOf
<1>3. /\ t \in Seq(S) /\ Len(t) = Len(s) - l + 1
      /\ \A i \in 1 .. Len(s) - l + 1 : t[i] = s[i + l - 1]
  BY <1>2, SuffixProperties
<1> DEFINE rest == SubSeq(t, n + 1, Len(t))
           m == l + n
           end == SubSeq(s, m, Len(s))
<1>4. n + 1 \in 1 .. Len(t) + 1 /\ m \in 1 .. Len(s) + 1 /\ Len(t) - (n + 1) + 1 = Len(s) - m + 1
  BY <1>1, <1>3
<1>5. /\ rest \in Seq(S) /\ Len(rest) = Len(s) - m + 1
      /\ \A i \in 1 .. Len(s) - m + 1 : rest[i] = t[i + (n + 1) - 1]
  BY <1>3, <1>4, SuffixProperties
<1>6. \A i \in 1 .. Len(s) - m + 1 :
        /\ i + (n + 1) - 1 \in 1 .. Len(s) - l + 1
        /\ (i + (n + 1) - 1) + l - 1 = i + m - 1
  BY <1>1, <1>3
<1>7. \A i \in 1 .. Len(s) - m + 1 : rest[i] = s[i + m - 1]
  BY <1>3, <1>5, <1>6
<1> HIDE DEF m
<1>8. /\ end \in Seq(S) /\ Len(end) = Len(s) - m + 1
      /\ \A i \in 1 .. Len(s) - m + 1 : end[i] = s[i + m - 1]
  BY <1>4, SuffixProperties
<1> HIDE DEF rest, end
<1>9. rest = end
  <2>1. Len(rest) = Len(end) /\ \A i \in 1 .. Len(rest) : rest[i] = end[i]
    BY <1>5, <1>7, <1>8
  <2> QED
    BY <1>5, <1>8, <2>1, SeqEqual
<1>10. rest = <<>> <=> Len(rest) = 0
  BY <1>5, EmptySeq
<1>11. Len(rest) = 0 <=> n = Len(t)
  <2>1. Len(rest) = Len(t) - (n + 1) + 1
    BY <1>4, <1>5
  <2> QED
    BY <1>1, <1>3, <2>1
<1>12. rest \in Suffixes(s)
  BY <1>4, <1>9, SuffixOf DEF end
<1> QED
  BY <1>3, <1>10, <1>11, <1>12 DEF rest

\* A token of the form key=value in what is left of a body is an item of the body.
LEMMA TokenIsItem ==
  ASSUME NEW items \in Items, NEW l \in 1 .. Len(Encode(items)) + 1,
         NEW key \in Sym, NEW value \in Sym,
         <<key, "=", value>> \in Tokens(SubSeq(Encode(items), l, Len(Encode(items))))
  PROVE  \E a \in 1 .. Len(items) : key = items[a][1] /\ value = items[a][2]
<1> DEFINE E == Encode(items)
           n == Len(items)
           body == SubSeq(E, l, Len(E))
<1>1. /\ n \in Nat \ {0} /\ E \in Seq(Sym) /\ Len(E) = 4 * n - 1
      /\ \A a \in 0 .. n - 1 : E[4 * a + 1] = items[a + 1][1] /\ E[4 * a + 3] = items[a + 1][2]
  BY EncodedSymbols
<1>2. /\ body \in Seq(Sym) /\ Len(body) = Len(E) - l + 1
      /\ \A i \in 1 .. Len(body) : body[i] = E[i + l - 1]
  BY <1>1, SuffixProperties
<1>3. PICK p \in 0 .. Len(body), q \in 1 .. Len(body) + 1 :
        p < q /\ <<key, "=", value>> = SubSeq(body, p + 1, q - 1)
  BY DEF Tokens
<1>4. "=" \in Sym
  BY DEF Sym
<1>12. l \in 1 .. Len(E) + 1
  OBVIOUS
<1> HIDE DEF E, n, body
<1>5. q = p + 4 /\ body[p + 1] = key /\ body[p + 2] = "=" /\ body[p + 3] = value
  <2>1. body \in Seq(Sym) /\ p < q /\ SubSeq(body, p + 1, q - 1) = <<key, "=", value>>
    BY <1>2, <1>3
  <2> QED
    BY <1>4, <2>1, Triple
<1>6. l \in 1 .. 4 * n /\ Len(body) = 4 * n - l
  BY <1>1, <1>2, <1>12
<1>7. p + l + 1 \in 1 .. Len(E) /\ E[p + l + 1] = "="
  <2>1. Len(E) = 4 * n - 1 /\ n \in Nat /\ l \in Int /\ p \in Int /\ q \in 1 .. Len(body) + 1
    BY <1>1, <1>2, <1>6
  <2>2. p + 2 \in 1 .. Len(body) /\ p + l + 1 \in 1 .. Len(E) /\ (p + 2) + l - 1 = p + l + 1
    BY <1>5, <1>6, <2>1
  <2> QED
    BY <1>2, <1>5, <2>2
<1>8. PICK a \in 0 .. n - 1 : p + l + 1 = 4 * a + 2
  BY <1>7, EncodedSeparators DEF E, n
<1>13. p \in Int /\ l \in Int /\ a \in Int /\ n \in Int
  BY <1>1, <1>2, <1>6
<1>9. key = E[p + l] /\ value = E[p + l + 2]
  <2>1. p + 1 \in 1 .. Len(body) /\ p + 3 \in 1 .. Len(body)
    BY <1>5, <1>6, <1>13
  <2>2. body[p + 1] = E[(p + 1) + l - 1] /\ body[p + 3] = E[(p + 3) + l - 1]
    BY <1>2, <2>1
  <2>3. (p + 1) + l - 1 = p + l /\ (p + 3) + l - 1 = p + l + 2
    BY <1>13
  <2> QED
    BY <1>5, <2>2, <2>3
<1>10. p + l = 4 * a + 1 /\ p + l + 2 = 4 * a + 3 /\ a + 1 \in 1 .. n
  BY <1>8, <1>13
<1>11. key = items[a + 1][1] /\ value = items[a + 1][2]
  BY <1>1, <1>9, <1>10
<1> QED
  BY <1>10, <1>11 DEF n

\* The tokens of a body are its items.
LEMMA TokensAreItems ==
  ASSUME NEW items \in Items
  PROVE  /\ \A a \in 1 .. Len(items) :
              <<items[a][1], "=", items[a][2]>> \in Tokens(Encode(items))
         /\ \A token \in Tokens(Encode(items)) :
              \E a \in 1 .. Len(items) : token = <<items[a][1], "=", items[a][2]>>
<1> DEFINE E == Encode(items)
           n == Len(items)
<1>1. /\ n \in Nat \ {0} /\ E \in Seq(Sym) /\ Len(E) = 4 * n - 1
      /\ \A a \in 0 .. n - 1 :
           /\ E[4 * a + 1] = items[a + 1][1] /\ E[4 * a + 1] \in Values
           /\ E[4 * a + 2] = "="
           /\ E[4 * a + 3] = items[a + 1][2] /\ E[4 * a + 3] \in Values
  BY EncodedSymbols
<1>10. \A i \in 1 .. Len(E) : E[i] = "&" <=> \E a \in 1 .. n - 1 : i = 4 * a
  BY EncodedSeparators
<1>3. Values \subseteq Sym /\ "=" \in Sym
  BY DEF Sym
<1> HIDE DEF E, n
<1>2. \A i \in 1 .. 4 * n - 1 : E[i] = "&" <=> \E a \in 1 .. n - 1 : i = 4 * a
  BY <1>1, <1>10
<1>4. \A i \in 0 .. 4 * n : Separates(E, i) <=> \E a \in 0 .. n : i = 4 * a
  <2>1. TAKE i \in 0 .. 4 * n
  <2>2. CASE i = 0
    <3>1. 0 \in 0 .. n /\ i = 4 * 0
      BY <1>1, <2>2
    <3> QED
      BY <2>2, <3>1 DEF Separates
  <2>3. CASE i = 4 * n
    <3>1. n \in 0 .. n /\ i = Len(E) + 1
      BY <1>1, <2>3
    <3> QED
      BY <2>3, <3>1 DEF Separates
  <2>4. CASE i \in 1 .. 4 * n - 1
    <3>1. Separates(E, i) <=> E[i] = "&"
      BY <1>1, <2>4 DEF Separates
    <3>2. ASSUME NEW a \in 0 .. n, i = 4 * a
          PROVE  a \in 1 .. n - 1
      BY <1>1, <2>4, <3>2
    <3>3. \A a \in 1 .. n - 1 : a \in 0 .. n
      BY <1>1
    <3>4. (\E a \in 1 .. n - 1 : i = 4 * a) <=> (\E a \in 0 .. n : i = 4 * a)
      BY <3>2, <3>3
    <3> QED
      BY <1>2, <2>4, <3>1, <3>4
  <2>5. i = 0 \/ i = 4 * n \/ i \in 1 .. 4 * n - 1
    BY <1>1
  <2> QED
    BY <2>2, <2>3, <2>4, <2>5
<1>5. ASSUME NEW a \in 0 .. n - 1
      PROVE  SubSeq(E, 4 * a + 1, 4 * a + 3) = <<items[a + 1][1], "=", items[a + 1][2]>>
  <2>1. /\ E[4 * a + 1] \in Sym /\ E[4 * a + 3] \in Sym
        /\ 4 * a \in 0 .. Len(E) /\ 4 * a + 4 \in 1 .. Len(E) + 1 /\ 4 * a < 4 * a + 4
        /\ (4 * a + 4) - 1 = 4 * a + 3
    BY <1>1, <1>3
  <2>3. SubSeq(E, 4 * a + 1, (4 * a + 4) - 1) = <<E[4 * a + 1], "=", E[4 * a + 3]>>
    <3> DEFINE p == 4 * a
               q == 4 * a + 4
               x == E[4 * a + 1]
               z == E[4 * a + 3]
    <3>1. /\ E \in Seq(Sym) /\ p \in 0 .. Len(E) /\ q \in 1 .. Len(E) + 1 /\ p < q /\ q = p + 4
          /\ x \in Sym /\ z \in Sym /\ "=" \in Sym
          /\ E[p + 1] = x /\ E[p + 2] = "=" /\ E[p + 3] = z
      BY <1>1, <1>3, <2>1
    <3> HIDE DEF p, q, x, z
    <3>2. SubSeq(E, p + 1, q - 1) = <<x, "=", z>>
      BY <3>1, Triple
    <3> QED
      BY <3>2 DEF p, q, x, z
  <2> QED
    BY <1>1, <2>1, <2>3
<1>6. ASSUME NEW a \in 0 .. n - 1
      PROVE  SubSeq(E, 4 * a + 1, 4 * a + 3) \in Tokens(E)
  <2>1. /\ 4 * a \in 0 .. Len(E) /\ 4 * a + 4 \in 1 .. Len(E) + 1
        /\ 4 * a < 4 * a + 4 /\ 4 * a < Len(E) /\ 4 * a + 4 \in 0 .. 4 * n
        /\ a + 1 \in 0 .. n /\ 4 * a + 4 = 4 * (a + 1) /\ 4 * a \in 0 .. 4 * n /\ a \in 0 .. n
    BY <1>1
  <2>2. Separates(E, 4 * a) /\ Separates(E, 4 * a + 4)
    BY <1>4, <2>1
  <2>3. ASSUME NEW k \in 4 * a + 1 .. (4 * a + 4) - 1 PROVE ~Separates(E, k)
    <3>1. k \in 0 .. 4 * n /\ \A b \in 0 .. n : k # 4 * b
      BY <1>1
    <3> QED
      BY <1>4, <3>1
  <2>4. SubSeq(E, 4 * a + 1, (4 * a + 4) - 1) \in Tokens(E)
    <3> DEFINE pair == <<4 * a, 4 * a + 4>>
    <3>1. pair \in (0 .. Len(E)) \X (1 .. Len(E) + 1) /\ pair[1] = 4 * a /\ pair[2] = 4 * a + 4
      BY <2>1
    <3> HIDE DEF pair
    <3>2. pair \in {q \in (0 .. Len(E)) \X (1 .. Len(E) + 1) :
             /\ q[1] < q[2] /\ q[1] < Len(E)
             /\ Separates(E, q[1]) /\ Separates(E, q[2])
             /\ \A k \in q[1] + 1 .. q[2] - 1 : ~Separates(E, k)}
      BY <2>1, <2>2, <2>3, <3>1
    <3> QED
      BY <3>1, <3>2 DEF Tokens
  <2>5. (4 * a + 4) - 1 = 4 * a + 3
    BY <1>1
  <2> QED
    BY <2>4, <2>5
<1>7. ASSUME NEW token \in Tokens(E)
      PROVE  \E a \in 0 .. n - 1 : token = SubSeq(E, 4 * a + 1, 4 * a + 3)
  <2>1. PICK p \in 0 .. Len(E), q \in 1 .. Len(E) + 1 :
          /\ p < q /\ p < Len(E) /\ Separates(E, p) /\ Separates(E, q)
          /\ \A k \in p + 1 .. q - 1 : ~Separates(E, k)
          /\ token = SubSeq(E, p + 1, q - 1)
    BY DEF Tokens
  <2>2. p \in 0 .. 4 * n /\ q \in 0 .. 4 * n
    BY <1>1
  <2>3. PICK a \in 0 .. n : p = 4 * a
    BY <1>4, <2>1, <2>2
  <2>4. PICK b \in 0 .. n : q = 4 * b
    BY <1>4, <2>1, <2>2
  <2>5. a \in 0 .. n - 1 /\ a < b
    BY <1>1, <2>1, <2>3, <2>4
  <2>6. b = a + 1
    <3>1. Separates(E, 4 * (a + 1))
      <4>1. a + 1 \in 0 .. n /\ 4 * (a + 1) \in 0 .. 4 * n
        BY <1>1, <2>5
      <4> QED
        BY <1>4, <4>1
    <3>2. CASE b > a + 1
      <4>1. 4 * (a + 1) \in p + 1 .. q - 1
        BY <1>1, <2>3, <2>4, <2>5, <3>2
      <4> QED
        BY <2>1, <3>1, <4>1
    <3> QED
      BY <2>5, <3>2
  <2>7. q - 1 = 4 * a + 3
    BY <1>1, <2>4, <2>5, <2>6
  <2> QED
    BY <2>1, <2>3, <2>5, <2>7
<1>8. ASSUME NEW a \in 1 .. n
      PROVE  <<items[a][1], "=", items[a][2]>> \in Tokens(E)
  <2>1. a - 1 \in 0 .. n - 1 /\ (a - 1) + 1 = a
    BY <1>1
  <2> QED
    BY <1>5, <1>6, <2>1
<1>9. ASSUME NEW token \in Tokens(E)
      PROVE  \E a \in 1 .. n : token = <<items[a][1], "=", items[a][2]>>
  <2>1. PICK a \in 0 .. n - 1 : token = <<items[a + 1][1], "=", items[a + 1][2]>>
    BY <1>5, <1>7
  <2>2. a + 1 \in 1 .. n
    BY <1>1
  <2> QED
    BY <2>1, <2>2
<1> QED
  BY <1>8, <1>9 DEF E, n

-------------------------------------------------------------------------------
(* What the operations extract.                                            *)

\* kv[key] in what is left of a body is missing or the value of that key.
LEMMA ExtractedIsItem ==
  ASSUME NEW items \in Items, NEW l \in 1 .. Len(Encode(items)) + 1, NEW key \in Sym
  PROVE  LET value == ExtractKV(SubSeq(Encode(items), l, Len(Encode(items))), key)
         IN  value = "" \/ \E a \in 1 .. Len(items) : key = items[a][1] /\ value = items[a][2]
<1> DEFINE E == Encode(items)
           body == SubSeq(E, l, Len(E))
           value == ExtractKV(body, key)
<1>1. E \in Seq(Sym)
  BY EncodedSymbols
<1>2. body \in Seq(Sym)
  BY <1>1, SuffixProperties
<1>3. CASE \E v \in Range(body) : <<key, "=", v>> \in Tokens(body)
  <2>1. value \in Range(body) /\ <<key, "=", value>> \in Tokens(body)
    BY <1>3 DEF ExtractKV
  <2>2. value \in Sym
    BY <1>2, <2>1, ElementOfSeq, LenProperties DEF Range
  <2> HIDE DEF value
  <2>3. \E a \in 1 .. Len(items) : key = items[a][1] /\ value = items[a][2]
    BY <2>1, <2>2, TokenIsItem
  <2> QED
    BY <2>3 DEF value
<1>4. CASE ~ \E v \in Range(body) : <<key, "=", v>> \in Tokens(body)
  BY <1>4 DEF ExtractKV
<1> QED
  BY <1>3, <1>4

\* kv[key] of a whole body, whose keys are different from each other.
LEMMA ItemIsExtracted ==
  ASSUME NEW items \in Items, NEW a \in 1 .. Len(items),
         \A b \in 1 .. Len(items) : items[a][1] = items[b][1] => a = b
  PROVE  ExtractKV(Encode(items), items[a][1]) = items[a][2]
<1> DEFINE E == Encode(items)
           key == items[a][1]
           value == items[a][2]
<1>1. /\ Len(items) \in Nat \ {0} /\ E \in Seq(Sym) /\ Len(E) = 4 * Len(items) - 1
      /\ \A b \in 0 .. Len(items) - 1 : E[4 * b + 3] = items[b + 1][2]
  BY EncodedSymbols
<1>2. /\ <<key, "=", value>> \in Tokens(E)
      /\ \A token \in Tokens(E) :
           \E b \in 1 .. Len(items) : token = <<items[b][1], "=", items[b][2]>>
  BY TokensAreItems
<1>3. DOMAIN E = 1 .. Len(E)
  BY <1>1, LenProperties
<1> HIDE DEF E
<1>4. value \in Range(E)
  <2>1. a - 1 \in 0 .. Len(items) - 1 /\ (a - 1) + 1 = a /\ 4 * (a - 1) + 3 \in 1 .. Len(E)
    BY <1>1
  <2>2. E[4 * (a - 1) + 3] = value
    BY <1>1, <2>1
  <2> QED
    BY <1>3, <2>1, <2>2 DEF Range
<1>5. ASSUME NEW v, <<key, "=", v>> \in Tokens(E)
      PROVE  v = value
  <2>1. PICK b \in 1 .. Len(items) : <<key, "=", v>> = <<items[b][1], "=", items[b][2]>>
    BY <1>2, <1>5
  <2>2. key = items[b][1] /\ v = items[b][2]
    BY <2>1
  <2> QED
    BY <2>2
<1>6. ExtractKV(E, key) = value
  BY <1>2, <1>4, <1>5 DEF ExtractKV
<1> QED
  BY <1>6 DEF E

\* Every part of a whole body has a "=".
LEMMA WholeBodyIsValid ==
  ASSUME NEW items \in Items
  PROVE  ExtractKVIsValid(Encode(items))
<1>1. ASSUME NEW token \in Tokens(Encode(items))
      PROVE  Contains(token, "=")
  <2>1. PICK a \in 1 .. Len(items) : token = <<items[a][1], "=", items[a][2]>>
    BY TokensAreItems
  <2> QED
    BY <2>1 DEF Contains
<1> QED
  BY <1>1 DEF ExtractKVIsValid

-------------------------------------------------------------------------------
(* The producer's answers.                                                 *)

Asked == Queries \cup {NoQuery}

AnswerItems(op, query, n) ==
  CASE op = "GetCreds" -> << <<"password", Passwords[n]>>, <<"username", Usernames[n]>> >>
    [] op = "ParseQuery" -> << <<"info", "text">>, <<"is_valid", Bit(query.n1ql)>> >>
    [] op = "GetNamedParams" ->
         [i \in DOMAIN query.params |-> <<Digit[i], query.params[i]>>]
         \o << <<"info", "text">>, <<"is_valid", Bit(query.n1ql)>>,
               <<"named_params_size", Digit[Len(query.params) + 1]>> >>

\* What is known of the arguments.
LEMMA AskedQueries ==
  ASSUME NEW query \in Asked
  PROVE  /\ query.n1ql \in BOOLEAN /\ query.expression \in BOOLEAN
         /\ query.params \in Seq(Names) /\ Len(query.params) \in 0 .. 2
         /\ DOMAIN query.params = 1 .. Len(query.params)
<1> DEFINE AnyQuery == [n1ql : BOOLEAN, expression : BOOLEAN, params : {<<>>, <<"a">>, <<"a", "b">>}]
<1>1. query \in AnyQuery
  <2>1. NoQuery \in AnyQuery
    BY DEF NoQuery
  <2> HIDE DEF AnyQuery
  <2>2. Queries \subseteq AnyQuery
    BY CommunicatorAssumption DEF AnyQuery
  <2> QED
    BY <2>1, <2>2 DEF Asked
<1>2. query.n1ql \in BOOLEAN
  BY <1>1
<1>3. query.expression \in BOOLEAN
  BY <1>1
<1>4. query.params = <<>> \/ query.params = <<"a">> \/ query.params = <<"a", "b">>
  BY <1>1
<1> HIDE DEF AnyQuery
<1>5. query.params \in Seq(Names) /\ Len(query.params) \in 0 .. 2
  <2>1. CASE query.params = <<>>
    BY <2>1, EmptySeq
  <2>2. CASE query.params = <<"a">>
    <3>1. <<"a">> \in Seq(Names) /\ Len(<<"a">>) = 1
      BY DEF Names
    <3> QED
      BY <2>2, <3>1
  <2>3. CASE query.params = <<"a", "b">>
    <3>1. <<"a", "b">> \in Seq(Names) /\ Len(<<"a", "b">>) = 2
      BY DEF Names
    <3> QED
      BY <2>3, <3>1
  <2> QED
    BY <1>4, <2>1, <2>2, <2>3
<1> QED
  BY <1>2, <1>3, <1>5, LenProperties

\* The items of GetCreds and ParseQuery.
LEMMA PairItems ==
  ASSUME NEW op \in Operations, NEW query \in Asked, NEW n \in 1 .. MaxCredentials + 1
  PROVE  /\ op = "GetCreds" =>
              LET items == AnswerItems(op, query, n)
              IN  /\ items \in Items /\ Len(items) = 2
                  /\ items[1][1] = "password" /\ items[1][2] = Passwords[n]
                  /\ items[2][1] = "username" /\ items[2][2] = Usernames[n]
         /\ op = "ParseQuery" =>
              LET items == AnswerItems(op, query, n)
              IN  /\ items \in Items /\ Len(items) = 2
                  /\ items[1][1] = "info" /\ items[1][2] = "text"
                  /\ items[2][1] = "is_valid" /\ items[2][2] = Bit(query.n1ql)
<1>1. ASSUME NEW k \in Values, NEW v \in Values, NEW k2 \in Values, NEW v2 \in Values
      PROVE  /\ << <<k, v>>, <<k2, v2>> >> \in Items /\ Len(<< <<k, v>>, <<k2, v2>> >>) = 2
  BY DEF Items
<1>2. Passwords[n] \in Values /\ Usernames[n] \in Values
  BY CommunicatorAssumption DEF Values
<1>3. Bit(query.n1ql) \in Values
  BY DEF Bit, Values, Literals
<1>4. /\ "password" \in Values /\ "username" \in Values /\ "info" \in Values
      /\ "text" \in Values /\ "is_valid" \in Values
  BY DEF Values, Literals
<1>5. CASE op = "GetCreds"
  BY <1>1, <1>2, <1>4, <1>5 DEF AnswerItems
<1>6. CASE op = "ParseQuery"
  BY <1>1, <1>3, <1>4, <1>6 DEF AnswerItems
<1> QED
  BY <1>5, <1>6

\* The items of GetNamedParams.
LEMMA ParamItems ==
  ASSUME NEW query \in Asked, NEW n \in 1 .. MaxCredentials + 1
  PROVE  LET items == AnswerItems("GetNamedParams", query, n)
             k == Len(query.params)
         IN  /\ items \in Items /\ Len(items) = k + 3
             /\ \A i \in 1 .. k : items[i][1] = Digit[i] /\ items[i][2] = query.params[i]
             /\ items[k + 1][1] = "info" /\ items[k + 1][2] = "text"
             /\ items[k + 2][1] = "is_valid" /\ items[k + 2][2] = Bit(query.n1ql)
             /\ items[k + 3][1] = "named_params_size" /\ items[k + 3][2] = Digit[k + 1]
<1> DEFINE k == Len(query.params)
           front == [i \in DOMAIN query.params |-> <<Digit[i], query.params[i]>>]
           back == << <<"info", "text">>, <<"is_valid", Bit(query.n1ql)>>,
                      <<"named_params_size", Digit[k + 1]>> >>
           items == AnswerItems("GetNamedParams", query, n)
<1>1. /\ k \in 0 .. 2 /\ query.params \in Seq(Names) /\ DOMAIN query.params = 1 .. k
      /\ \A i \in 1 .. k : query.params[i] \in Names
  BY AskedQueries, ElementOfSeq
<1>2. Digit[1] = "0" /\ Digit[2] = "1" /\ Digit[3] = "2"
  BY DEF Digit
<1>3. Names \subseteq Values
  BY DEF Values, Literals
<1>4. /\ "info" \in Values /\ "text" \in Values /\ "is_valid" \in Values
      /\ "named_params_size" \in Values /\ Bit(query.n1ql) \in Values
      /\ "0" \in Values /\ "1" \in Values /\ "2" \in Values
  BY DEF Bit, Values, Literals
<1>5. Digit[k + 1] \in Values /\ \A i \in 1 .. k : Digit[i] \in Values
  <2>1. k + 1 \in {1, 2, 3} /\ \A i \in 1 .. k : i \in {1, 2}
    BY <1>1
  <2> QED
    BY <1>2, <1>4, <2>1
<1>6. items = front \o back
  BY DEF AnswerItems
<1>7. front \in Seq(Values \X Values) /\ Len(front) = k
  <2>1. front \in [1 .. k -> Values \X Values]
    BY <1>1, <1>3, <1>5
  <2>2. k \in Nat
    BY <1>1
  <2> HIDE DEF front
  <2> QED
    BY <2>1, <2>2, IsASeq, LenProperties
<1>8. \A i \in 1 .. k : front[i] = <<Digit[i], query.params[i]>>
  BY <1>1
<1>9. /\ back \in Seq(Values \X Values) /\ Len(back) = 3
      /\ back[1] = <<"info", "text">> /\ back[2] = <<"is_valid", Bit(query.n1ql)>>
      /\ back[3] = <<"named_params_size", Digit[k + 1]>>
  BY <1>4, <1>5
<1> HIDE DEF front, back, items
<1> HIDE DEF k
<1>10. /\ items \in Seq(Values \X Values) /\ Len(items) = k + 3
       /\ \A i \in 1 .. k + 3 : items[i] = IF i <= k THEN front[i] ELSE back[i - k]
  <2> DEFINE T == Values \X Values
  <2>1. front \in Seq(T) /\ back \in Seq(T)
    BY <1>7, <1>9
  <2> HIDE DEF T
  <2>2. /\ items \in Seq(T) /\ Len(items) = Len(front) + Len(back)
        /\ \A i \in 1 .. Len(front) + Len(back) :
             items[i] = IF i <= Len(front) THEN front[i] ELSE back[i - Len(front)]
    BY <1>6, <2>1, ConcatProperties
  <2> QED
    BY <1>7, <1>9, <2>2 DEF T
<1>11. items # <<>>
  BY <1>1, <1>10, EmptySeq
<1>12. \A i \in 1 .. k : items[i] = <<Digit[i], query.params[i]>>
  <2>1. TAKE i \in 1 .. k
  <2>2. i \in 1 .. k + 3 /\ i <= k
    BY <1>1
  <2> QED
    BY <1>8, <1>10, <2>2
<1>13. items[k + 1] = back[1] /\ items[k + 2] = back[2] /\ items[k + 3] = back[3]
  <2>1. /\ k + 1 \in 1 .. k + 3 /\ k + 2 \in 1 .. k + 3 /\ k + 3 \in 1 .. k + 3
        /\ ~(k + 1 <= k) /\ ~(k + 2 <= k) /\ ~(k + 3 <= k)
        /\ (k + 1) - k = 1 /\ (k + 2) - k = 2 /\ (k + 3) - k = 3
    BY <1>1
  <2> QED
    BY <1>10, <2>1
<1>14. /\ \A i \in 1 .. k : items[i][1] = Digit[i] /\ items[i][2] = query.params[i]
       /\ items[k + 1][1] = "info" /\ items[k + 1][2] = "text"
       /\ items[k + 2][1] = "is_valid" /\ items[k + 2][2] = Bit(query.n1ql)
       /\ items[k + 3][1] = "named_params_size" /\ items[k + 3][2] = Digit[k + 1]
  BY <1>9, <1>12, <1>13
<1> QED
  BY <1>10, <1>11, <1>14 DEF Items, items, k

\* An answer is encoded.
LEMMA AnswerIsEncoded ==
  ASSUME NEW op \in Operations, NEW query \in Asked, NEW n \in 1 .. MaxCredentials + 1
  PROVE  /\ AnswerItems(op, query, n) \in Items
         /\ Answer(op, query, n) = Encode(AnswerItems(op, query, n))
         /\ Answer(op, query, n) \in Seq(Sym) /\ Answer(op, query, n) # <<>>
<1>1. AnswerItems(op, query, n) \in Items
  BY PairItems, ParamItems DEF Operations
<1>2. Answer(op, query, n) = Encode(AnswerItems(op, query, n))
  BY DEF Operations, Answer, AnswerItems
<1>3. Encode(AnswerItems(op, query, n)) \in Seq(Sym) /\ Len(Encode(AnswerItems(op, query, n))) # 0
  <2>1. /\ Len(AnswerItems(op, query, n)) \in Nat \ {0}
        /\ Encode(AnswerItems(op, query, n)) \in Seq(Sym)
        /\ Len(Encode(AnswerItems(op, query, n))) = 4 * Len(AnswerItems(op, query, n)) - 1
    BY <1>1, EncodedSymbols
  <2> QED
    BY <2>1
<1> QED
  BY <1>1, <1>2, <1>3, EmptySeq

\* std::stoi of what the producer sends.
LEMMA Numbers ==
  /\ \A b \in BOOLEAN : IsNumber(Bit(b)) /\ (StoI(Bit(b)) # 0 <=> b)
  /\ \A k \in 0 .. 2 : IsNumber(Digit[k + 1]) /\ StoI(Digit[k + 1]) = k
  /\ \A text : IsNumber(text) => StoI(text) \in 0 .. 2
  /\ ~IsNumber("")
<1>1. /\ DOMAIN Digit = {1, 2, 3} /\ Digit[1] = "0" /\ Digit[2] = "1" /\ Digit[3] = "2"
  BY DEF Digit
<1> HIDE DEF Digit
<1>2. \A text : IsNumber(text) <=> text \in {"0", "1", "2"}
  BY <1>1 DEF IsNumber, Range
<1>3. StoI("0") = 0 /\ StoI("1") = 1 /\ StoI("2") = 2
  <2>1. (CHOOSE n \in DOMAIN Digit : Digit[n] = "0") = 1
    BY <1>1
  <2>2. (CHOOSE n \in DOMAIN Digit : Digit[n] = "1") = 2
    BY <1>1
  <2>3. (CHOOSE n \in DOMAIN Digit : Digit[n] = "2") = 3
    BY <1>1
  <2> QED
    BY <2>1, <2>2, <2>3 DEF StoI
<1>4. \A b \in BOOLEAN : IsNumber(Bit(b)) /\ (StoI(Bit(b)) # 0 <=> b)
  BY <1>2, <1>3 DEF Bit
<1>5. \A k \in 0 .. 2 : IsNumber(Digit[k + 1]) /\ StoI(Digit[k + 1]) = k
  <2>1. TAKE k \in 0 .. 2
  <2>2. CASE k = 0
    BY <1>1, <1>2, <1>3, <2>2
  <2>3. CASE k = 1
    BY <1>1, <1>2, <1>3, <2>3
  <2>4. CASE k = 2
    BY <1>1, <1>2, <1>3, <2>4
  <2> QED
    BY <2>2, <2>3, <2>4
<1>6. \A text : IsNumber(text) => StoI(text) \in 0 .. 2
  BY <1>2, <1>3
<1>7. ~IsNumber("")
  BY <1>2
<1> QED
  BY <1>4, <1>5, <1>6, <1>7

\* What the operations extract from a body that arrived in full.
LEMMA WholeAnswer ==
  ASSUME NEW op \in Operations, NEW query \in Asked, NEW n \in 1 .. MaxCredentials + 1,
         status = "0"
  PROVE  LET body == Answer(op, query, n)
         IN  /\ ~Aborts(op, body)
             /\ op = "GetCreds" =>
                  /\ Extract(op, body).username = Usernames[n]
                  /\ Extract(op, body).password = Passwords[n]
             /\ op = "ParseQuery" => (Extract(op, body).is_valid <=> query.n1ql)
             /\ op = "GetNamedParams" =>
                  /\ Extract(op, body).is_valid <=> query.n1ql
                  /\ Extract(op, body).named_params = query.params
<1> DEFINE items == AnswerItems(op, query, n)
           body == Answer(op, query, n)
           k == Len(query.params)
<1>1. items \in Items /\ body = Encode(items)
  BY AnswerIsEncoded
<1>2. ExtractKVIsValid(body)
  BY <1>1, WholeBodyIsValid
<1>3. ASSUME NEW a \in 1 .. Len(items),
             \A b \in 1 .. Len(items) : items[a][1] = items[b][1] => a = b
      PROVE  ExtractKV(body, items[a][1]) = items[a][2]
  BY <1>1, <1>3, ItemIsExtracted
<1>4. query.n1ql \in BOOLEAN
  BY AskedQueries
<1> HIDE DEF body, items
<1>5. CASE op = "GetCreds"
  <2>1. /\ Len(items) = 2 /\ items[1][1] = "password" /\ items[1][2] = Passwords[n]
        /\ items[2][1] = "username" /\ items[2][2] = Usernames[n]
    BY <1>5, PairItems DEF items
  <2>2. ExtractKV(body, "password") = Passwords[n] /\ ExtractKV(body, "username") = Usernames[n]
    <3>1. \A a \in 1 .. Len(items) : a = 1 \/ a = 2
      BY <2>1
    <3> QED
      BY <1>3, <2>1, <3>1
  <2>3. ~Aborts(op, body)
    BY <1>5 DEF Aborts, Numeric
  <2>4. Extract(op, body).username = Usernames[n] /\ Extract(op, body).password = Passwords[n]
    BY <1>2, <1>5, <2>2 DEF Extract
  <2> QED
    BY <1>5, <2>3, <2>4 DEF body
<1>6. CASE op = "ParseQuery"
  <2>1. /\ Len(items) = 2 /\ items[1][1] = "info"
        /\ items[2][1] = "is_valid" /\ items[2][2] = Bit(query.n1ql)
    BY <1>6, PairItems DEF items
  <2>2. ExtractKV(body, "is_valid") = Bit(query.n1ql)
    <3>1. \A a \in 1 .. Len(items) : a = 1 \/ a = 2
      BY <2>1
    <3> QED
      BY <1>3, <2>1, <3>1
  <2>3. ~Aborts(op, body)
    BY <1>4, <1>6, <2>2, Numbers DEF Aborts, Numeric
  <2>4. Extract(op, body).is_valid = (StoI(ExtractKV(body, "is_valid")) # 0)
    BY <1>2, <1>6 DEF Extract, Failed
  <2>5. Extract(op, body).is_valid <=> query.n1ql
    BY <1>4, <2>2, <2>4, Numbers
  <2> QED
    BY <1>6, <2>3, <2>5 DEF body
<1>7. CASE op = "GetNamedParams"
  <2>1. /\ k \in 0 .. 2 /\ query.params \in Seq(Names) /\ DOMAIN query.params = 1 .. k
    BY AskedQueries
  <2>2. /\ Len(items) = k + 3
        /\ \A i \in 1 .. k : items[i][1] = Digit[i] /\ items[i][2] = query.params[i]
        /\ items[k + 1][1] = "info"
        /\ items[k + 2][1] = "is_valid" /\ items[k + 2][2] = Bit(query.n1ql)
        /\ items[k + 3][1] = "named_params_size" /\ items[k + 3][2] = Digit[k + 1]
    BY <1>7, ParamItems DEF items
  <2> HIDE DEF k
  <2>3. /\ \A i \in 1 .. k : Digit[i] \in {"0", "1", "2"}
        /\ \A i, j \in 1 .. k : Digit[i] = Digit[j] => i = j
    <3>1. \A i \in 1 .. k : i = 1 \/ i = 2
      BY <2>1
    <3> QED
      BY <3>1 DEF Digit
  <2>4. \A a \in 1 .. Len(items) : a \in 1 .. k \/ a = k + 1 \/ a = k + 2 \/ a = k + 3
    BY <2>1, <2>2
  <2>5. k + 1 \in 1 .. Len(items) /\ k + 2 \in 1 .. Len(items) /\ k + 3 \in 1 .. Len(items)
    BY <2>1, <2>2
  <2>6. ExtractKV(body, "is_valid") = Bit(query.n1ql)
    <3>1. \A b \in 1 .. Len(items) : items[k + 2][1] = items[b][1] => k + 2 = b
      BY <2>2, <2>3, <2>4
    <3> QED
      BY <1>3, <2>2, <2>5, <3>1
  <2>7. ExtractKV(body, "named_params_size") = Digit[k + 1]
    <3>1. \A b \in 1 .. Len(items) : items[k + 3][1] = items[b][1] => k + 3 = b
      BY <2>2, <2>3, <2>4
    <3> QED
      BY <1>3, <2>2, <2>5, <3>1
  <2>8. ASSUME NEW i \in 1 .. k
        PROVE  ExtractKV(body, Digit[i]) = query.params[i]
    <3>1. \A b \in 1 .. Len(items) : items[i][1] = items[b][1] => i = b
      BY <2>2, <2>3, <2>4
    <3>2. i \in 1 .. Len(items)
      BY <2>1, <2>2
    <3> QED
      BY <1>3, <2>2, <3>1, <3>2
  <2>9. ~Aborts(op, body)
    BY <1>4, <1>7, <2>1, <2>6, <2>7, Numbers DEF Aborts, Numeric
  <2>10. /\ Extract(op, body).is_valid = (StoI(ExtractKV(body, "is_valid")) # 0)
         /\ Extract(op, body).named_params =
              [i \in 1 .. StoI(ExtractKV(body, "named_params_size")) |-> ExtractKV(body, Digit[i])]
    BY <1>2, <1>7 DEF Extract, Failed
  <2>11. Extract(op, body).is_valid <=> query.n1ql
    BY <1>4, <2>6, <2>10, Numbers
  <2>12. Extract(op, body).named_params = query.params
    <3>1. StoI(ExtractKV(body, "named_params_size")) = k
      BY <2>1, <2>7, Numbers
    <3>2. Extract(op, body).named_params = [i \in 1 .. k |-> ExtractKV(body, Digit[i])]
      BY <2>10, <3>1
    <3>3. [i \in 1 .. k |-> ExtractKV(body, Digit[i])] = [i \in 1 .. k |-> query.params[i]]
      BY <2>8
    <3>4. query.params = [i \in 1 .. k |-> query.params[i]]
      BY <2>1
    <3> QED
      BY <3>2, <3>3, <3>4
  <2> QED
    BY <1>7, <2>9, <2>11, <2>12 DEF body
<1> QED
  BY <1>5, <1>6, <1>7 DEF Operations

\* What they extract from the last chunks of a body.
LEMMA LastChunks ==
  ASSUME NEW op \in Operations, NEW query \in Asked, NEW n \in 1 .. MaxCredentials + 1,
         status = "0", NEW body \in Suffixes(Answer(op, query, n)), ~Aborts(op, body)
  PROVE  /\ op = "GetCreds" => /\ Extract(op, body).username \in {"", Usernames[n]}
                               /\ Extract(op, body).password \in {"", Passwords[n]}
                               /\ Extract(op, body).named_params = <<>>
         /\ op = "ParseQuery" => /\ Extract(op, body).is_valid => query.n1ql
                                 /\ Extract(op, body).named_params = <<>>
         /\ op = "GetNamedParams" => Extract(op, body).named_params \in Seq(Names \cup {""})
         /\ Extract(op, body).is_valid \in BOOLEAN
<1> DEFINE items == AnswerItems(op, query, n)
<1>1. items \in Items /\ Answer(op, query, n) = Encode(items)
  BY AnswerIsEncoded
<1>2. PICK l \in 1 .. Len(Encode(items)) + 1 : body = SubSeq(Encode(items), l, Len(Encode(items)))
  <2>1. Encode(items) \in Seq(Sym)
    BY <1>1, EncodedSymbols
  <2> QED
    BY <1>1, <2>1, SuffixOf
<1>3. ASSUME NEW key \in Sym
      PROVE  \/ ExtractKV(body, key) = ""
             \/ \E a \in 1 .. Len(items) : key = items[a][1] /\ ExtractKV(body, key) = items[a][2]
  BY <1>1, <1>2, ExtractedIsItem
<1>4. query.n1ql \in BOOLEAN
  BY AskedQueries
<1>5. Literals \subseteq Sym
  BY DEF Sym, Values
<1> HIDE DEF items
<1>6. CASE ~ExtractKVIsValid(body)
  <2>1. Extract(op, body) = Failed
    BY <1>6 DEF Extract
  <2>2. <<>> \in Seq(Names \cup {""})
    OBVIOUS
  <2>3. /\ Failed.username = "" /\ Failed.password = ""
        /\ Failed.named_params = <<>> /\ Failed.is_valid = FALSE
    BY DEF Failed
  <2> QED
    BY <2>1, <2>2, <2>3
<1>7. CASE ExtractKVIsValid(body)
  <2>1. CASE op = "GetCreds"
    <3>1. /\ Len(items) = 2 /\ items[1][1] = "password" /\ items[1][2] = Passwords[n]
          /\ items[2][1] = "username" /\ items[2][2] = Usernames[n]
      BY <2>1, PairItems DEF items
    <3>2. \A a \in 1 .. Len(items) : a = 1 \/ a = 2
      BY <3>1
    <3>3. "username" \in Sym /\ "password" \in Sym
      BY <1>5 DEF Literals
    <3>4. /\ ExtractKV(body, "username") \in {"", Usernames[n]}
          /\ ExtractKV(body, "password") \in {"", Passwords[n]}
      BY <1>3, <3>1, <3>2, <3>3
    <3>5. /\ Extract(op, body).username = ExtractKV(body, "username")
          /\ Extract(op, body).password = ExtractKV(body, "password")
          /\ Extract(op, body).named_params = <<>> /\ Extract(op, body).is_valid = TRUE
      BY <1>7, <2>1 DEF Extract
    <3> QED
      BY <2>1, <3>4, <3>5
  <2>2. CASE op = "ParseQuery"
    <3>1. /\ Len(items) = 2 /\ items[1][1] = "info"
          /\ items[2][1] = "is_valid" /\ items[2][2] = Bit(query.n1ql)
      BY <2>2, PairItems DEF items
    <3>2. \A a \in 1 .. Len(items) : a = 1 \/ a = 2
      BY <3>1
    <3>3. "is_valid" \in Sym
      BY <1>5 DEF Literals
    <3>4. ExtractKV(body, "is_valid") \in {"", Bit(query.n1ql)}
      BY <1>3, <3>1, <3>2, <3>3
    <3>5. IsNumber(ExtractKV(body, "is_valid"))
      BY <1>7, <2>2 DEF Aborts, Numeric
    <3>6. /\ Extract(op, body).is_valid = (StoI(ExtractKV(body, "is_valid")) # 0)
          /\ Extract(op, body).named_params = <<>>
      BY <1>7, <2>2 DEF Extract, Failed
    <3>7. Extract(op, body).is_valid => query.n1ql
      BY <1>4, <3>4, <3>5, <3>6, Numbers
    <3>8. Extract(op, body).is_valid \in BOOLEAN
      BY <3>6
    <3> QED
      BY <2>2, <3>6, <3>7, <3>8
  <2>3. CASE op = "GetNamedParams"
    <3> DEFINE k == Len(query.params)
               size == StoI(ExtractKV(body, "named_params_size"))
               params == [i \in 1 .. size |-> ExtractKV(body, Digit[i])]
    <3>1. k \in 0 .. 2 /\ query.params \in Seq(Names) /\ \A i \in 1 .. k : query.params[i] \in Names
      BY AskedQueries, ElementOfSeq
    <3>2. /\ Len(items) = k + 3
          /\ \A i \in 1 .. k : items[i][2] = query.params[i]
          /\ items[k + 1][1] = "info" /\ items[k + 2][1] = "is_valid"
          /\ items[k + 3][1] = "named_params_size"
      BY <2>3, ParamItems DEF items
    <3> HIDE DEF k
    <3>3. \A a \in 1 .. Len(items) : a \in 1 .. k \/ a = k + 1 \/ a = k + 2 \/ a = k + 3
      BY <3>1, <3>2
    <3>4. ASSUME NEW key \in {"0", "1", "2"}
          PROVE  ExtractKV(body, key) \in Names \cup {""}
      <4>1. key \in Sym
        BY <1>5 DEF Literals
      <4>2. CASE \E a \in 1 .. Len(items) : key = items[a][1] /\ ExtractKV(body, key) = items[a][2]
        <5>1. PICK a \in 1 .. Len(items) : key = items[a][1] /\ ExtractKV(body, key) = items[a][2]
          BY <4>2
        <5>2. a \in 1 .. k
          BY <3>2, <3>3, <5>1
        <5> QED
          BY <3>1, <3>2, <5>1, <5>2
      <4> QED
        BY <1>3, <4>1, <4>2
    <3>5. size \in 0 .. 2
      <4>1. IsNumber(ExtractKV(body, "named_params_size"))
        BY <1>7, <2>3 DEF Aborts, Numeric
      <4> QED
        BY <4>1, Numbers
    <3>6. /\ Extract(op, body).named_params = params
          /\ Extract(op, body).is_valid = (StoI(ExtractKV(body, "is_valid")) # 0)
      BY <1>7, <2>3 DEF Extract, Failed
    <3> HIDE DEF size
    <3>7. params \in Seq(Names \cup {""})
      <4>1. ASSUME NEW i \in 1 .. size PROVE ExtractKV(body, Digit[i]) \in Names \cup {""}
        <5>1. i = 1 \/ i = 2
          BY <3>5
        <5>2. Digit[i] \in {"0", "1", "2"}
          BY <5>1 DEF Digit
        <5> QED
          BY <3>4, <5>2
      <4>2. params \in [1 .. size -> Names \cup {""}]
        BY <4>1
      <4>3. size \in Nat
        BY <3>5
      <4> DEFINE T == Names \cup {""}
      <4>4. params \in [1 .. size -> T]
        BY <4>2
      <4> HIDE DEF params, T
      <4>5. params \in Seq(T)
        BY <4>3, <4>4, IsASeq
      <4> QED
        BY <4>5 DEF T
    <3> HIDE DEF params
    <3>8. Extract(op, body).is_valid \in BOOLEAN
      BY <3>6
    <3> QED
      BY <2>3, <3>6, <3>7, <3>8
  <2> QED
    BY <2>1, <2>2, <2>3 DEF Operations
<1> QED
  BY <1>6, <1>7

-------------------------------------------------------------------------------
(* The inductive invariant.                                                *)

InFull == "chunks" \notin Features

\* What has not arrived, and when all has what did, is the end of the producer's answer;
\* in full, it is the answer.
Arrives(n) ==
  LET answer == Answer(request.op, request.query, n)
  IN  /\ arriving \in Suffixes(answer)
      /\ arriving = <<>> => response \in Suffixes(answer)
      /\ InFull => answer = IF arriving = <<>> THEN response ELSE arriving

UnderWay ==
  /\ state \in {"sent", "answering"} => request.op \in Operations
  /\ state = "answering" /\ status = "0" => \E n \in 1 .. credentials : Arrives(n)
  /\ status = "text" => "malformed" \in Features
  /\ InFull /\ "malformed" \notin Features => state # "aborted"

\* What an operation returned.
Returned ==
  state = "idle" =>
    /\ request.op = "none" => info = Failed
    /\ request.op = "GetCreds" /\ info.is_valid /\ InFull =>
         \E n \in 1 .. credentials : info.username = Usernames[n] /\ info.password = Passwords[n]
    /\ request.op = "ParseQuery" /\ info.is_valid => request.query.n1ql
    /\ request.op = "GetNamedParams" /\ InFull =>
         /\ info.named_params \in {request.query.params, <<>>}
         /\ info.is_valid => info.named_params = request.query.params

\* The lexer waits for the request about the query that it is at, and only then.
Waits ==
  /\ pass \in {"compile", "jsify"} => step = "none"
  /\ pass \in {"compile", "jsify"} /\ ~asked => state = "idle"
  /\ asked =>
       /\ pass \in {"compile", "jsify"} /\ at \in 1 .. Len(handler) /\ request.query = Query
       /\ \/ request.op = "ParseQuery"
          \/ request.op = "GetNamedParams" /\ pass = "jsify" /\ Query.n1ql

\* Without a failure, Jsify gets the answers that Compile could get.
Exact ==
  InFull /\ asked /\ state = "idle" /\ pass = "jsify" /\ ~failed =>
    /\ request.op = "ParseQuery" => (info.is_valid <=> Query.n1ql)
    /\ request.op = "GetNamedParams" => info.named_params = Query.params

Accepted(i) == handler[i].n1ql \/ handler[i].expression

Builds ==
  /\ pass = "compile" => script = <<>> /\ \A i \in 1 .. at - 1 : Accepted(i)
  /\ pass \in {"jsify", "transpile"} => \A i \in 1 .. Len(handler) : Accepted(i)
  /\ pass = "jsify" => Len(script) = at - 1
  /\ \A i \in 1 .. Len(script) : script[i].as = "N1qlQuery" => handler[i].n1ql
  /\ InFull => \A i \in 1 .. Len(script) :
       script[i].as = "N1qlQuery" => script[i].params \in {handler[i].params, <<>>}
  /\ InFull /\ ~failed =>
       /\ pass = "transpile" => Len(script) = Len(handler)
       /\ \A i \in 1 .. Len(script) : handler[i].n1ql =>
            script[i] = [as |-> "N1qlQuery", params |-> handler[i].params]

\* The credentials answered are those of the request under way, and then those returned.
Answers(which, value, values) ==
  value # "" => answered_by[which] # 0 /\ value = values[answered_by[which]]

Authenticates ==
  /\ \A which \in {"username", "password"} : answered_by[which] <= credentials
  /\ step # "none" => request.op = "GetCreds"
  /\ step \in {"username", "password"} /\ state = "answering" =>
       answered_by[step] # 0 /\ (status = "0" => Arrives(answered_by[step]))
  /\ step = "username" /\ state = "idle" => Answers("username", info.username, Usernames)
  /\ step = "password" /\ state = "idle" => Answers("password", info.password, Passwords)
  /\ step \in {"password", "connect"} => Answers("username", username, Usernames)
  /\ step = "connect" => Answers("password", password, Passwords)

IInv == TypeOK /\ UnderWay /\ Returned /\ Waits /\ Exact /\ Builds /\ Authenticates

-------------------------------------------------------------------------------
(* The requests.                                                           *)

CommInv == CommTypeOK /\ UnderWay /\ Returned

\* The chunks that arrive are those of the same answer.
LEMMA BodyArrives ==
  ASSUME CommTypeOK, request.op \in Operations,
         NEW n \in 1 .. MaxCredentials + 1, Arrives(n), NEW m \in 1 .. Len(arriving), BodyCallback(m)
  PROVE  Arrives(n)'
<1> DEFINE answer == Answer(request.op, request.query, n)
<1>1. request.query \in Asked
  BY DEF CommTypeOK, Asked
<1>2. answer \in Seq(Sym) /\ answer # <<>>
  BY <1>1, AnswerIsEncoded
<1>3. arriving \in Suffixes(answer) /\ (InFull => answer = IF arriving = <<>> THEN response ELSE arriving)
  BY DEF Arrives
<1>4. /\ response' = SubSeq(arriving, 1, m) /\ arriving' = SubSeq(arriving, m + 1, Len(arriving))
      /\ m < Len(arriving) => ~InFull
      /\ answer' = answer
  BY DEF BodyCallback, InFull
<1> HIDE DEF answer
<1>5. arriving \in Seq(Sym) /\ arriving' \in Suffixes(answer) /\ (arriving' = <<>> <=> m = Len(arriving))
  BY <1>2, <1>3, <1>4, SuffixOfSuffix
<1>6. Len(arriving) \in Nat /\ arriving # <<>>
  BY <1>5, LenProperties, EmptySeq
<1>7. m = Len(arriving) => response' = arriving
  <2>1. Len(arriving) > 0 => SubSeq(arriving, 1, Len(arriving)) = arriving
    <3> DEFINE all == SubSeq(arriving, 1, Len(arriving))
    <3>1. 1 \in 1 .. Len(arriving) + 1 /\ Len(arriving) - 1 + 1 = Len(arriving)
      BY <1>6
    <3>2. /\ all \in Seq(Sym) /\ Len(all) = Len(arriving)
          /\ \A i \in 1 .. Len(arriving) : all[i] = arriving[i + 1 - 1]
      BY <1>5, <3>1, SuffixProperties
    <3>3. \A i \in 1 .. Len(arriving) : all[i] = arriving[i]
      BY <1>6, <3>2
    <3> HIDE DEF all
    <3>4. all = arriving
      BY <1>5, <3>2, <3>3, SeqEqual
    <3> QED
      BY <3>4 DEF all
  <2> QED
    BY <1>4, <1>6, <2>1
<1>8. InFull => m = Len(arriving)
  BY <1>4, <1>6
<1> QED
  BY <1>3, <1>4, <1>5, <1>6, <1>7, <1>8 DEF Arrives, answer, InFull

\* The producer answers with the credentials that it has.
LEMMA HeaderArrives ==
  ASSUME CommTypeOK, request.op \in Operations, HeaderCallback, status' = "0"
  PROVE  Arrives(credentials)'
<1> DEFINE answer == Answer(request.op, request.query, credentials)
<1>1. request.query \in Asked /\ credentials \in 1 .. MaxCredentials + 1
  BY DEF CommTypeOK, Asked
<1>2. answer \in Seq(Sym) /\ answer # <<>>
  BY <1>1, AnswerIsEncoded
<1>3. arriving' = answer /\ answer' = answer
  BY DEF HeaderCallback, CommTypeOK
<1> HIDE DEF answer
<1>4. answer \in Suffixes(answer)
  <2>1. Len(answer) \in Nat
    BY <1>2, LenProperties
  <2>2. 1 \in 1 .. Len(answer) + 1 /\ Len(answer) - 1 + 1 = Len(answer)
    BY <2>1
  <2> DEFINE all == SubSeq(answer, 1, Len(answer))
  <2>3. /\ all \in Seq(Sym) /\ Len(all) = Len(answer)
        /\ \A i \in 1 .. Len(answer) : all[i] = answer[i + 1 - 1]
    BY <1>2, <2>2, SuffixProperties
  <2>4. \A i \in 1 .. Len(answer) : all[i] = answer[i]
    BY <2>1, <2>3
  <2> HIDE DEF all
  <2>5. all = answer
    BY <1>2, <2>3, <2>4, SeqEqual
  <2> QED
    BY <1>2, <2>2, <2>5, SuffixOf DEF all
<1> QED
  BY <1>2, <1>3, <1>4 DEF Arrives, answer, InFull

\* A request is posted.
LEMMA PostSteps ==
  ASSUME CommInv, NEW op \in Operations, NEW query \in Asked, HTTPPost(op, query)
  PROVE  CommInv'
<1> USE DEF CommInv, HTTPPost
<1>1. CommTypeOK'
  BY DEF CommTypeOK, Asked
<1>2. UnderWay'
  BY DEF UnderWay, InFull
<1>3. Returned'
  BY DEF Returned
<1> QED
  BY <1>1, <1>2, <1>3

\* A request is answered.
LEMMA ReturnSteps ==
  ASSUME CommInv, Return
  PROVE  CommInv'
<1>1. /\ request.op \in Operations /\ request.query \in Asked
      /\ credentials \in 1 .. MaxCredentials + 1
      /\ state = "answering" /\ arriving = <<>>
      /\ UNCHANGED <<request, status, response, arriving, credentials>>
  BY DEF CommInv, CommTypeOK, UnderWay, Return, Asked
<1>2. CASE Aborts(request.op, response)
  <2>1. state' = "aborted" /\ UNCHANGED info
    BY <1>2 DEF Return
  <2>2. CommTypeOK'
    BY <1>1, <2>1 DEF CommInv, CommTypeOK
  <2>3. CASE status = "text"
    BY <1>1, <2>1, <2>2, <2>3 DEF CommInv, UnderWay, Returned, InFull
  <2>4. CASE status # "text"
    <3>1. status = "0"
      BY <1>2, <2>4 DEF Aborts
    <3>2. PICK n \in 1 .. credentials : Arrives(n)
      BY <1>1, <3>1 DEF CommInv, UnderWay
    <3>3. n \in 1 .. MaxCredentials + 1
      BY <1>1, CommunicatorAssumption
    <3>4. ~InFull
      BY <1>1, <1>2, <3>1, <3>2, <3>3, WholeAnswer DEF Arrives
    <3> QED
      BY <1>1, <2>1, <2>2, <3>1, <3>4 DEF CommInv, UnderWay, Returned, InFull
  <2> QED
    BY <2>3, <2>4
<1>3. CASE ~Aborts(request.op, response) /\ status # "0"
  <2>1. state' = "idle" /\ info' = Failed
    BY <1>3 DEF Return, Extract
  <2>2. /\ Failed.is_valid = FALSE /\ Failed.named_params = <<>>
        /\ <<>> \in Seq(Names \cup {""})
    BY DEF Failed
  <2>3. CommTypeOK'
    BY <1>1, <2>1, <2>2 DEF CommInv, CommTypeOK
  <2> QED
    BY <1>1, <2>1, <2>2, <2>3 DEF CommInv, UnderWay, Returned, InFull
<1>4. CASE ~Aborts(request.op, response) /\ status = "0"
  <2>1. state' = "idle" /\ info' = Extract(request.op, response)
    BY <1>4 DEF Return
  <2>2. PICK n \in 1 .. credentials : Arrives(n)
    BY <1>1, <1>4 DEF CommInv, UnderWay
  <2>3. n \in 1 .. MaxCredentials + 1
    BY <1>1, CommunicatorAssumption
  <2>4. response \in Suffixes(Answer(request.op, request.query, n))
    BY <1>1, <2>2 DEF Arrives
  <2>5. /\ request.op = "ParseQuery" =>
             (info'.is_valid => request.query.n1ql) /\ info'.named_params = <<>>
        /\ request.op = "GetCreds" => info'.named_params = <<>>
        /\ request.op = "GetNamedParams" => info'.named_params \in Seq(Names \cup {""})
        /\ info'.is_valid \in BOOLEAN
    BY <1>1, <1>4, <2>1, <2>3, <2>4, LastChunks
  <2>6. InFull => response = Answer(request.op, request.query, n)
    BY <1>1, <2>2 DEF Arrives
  <2>7. InFull =>
          /\ request.op = "GetCreds" => info'.username = Usernames[n] /\ info'.password = Passwords[n]
          /\ request.op = "GetNamedParams" => info'.named_params = request.query.params
    BY <1>1, <1>4, <2>1, <2>3, <2>6, WholeAnswer
  <2>8. info'.named_params \in Seq(Names \cup {""})
    <3>1. <<>> \in Seq(Names \cup {""})
      OBVIOUS
    <3> QED
      BY <1>1, <2>5, <3>1 DEF Operations
  <2>9. CommTypeOK'
    BY <1>1, <2>1, <2>5, <2>8 DEF CommInv, CommTypeOK
  <2>10. Returned'
    <3>1. request.op # "none"
      BY <1>1 DEF Operations
    <3> QED
      BY <1>1, <2>2, <2>5, <2>7, <3>1 DEF Returned, InFull
  <2> QED
    BY <1>1, <2>1, <2>9, <2>10 DEF CommInv, UnderWay, InFull
<1> QED
  BY <1>2, <1>3, <1>4

\* The other steps of a request under way.
LEMMA CommSteps ==
  ASSUME CommInv, CommNext
  PROVE  CommInv'
<1>0. /\ CommTypeOK /\ UnderWay /\ Returned
      /\ credentials \in 1 .. MaxCredentials + 1 /\ MaxCredentials \in Nat
  BY CommunicatorAssumption DEF CommInv, CommTypeOK
<1>1. CASE HeaderCallback
  <2>1. request.op \in Operations /\ state' = "answering" /\ UNCHANGED <<request, credentials, info>>
    BY <1>0, <1>1 DEF HeaderCallback, UnderWay
  <2>2. status' = "0" => Arrives(credentials)'
    BY <1>0, <1>1, <2>1, HeaderArrives
  <2>3. CommTypeOK'
    BY <1>0, <1>1, <2>1 DEF HeaderCallback, CommTypeOK
  <2>4. UnderWay'
    <3>1. credentials \in 1 .. credentials
      BY <1>0
    <3>2. status' = "text" => "malformed" \in Features
      BY <1>0, <1>1 DEF HeaderCallback, CommTypeOK
    <3> QED
      BY <2>1, <2>2, <3>1, <3>2 DEF UnderWay, InFull
  <2>5. Returned'
    BY <2>1 DEF Returned
  <2> QED
    BY <2>3, <2>4, <2>5 DEF CommInv
<1>2. ASSUME NEW m \in 1 .. Len(arriving), BodyCallback(m)
      PROVE  CommInv'
  <2>1. request.op \in Operations /\ state' = "answering" /\ state = "answering"
        /\ UNCHANGED <<state, request, status, credentials, info>>
    BY <1>0, <1>2 DEF BodyCallback, UnderWay
  <2>2. CommTypeOK'
    BY <1>0, <2>1 DEF CommTypeOK
  <2>3. UnderWay'
    <3>1. CASE status = "0"
      <4>1. PICK n \in 1 .. credentials : Arrives(n)
        BY <1>0, <2>1, <3>1 DEF UnderWay
      <4>2. n \in 1 .. MaxCredentials + 1
        BY <1>0
      <4>3. Arrives(n)'
        BY <1>0, <1>2, <2>1, <4>1, <4>2, BodyArrives
      <4> QED
        BY <1>0, <2>1, <4>3 DEF UnderWay, InFull
    <3> QED
      BY <1>0, <2>1, <3>1 DEF UnderWay, InFull
  <2>4. Returned'
    BY <2>1 DEF Returned
  <2> QED
    BY <2>2, <2>3, <2>4 DEF CommInv
<1>3. CASE Return
  BY <1>3, ReturnSteps
<1>4. CASE ReturnError
  <2>1. /\ Failed.is_valid = FALSE /\ Failed.named_params = <<>>
        /\ <<>> \in Seq(Names \cup {""})
    BY DEF Failed
  <2>2. /\ request.op \in Operations /\ state' = "idle" /\ info' = Failed
        /\ UNCHANGED <<request, status, response, arriving, credentials>>
    BY <1>0, <1>4 DEF ReturnError, UnderWay
  <2>3. CommTypeOK'
    BY <1>0, <2>1, <2>2 DEF CommTypeOK
  <2>4. UnderWay' /\ Returned'
    BY <1>0, <2>1, <2>2 DEF UnderWay, Returned, InFull
  <2> QED
    BY <2>3, <2>4 DEF CommInv
<1>5. CASE Rotate
  <2>1. /\ credentials' = credentials + 1 /\ credentials <= MaxCredentials
        /\ UNCHANGED <<state, request, status, response, arriving, info>>
    BY <1>5 DEF Rotate
  <2>2. \A n \in 1 .. credentials : n \in 1 .. credentials' /\ (Arrives(n) => Arrives(n)')
    BY <1>0, <2>1 DEF Arrives, InFull
  <2>3. CommTypeOK'
    <3>1. credentials' \in 1 .. MaxCredentials + 1
      BY <1>0, <2>1
    <3>2. UNCHANGED <<state, request, status, response, info>>
      BY <2>1
    <3> QED
      BY <1>0, <3>1, <3>2 DEF CommTypeOK
  <2>4. UnderWay'
    BY <1>0, <2>1, <2>2 DEF UnderWay, InFull
  <2>5. Returned'
    BY <1>0, <2>1, <2>2 DEF Returned, InFull
  <2> QED
    BY <2>3, <2>4, <2>5 DEF CommInv
<1> QED
  BY <1>1, <1>2, <1>3, <1>4, <1>5 DEF CommNext

-------------------------------------------------------------------------------
(* The lexer.                                                              *)

LEMMA HandlerIsSequence ==
  ASSUME BuildTypeOK
  PROVE  /\ handler \in Seq(Queries) /\ Len(handler) \in Nat /\ DOMAIN handler = 1 .. Len(handler)
         /\ script \in Seq(Replacements) /\ Len(script) \in Nat
         /\ \A i \in 1 .. Len(handler) : handler[i] \in Queries
<1>1. PICK n \in 0 .. MaxQueries : handler \in [1 .. n -> Queries]
  BY HandlerAssumption DEF BuildTypeOK, BoundedSeq, SeqOf
<1>2. n \in Nat
  OBVIOUS
<1>3. handler \in Seq(Queries)
  BY <1>1, <1>2, IsASeq
<1>4. script \in Seq(Replacements)
  BY DEF BuildTypeOK
<1> QED
  BY <1>3, <1>4, LenProperties, ElementOfSeq

\* The queries before the one that the lexer is at have been dealt with: the next one is.
LEMMA ScriptGrows ==
  ASSUME BuildTypeOK, Builds, pass = "jsify", at \in 1 .. Len(handler),
         NEW e \in Replacements, script' = Append(script, e),
         e.as = "N1qlQuery" => Query.n1ql,
         InFull /\ e.as = "N1qlQuery" => e.params \in {Query.params, <<>>},
         InFull /\ ~failed /\ Query.n1ql => e = [as |-> "N1qlQuery", params |-> Query.params],
         at' = at + 1, UNCHANGED <<handler, pass, failed>>
  PROVE  /\ Builds' /\ script' \in Seq(Replacements) /\ Len(script') <= Len(handler)
         /\ at' \in 1 .. Len(handler) + 1
<1>1. /\ Len(handler) \in Nat /\ script \in Seq(Replacements) /\ Len(script) = at - 1
  BY HandlerIsSequence DEF Builds
<1>2. /\ script' \in Seq(Replacements) /\ Len(script') = Len(script) + 1
      /\ \A i \in 1 .. Len(script) : script'[i] = script[i]
      /\ script'[Len(script) + 1] = e
  BY <1>1, AppendProperties
<1>3. /\ Len(script') = at /\ script'[at] = e /\ at' \in 1 .. Len(handler) + 1
      /\ Len(script') <= Len(handler) /\ Len(script') = at' - 1
  BY <1>1, <1>2
<1>4. \A i \in 1 .. Len(script') : i \in 1 .. Len(script) \/ i = at
  BY <1>1, <1>3
<1>5. Builds'
  <2>1. pass' = "jsify" /\ \A i \in 1 .. Len(handler) : Accepted(i)'
    BY DEF Builds, Accepted
  <2>2. \A i \in 1 .. Len(script') : script'[i].as = "N1qlQuery" => handler'[i].n1ql
    <3>1. TAKE i \in 1 .. Len(script')
    <3>2. CASE i = at
      BY <1>3, <3>2 DEF Query
    <3>3. CASE i \in 1 .. Len(script)
      BY <1>2, <3>3 DEF Builds
    <3> QED
      BY <1>4, <3>2, <3>3
  <2>3. InFull => \A i \in 1 .. Len(script') :
          script'[i].as = "N1qlQuery" => script'[i].params \in {handler'[i].params, <<>>}
    <3>1. SUFFICES ASSUME InFull, NEW i \in 1 .. Len(script'), script'[i].as = "N1qlQuery"
                   PROVE  script'[i].params \in {handler'[i].params, <<>>}
      OBVIOUS
    <3>2. CASE i = at
      BY <1>3, <3>1, <3>2 DEF Query
    <3>3. CASE i \in 1 .. Len(script)
      BY <1>2, <3>1, <3>3 DEF Builds
    <3> QED
      BY <1>4, <3>2, <3>3
  <2>4. InFull /\ ~failed' => \A i \in 1 .. Len(script') : handler'[i].n1ql =>
          script'[i] = [as |-> "N1qlQuery", params |-> handler'[i].params]
    <3>1. SUFFICES ASSUME InFull, ~failed, NEW i \in 1 .. Len(script'), handler[i].n1ql
                   PROVE  script'[i] = [as |-> "N1qlQuery", params |-> handler[i].params]
      OBVIOUS
    <3>2. CASE i = at
      BY <1>3, <3>1, <3>2 DEF Query
    <3>3. CASE i \in 1 .. Len(script)
      BY <1>2, <3>1, <3>3 DEF Builds
    <3> QED
      BY <1>4, <3>2, <3>3
  <2> QED
    BY <1>3, <2>1, <2>2, <2>3, <2>4 DEF Builds, InFull
<1> QED
  BY <1>2, <1>3, <1>5

\* A step of the lexer.
LEMMA BuildSteps ==
  ASSUME IInv, Build, UNCHANGED credVars
  PROVE  IInv'
<1>0. /\ TypeOK /\ UnderWay /\ Returned /\ Waits /\ Exact /\ Builds /\ Authenticates
      /\ BuildTypeOK /\ CommTypeOK /\ CommInv
  BY DEF IInv, TypeOK, BuildTypeOK, CommInv
<1>1. /\ pass \in {"compile", "jsify"} /\ step = "none"
      /\ UNCHANGED <<step, username, password, answered_by>>
  BY <1>0 DEF Build, AskParseQuery, Accept, Refuse, Compiled, AskNamedParams, TranspileQuery,
     KeepExpression, JsifyFailed, Jsified, Waits, credVars
<1>2. /\ Len(handler) \in Nat /\ Len(script) \in Nat
      /\ \A i \in 1 .. Len(handler) : handler[i] \in Queries
  BY <1>0, HandlerIsSequence
<1>3. at \in 1 .. Len(handler) + 1 /\ at \in Int
  BY <1>0 DEF BuildTypeOK
<1>4. ASSUME credentials' = credentials
      PROVE  /\ Authenticates'
             /\ step' \in {"none", "username", "password", "connect"}
             /\ answered_by' \in [{"username", "password"} -> 0 .. MaxCredentials + 1]
  BY <1>0, <1>1, <1>4 DEF Authenticates, TypeOK
<1>5. ASSUME UNCHANGED commVars
      PROVE  CommTypeOK' /\ UnderWay' /\ Returned' /\ credentials' = credentials
  <2>1. UNCHANGED <<state, request, status, response, arriving, credentials, info>>
    BY <1>5 DEF commVars
  <2>2. CommTypeOK' /\ Returned'
    BY <1>0, <2>1 DEF CommTypeOK, Returned, InFull
  <2>3. UnderWay'
    BY <1>0, <2>1 DEF UnderWay, Arrives, InFull
  <2> QED
    BY <2>1, <2>2, <2>3
<1>6. CASE AskParseQuery
  <2>1. /\ ~asked /\ at \in 1 .. Len(handler) /\ HTTPPost("ParseQuery", Query)
        /\ asked' = TRUE /\ UNCHANGED <<handler, pass, at, script, failed>>
    BY <1>2, <1>3, <1>6 DEF AskParseQuery
  <2>2. CommInv'
    BY <1>0, <1>2, <2>1, PostSteps DEF Asked, Operations, Query
  <2>3. /\ state' = "sent" /\ request' = [op |-> "ParseQuery", query |-> Query]
        /\ credentials' = credentials
    BY <2>1 DEF HTTPPost
  <2>4. Waits' /\ Exact'
    BY <1>1, <2>1, <2>3 DEF Waits, Exact, Query
  <2>5. Builds'
    BY <1>0, <2>1 DEF Builds, Accepted, InFull
  <2>6. BuildTypeOK'
    BY <1>0, <2>1, <2>2 DEF BuildTypeOK, CommInv
  <2> QED
    BY <1>4, <2>2, <2>3, <2>4, <2>5, <2>6 DEF IInv, TypeOK, CommInv
<1>7. CASE Accept
  <2>1. /\ pass = "compile" /\ asked /\ state = "idle" /\ request.op = "ParseQuery"
        /\ info.is_valid \/ Query.expression
        /\ at' = at + 1 /\ asked' = FALSE /\ UNCHANGED <<handler, pass, failed, script>>
        /\ UNCHANGED commVars
    BY <1>7 DEF Accept, Answered, GoOn
  <2>2. at \in 1 .. Len(handler) /\ request.query = Query
    BY <1>0, <2>1 DEF Waits
  <2>3. Accepted(at)
    BY <1>0, <2>1, <2>2 DEF Returned, Accepted, Query
  <2>4. state' = "idle"
    BY <2>1 DEF commVars
  <2>5. Builds'
    <3>1. \A i \in 1 .. at' - 1 : Accepted(i)'
      <4>1. \A i \in 1 .. at' - 1 : i \in 1 .. at - 1 \/ i = at
        BY <1>3, <2>1
      <4> QED
        BY <1>0, <2>1, <2>3, <4>1 DEF Builds, Accepted
    <3> QED
      BY <1>0, <2>1, <3>1 DEF Builds, InFull
  <2>6. BuildTypeOK'
    <3>1. at' \in 1 .. Len(handler) + 1
      BY <1>2, <2>1, <2>2
    <3> QED
      BY <1>0, <1>5, <2>1, <3>1 DEF BuildTypeOK
  <2>7. Waits' /\ Exact'
    BY <1>1, <2>1, <2>4 DEF Waits, Exact
  <2> QED
    BY <1>4, <1>5, <2>1, <2>5, <2>6, <2>7 DEF IInv, TypeOK
<1>8. CASE Refuse
  <2>1. /\ pass' = "refused" /\ asked' = FALSE /\ UNCHANGED <<handler, at, script, failed>>
        /\ UNCHANGED commVars
    BY <1>8 DEF Refuse
  <2>2. Builds'
    BY <1>0, <2>1 DEF Builds, InFull
  <2>3. BuildTypeOK'
    BY <1>0, <1>5, <2>1 DEF BuildTypeOK
  <2>4. Waits' /\ Exact'
    BY <2>1 DEF Waits, Exact
  <2> QED
    BY <1>4, <1>5, <2>1, <2>2, <2>3, <2>4 DEF IInv, TypeOK
<1>9. CASE Compiled
  <2>1. /\ pass = "compile" /\ ~asked /\ at > Len(handler)
        /\ pass' = "jsify" /\ at' = 1 /\ UNCHANGED <<handler, asked, script, failed>>
        /\ UNCHANGED commVars
    BY <1>9 DEF Compiled
  <2>2. state' = "idle" /\ script = <<>> /\ Len(script) = 0
    BY <1>0, <2>1, EmptySeq DEF Waits, Builds, commVars
  <2>3. Builds'
    <3>1. \A i \in 1 .. Len(handler) : i \in 1 .. at - 1
      BY <1>2, <1>3, <2>1
    <3>2. \A i \in 1 .. Len(handler) : Accepted(i)'
      BY <1>0, <2>1, <3>1 DEF Builds, Accepted
    <3>3. Len(script') = 0 /\ Len(script') = at' - 1
      BY <2>1, <2>2
    <3>4. \A i \in 1 .. Len(script') : FALSE
      BY <3>3
    <3> QED
      BY <2>1, <3>2, <3>3, <3>4 DEF Builds
  <2>4. BuildTypeOK'
    <3>1. at' \in 1 .. Len(handler) + 1
      BY <1>2, <2>1
    <3> QED
      BY <1>0, <1>5, <2>1, <3>1 DEF BuildTypeOK
  <2>5. Waits' /\ Exact'
    BY <1>1, <2>1, <2>2 DEF Waits, Exact
  <2> QED
    BY <1>4, <1>5, <2>1, <2>3, <2>4, <2>5 DEF IInv, TypeOK
<1>10. CASE AskNamedParams
  <2>1. /\ pass = "jsify" /\ asked /\ state = "idle" /\ request.op = "ParseQuery" /\ info.is_valid
        /\ HTTPPost("GetNamedParams", Query)
        /\ UNCHANGED <<handler, pass, at, asked, script, failed>>
    BY <1>10 DEF AskNamedParams, Answered, buildVars
  <2>2. at \in 1 .. Len(handler) /\ request.query = Query
    BY <1>0, <2>1 DEF Waits
  <2>3. CommInv'
    BY <1>0, <1>2, <2>1, <2>2, PostSteps DEF Asked, Operations, Query
  <2>4. Query.n1ql
    BY <1>0, <2>1, <2>2 DEF Returned
  <2>5. /\ state' = "sent" /\ request' = [op |-> "GetNamedParams", query |-> Query]
        /\ credentials' = credentials
    BY <2>1 DEF HTTPPost
  <2>6. Waits' /\ Exact'
    BY <1>1, <2>1, <2>2, <2>4, <2>5 DEF Waits, Exact, Query
  <2>7. Builds'
    BY <1>0, <2>1 DEF Builds, Accepted, InFull
  <2>8. BuildTypeOK'
    BY <1>0, <2>1, <2>3 DEF BuildTypeOK, CommInv
  <2> QED
    BY <1>4, <2>3, <2>5, <2>6, <2>7, <2>8 DEF IInv, TypeOK, CommInv
<1>11. CASE TranspileQuery
  <2> DEFINE e == [as |-> "N1qlQuery", params |-> info.named_params]
  <2>1. /\ pass = "jsify" /\ asked /\ state = "idle" /\ request.op = "GetNamedParams"
        /\ script' = Append(script, e)
        /\ at' = at + 1 /\ asked' = FALSE /\ UNCHANGED <<handler, pass, failed>>
        /\ UNCHANGED commVars
    BY <1>11 DEF TranspileQuery, Answered, GoOn
  <2>2. at \in 1 .. Len(handler) /\ request.query = Query /\ Query.n1ql
    BY <1>0, <2>1 DEF Waits
  <2>3. e \in Replacements
    BY <1>0 DEF Replacements, CommTypeOK
  <2>4. InFull => e.params \in {Query.params, <<>>}
    BY <1>0, <2>1, <2>2 DEF Returned
  <2>5. InFull /\ ~failed => e = [as |-> "N1qlQuery", params |-> Query.params]
    BY <1>0, <2>1 DEF Exact
  <2> HIDE DEF e
  <2>6. /\ Builds' /\ script' \in Seq(Replacements) /\ Len(script') <= Len(handler)
        /\ at' \in 1 .. Len(handler) + 1
    BY <1>0, <2>1, <2>2, <2>3, <2>4, <2>5, ScriptGrows
  <2>7. BuildTypeOK'
    BY <1>0, <1>5, <2>1, <2>6 DEF BuildTypeOK
  <2>8. Waits' /\ Exact'
    BY <1>1, <2>1 DEF Waits, Exact, commVars
  <2> QED
    BY <1>4, <1>5, <2>1, <2>6, <2>7, <2>8 DEF IInv, TypeOK
<1>12. CASE KeepExpression
  <2> DEFINE e == [as |-> "expression", params |-> <<>>]
  <2>1. /\ pass = "jsify" /\ asked /\ state = "idle" /\ request.op = "ParseQuery" /\ ~info.is_valid
        /\ script' = Append(script, e)
        /\ at' = at + 1 /\ asked' = FALSE /\ UNCHANGED <<handler, pass, failed>>
        /\ UNCHANGED commVars
    BY <1>12 DEF KeepExpression, Answered, GoOn
  <2>2. at \in 1 .. Len(handler)
    BY <1>0, <2>1 DEF Waits
  <2>3. e \in Replacements /\ e.as # "N1qlQuery"
    <3>1. <<>> \in Seq(Names \cup {""})
      OBVIOUS
    <3> QED
      BY <3>1 DEF Replacements
  <2>4. InFull /\ ~failed => ~Query.n1ql
    BY <1>0, <2>1 DEF Exact
  <2> HIDE DEF e
  <2>5. /\ Builds' /\ script' \in Seq(Replacements) /\ Len(script') <= Len(handler)
        /\ at' \in 1 .. Len(handler) + 1
    BY <1>0, <2>1, <2>2, <2>3, <2>4, ScriptGrows
  <2>6. BuildTypeOK'
    BY <1>0, <1>5, <2>1, <2>5 DEF BuildTypeOK
  <2>7. Waits' /\ Exact'
    BY <1>1, <2>1 DEF Waits, Exact, commVars
  <2> QED
    BY <1>4, <1>5, <2>1, <2>5, <2>6, <2>7 DEF IInv, TypeOK
<1>13. CASE JsifyFailed
  <2>1. /\ pass = "jsify" /\ asked /\ state = "idle" /\ request.op = "ParseQuery"
        /\ ~info.is_valid /\ ~Query.expression
        /\ pass' = "transpile" /\ asked' = FALSE /\ UNCHANGED <<handler, at, script, failed>>
        /\ UNCHANGED commVars
    BY <1>13 DEF JsifyFailed, Answered
  <2>2. ~(InFull /\ ~failed)
    <3>1. at \in 1 .. Len(handler)
      BY <1>0, <2>1 DEF Waits
    <3>2. Query.n1ql
      BY <1>0, <2>1, <3>1 DEF Builds, Accepted, Query
    <3> QED
      BY <1>0, <2>1, <3>2 DEF Exact
  <2>3. Builds'
    BY <1>0, <2>1, <2>2 DEF Builds, Accepted, InFull
  <2>4. BuildTypeOK'
    BY <1>0, <1>5, <2>1 DEF BuildTypeOK
  <2>5. Waits' /\ Exact'
    BY <2>1 DEF Waits, Exact
  <2> QED
    BY <1>4, <1>5, <2>1, <2>3, <2>4, <2>5 DEF IInv, TypeOK
<1>14. CASE Jsified
  <2>1. /\ pass = "jsify" /\ ~asked /\ at > Len(handler)
        /\ pass' = "transpile" /\ UNCHANGED <<handler, at, asked, script, failed>>
        /\ UNCHANGED commVars
    BY <1>14 DEF Jsified
  <2>2. Len(script) = Len(handler)
    BY <1>0, <1>2, <1>3, <2>1 DEF Builds
  <2>3. Builds'
    BY <1>0, <2>1, <2>2 DEF Builds, Accepted, InFull
  <2>4. BuildTypeOK'
    BY <1>0, <1>5, <2>1 DEF BuildTypeOK
  <2>5. Waits' /\ Exact'
    BY <2>1 DEF Waits, Exact
  <2> QED
    BY <1>4, <1>5, <2>1, <2>3, <2>4, <2>5 DEF IInv, TypeOK
<1> QED
  BY <1>6, <1>7, <1>8, <1>9, <1>10, <1>11, <1>12, <1>13, <1>14 DEF Build

\* A step of the request that the lexer waits for.
LEMMA AskProducerSteps ==
  ASSUME IInv, AskProducer, UNCHANGED credVars
  PROVE  IInv'
<1>0. /\ TypeOK /\ UnderWay /\ Returned /\ Waits /\ Exact /\ Builds /\ Authenticates
      /\ BuildTypeOK /\ CommTypeOK /\ CommInv
  BY DEF IInv, TypeOK, BuildTypeOK, CommInv
<1>11. credentials \in 1 .. MaxCredentials + 1 /\ MaxCredentials \in Nat
  BY <1>0, CommunicatorAssumption DEF CommTypeOK
<1>1. /\ pass \in {"compile", "jsify"} /\ CommNext
      /\ failed' = (failed \/ (pass = "jsify" /\ Fails))
      /\ UNCHANGED <<handler, pass, at, asked, script>>
      /\ UNCHANGED <<step, username, password, answered_by>> /\ step = "none"
  BY <1>0 DEF AskProducer, Waits, credVars
<1>2. CommInv'
  BY <1>0, <1>1, CommSteps
<1>3. /\ request' = request /\ state' \in {"idle", "answering", "aborted", state}
      /\ state = "idle" => state' = "idle" /\ info' = info
      /\ credentials' \in {credentials, credentials + 1}
  BY <1>1 DEF CommNext, HeaderCallback, BodyCallback, Return, ReturnError, Rotate
<1>4. failed' \in BOOLEAN /\ (failed => failed')
  BY <1>0, <1>1 DEF BuildTypeOK
<1>5. BuildTypeOK'
  BY <1>0, <1>1, <1>2, <1>4 DEF BuildTypeOK, CommInv
<1>6. Waits'
  BY <1>0, <1>1, <1>3 DEF Waits, Query
<1>7. Builds'
  BY <1>0, <1>1, <1>4 DEF Builds, Accepted, InFull
<1>8. Authenticates'
  <2>1. credentials \in Nat
    BY <1>11
  <2>2. \A which \in {"username", "password"} : answered_by[which] \in Nat
    BY <1>0 DEF TypeOK
  <2>3. \A which \in {"username", "password"} : answered_by'[which] <= credentials'
    BY <1>0, <1>1, <1>3, <2>1, <2>2 DEF Authenticates
  <2> QED
    BY <1>1, <2>3 DEF Authenticates
<1>9. Exact'
  <2>1. SUFFICES ASSUME InFull, asked, state' = "idle", pass = "jsify", ~failed'
                 PROVE  /\ request.op = "ParseQuery" => (info'.is_valid <=> Query.n1ql)
                        /\ request.op = "GetNamedParams" => info'.named_params = Query.params
    BY <1>1, <1>3 DEF Exact, Query, InFull
  <2>2. ~failed /\ ~Fails
    BY <1>1, <1>4, <2>1
  <2>3. CASE state = "idle"
    BY <1>0, <1>3, <2>1, <2>2, <2>3 DEF Exact
  <2>4. CASE state # "idle"
    <3>1. Return /\ status = "0"
      BY <1>1, <2>1, <2>2, <2>4
      DEF CommNext, HeaderCallback, BodyCallback, ReturnError, Rotate, Fails
    <3>2. /\ state = "answering" /\ arriving = <<>> /\ info' = Extract(request.op, response)
      BY <2>1, <3>1 DEF Return
    <3>3. PICK n \in 1 .. credentials : Arrives(n)
      BY <1>0, <3>1, <3>2 DEF UnderWay
    <3>6. n \in 1 .. MaxCredentials + 1
      BY <1>11
    <3>7. request.op \in Operations /\ request.query \in Asked
      BY <1>0, <3>2 DEF CommTypeOK, UnderWay, Asked
    <3>4. request.query = Query
      BY <1>0, <2>1 DEF Waits
    <3>5. response = Answer(request.op, request.query, n)
      BY <2>1, <3>2, <3>3 DEF Arrives
    <3> QED
      BY <3>1, <3>2, <3>4, <3>5, <3>6, <3>7, WholeAnswer
  <2> QED
    BY <2>3, <2>4
<1>10. TypeOK'
  BY <1>0, <1>1, <1>5 DEF TypeOK
<1> QED
  BY <1>2, <1>6, <1>7, <1>8, <1>9, <1>10 DEF IInv, CommInv

-------------------------------------------------------------------------------
(* libcouchbase.                                                           *)

\* The handler does not change while its queries run.
LEMMA Built ==
  ASSUME IInv, pass = "transpile", CommInv', UNCHANGED buildVars
  PROVE  BuildTypeOK' /\ Waits' /\ Exact' /\ Builds'
<1>1. UNCHANGED <<handler, pass, at, asked, script, failed>>
  BY DEF buildVars
<1>2. ~asked
  BY DEF IInv, Waits
<1> QED
  BY <1>1, <1>2 DEF IInv, TypeOK, BuildTypeOK, CommInv, Waits, Exact, Builds, Accepted, InFull

\* Connections are authenticated.
LEMMA LookupSteps ==
  ASSUME IInv, HasQueries, Lookup, UNCHANGED buildVars
  PROVE  IInv'
<1>0. /\ TypeOK /\ UnderWay /\ Returned /\ Waits /\ Authenticates
      /\ CommTypeOK /\ CommInv /\ pass = "transpile"
      /\ credentials \in 1 .. MaxCredentials + 1 /\ MaxCredentials \in Nat
      /\ answered_by \in [{"username", "password"} -> 0 .. MaxCredentials + 1]
  BY CommunicatorAssumption DEF IInv, TypeOK, BuildTypeOK, CommTypeOK, CommInv, HasQueries
<1>1. NoQuery \in Asked /\ "GetCreds" \in Operations
  BY DEF Asked, Operations
<1>2. SUFFICES CommInv' /\ Authenticates'
               /\ step' \in {"none", "username", "password", "connect"}
               /\ answered_by' \in [{"username", "password"} -> 0 .. MaxCredentials + 1]
  BY <1>0, Built DEF IInv, TypeOK, CommInv
<1>3. CASE Authenticate
  <2>1. CommInv'
    BY <1>0, <1>1, <1>3, PostSteps DEF Authenticate
  <2>2. /\ step' = "username" /\ state' = "sent" /\ request'.op = "GetCreds"
        /\ credentials' = credentials
        /\ answered_by' = [which \in {"username", "password"} |-> 0]
    BY <1>3 DEF Authenticate, HTTPPost
  <2>3. answered_by' \in [{"username", "password"} -> 0 .. MaxCredentials + 1]
    BY <1>0, <2>2
  <2>4. \A which \in {"username", "password"} : answered_by'[which] <= credentials'
    BY <1>0, <2>2
  <2> QED
    BY <2>1, <2>2, <2>3, <2>4 DEF Authenticates
<1>4. CASE GetUsername
  <2>1. CommInv'
    BY <1>0, <1>1, <1>4, PostSteps DEF GetUsername
  <2>2. /\ step = "username" /\ state = "idle" /\ username' = info.username
        /\ step' = "password" /\ state' = "sent" /\ request'.op = "GetCreds"
        /\ UNCHANGED <<credentials, password, answered_by>>
    BY <1>4 DEF GetUsername, HTTPPost
  <2>3. Answers("username", username, Usernames)'
    BY <1>0, <2>2 DEF Authenticates, Answers
  <2> QED
    BY <1>0, <2>1, <2>2, <2>3 DEF Authenticates
<1>5. CASE GetPassword
  <2>1. /\ step = "password" /\ state = "idle" /\ password' = info.password
        /\ step' = "connect" /\ UNCHANGED commVars /\ UNCHANGED <<username, answered_by>>
    BY <1>5 DEF GetPassword
  <2>2. CommInv'
    BY <1>0, <2>1 DEF CommInv, CommTypeOK, UnderWay, Returned, commVars, Arrives, InFull
  <2>3. Answers("password", password, Passwords)' /\ Answers("username", username, Usernames)'
    BY <1>0, <2>1 DEF Authenticates, Answers
  <2> QED
    BY <1>0, <2>1, <2>2, <2>3 DEF Authenticates, commVars
<1>6. CASE AskCredentials
  <2>1. /\ step \in {"username", "password"} /\ CommNext
        /\ answered_by' = IF state = "sent" /\ state' = "answering"
                          THEN [answered_by EXCEPT ![step] = credentials] ELSE answered_by
        /\ UNCHANGED <<step, username, password>>
    BY <1>6 DEF AskCredentials
  <2>2. CommInv'
    BY <1>0, <2>1, CommSteps
  <2>3. request.op = "GetCreds" /\ request' = request /\ request.query \in Asked
    BY <1>0, <2>1
    DEF Authenticates, CommNext, HeaderCallback, BodyCallback, Return, ReturnError, Rotate,
        CommTypeOK, Asked
  <2>4. ASSUME HeaderCallback
        PROVE  /\ Authenticates'
               /\ answered_by' \in [{"username", "password"} -> 0 .. MaxCredentials + 1]
    <3>1. /\ state = "sent" /\ state' = "answering" /\ credentials' = credentials
          /\ answered_by' = [answered_by EXCEPT ![step] = credentials]
      BY <2>1, <2>4 DEF HeaderCallback
    <3>2. answered_by' \in [{"username", "password"} -> 0 .. MaxCredentials + 1]
      BY <1>0, <2>1, <3>1
    <3>3. /\ answered_by'[step] = credentials
          /\ \A which \in {"username", "password"} \ {step} : answered_by'[which] = answered_by[which]
      BY <1>0, <2>1, <3>1
    <3>4. \A which \in {"username", "password"} : answered_by'[which] <= credentials'
      BY <1>0, <3>1, <3>3 DEF Authenticates
    <3>5. status' = "0" => Arrives(answered_by[step])'
      <4>1. status' = "0" => Arrives(credentials)'
        BY <1>0, <1>1, <2>3, <2>4, HeaderArrives
      <4> QED
        BY <2>1, <3>1, <3>3, <4>1 DEF Arrives, InFull
    <3>6. answered_by'[step'] # 0
      BY <1>0, <2>1, <3>3
    <3>7. step = "password" => Answers("username", username, Usernames)'
      BY <1>0, <2>1, <3>3 DEF Authenticates, Answers
    <3> QED
      BY <2>1, <2>2, <2>3, <3>1, <3>2, <3>4, <3>5, <3>6, <3>7 DEF Authenticates
  <2>5. ASSUME NEW m \in 1 .. Len(arriving), BodyCallback(m)
        PROVE  Authenticates' /\ answered_by' = answered_by
    <3>1. state = "answering" /\ UNCHANGED <<state, status, credentials, answered_by>>
      BY <2>1, <2>5 DEF BodyCallback
    <3>2. status = "0" => Arrives(answered_by[step])'
      <4>1. answered_by[step] \in 1 .. MaxCredentials + 1
        BY <1>0, <2>1, <3>1 DEF Authenticates
      <4>2. ASSUME status = "0" PROVE Arrives(answered_by[step])
        BY <1>0, <2>1, <3>1, <4>2 DEF Authenticates
      <4> DEFINE n == answered_by[step]
      <4>3. n' = n
        BY <2>1, <3>1
      <4>4. ASSUME NEW k, k = n, status = "0" PROVE Arrives(k)'
        <5>1. k \in 1 .. MaxCredentials + 1 /\ Arrives(k)
          BY <4>1, <4>2, <4>4
        <5> QED
          BY <1>0, <1>1, <2>3, <2>5, <5>1, BodyArrives
      <4> QED
        BY <4>3, <4>4 DEF Arrives
    <3> QED
      BY <1>0, <2>1, <2>3, <3>1, <3>2 DEF Authenticates, Answers
  <2>6. ASSUME Return
        PROVE  Authenticates' /\ answered_by' = answered_by
    <3>1. /\ state = "answering" /\ arriving = <<>> /\ state' \in {"idle", "aborted"}
          /\ UNCHANGED <<credentials, answered_by>>
      BY <2>1, <2>6 DEF Return
    <3>2. CASE state' = "aborted"
      BY <1>0, <2>1, <2>3, <3>1, <3>2 DEF Authenticates, Answers
    <3>3. CASE state' = "idle" /\ status # "0"
      <4>1. info' = Failed
        BY <2>6, <3>1, <3>3 DEF Return, Extract
      <4>2. info'.username = "" /\ info'.password = ""
        BY <4>1 DEF Failed
      <4> QED
        BY <1>0, <2>1, <2>3, <3>1, <3>3, <4>2 DEF Authenticates, Answers
    <3>4. CASE state' = "idle" /\ status = "0"
      <4> DEFINE n == answered_by[step]
      <4>1. /\ ~Aborts(request.op, response) /\ info' = Extract(request.op, response)
        BY <2>6, <3>1, <3>4 DEF Return
      <4>2. n \in 1 .. MaxCredentials + 1 /\ Arrives(n)
        BY <1>0, <2>1, <3>1, <3>4 DEF Authenticates
      <4>3. response \in Suffixes(Answer(request.op, request.query, n))
        BY <3>1, <4>2 DEF Arrives
      <4> HIDE DEF n
      <4>4. info'.username \in {"", Usernames[n]} /\ info'.password \in {"", Passwords[n]}
        BY <1>1, <2>3, <3>4, <4>1, <4>2, <4>3, LastChunks
      <4>5. n # 0
        BY <4>2
      <4> QED
        BY <1>0, <2>1, <2>3, <3>1, <3>4, <4>4, <4>5 DEF Authenticates, Answers, n
    <3> QED
      BY <3>1, <3>2, <3>3, <3>4
  <2>7. ASSUME ReturnError
        PROVE  Authenticates' /\ answered_by' = answered_by
    <3>1. /\ state' = "idle" /\ UNCHANGED <<credentials, answered_by>>
          /\ info'.username = "" /\ info'.password = ""
      BY <2>1, <2>7 DEF ReturnError, Failed
    <3> QED
      BY <1>0, <2>1, <2>3, <3>1 DEF Authenticates, Answers
  <2>8. ASSUME Rotate
        PROVE  Authenticates' /\ answered_by' = answered_by
    <3>1. /\ credentials' = credentials + 1 /\ UNCHANGED <<state, status, info, answered_by>>
          /\ UNCHANGED <<request, response, arriving>>
      BY <2>1, <2>8 DEF Rotate
    <3>2. \A which \in {"username", "password"} : answered_by'[which] <= credentials'
      BY <1>0, <3>1 DEF Authenticates
    <3> QED
      BY <1>0, <2>1, <2>3, <3>1, <3>2 DEF Authenticates, Answers, Arrives, InFull
  <2>9. /\ Authenticates'
        /\ answered_by' \in [{"username", "password"} -> 0 .. MaxCredentials + 1]
    BY <1>0, <2>1, <2>4, <2>5, <2>6, <2>7, <2>8 DEF CommNext
  <2>10. step' \in {"none", "username", "password", "connect"}
    BY <2>1
  <2> QED
    BY <2>2, <2>9, <2>10
<1> QED
  BY <1>3, <1>4, <1>5, <1>6 DEF Lookup

-------------------------------------------------------------------------------
(* The theorems.                                                           *)

THEOREM Invariance == Spec => []IInv
<1>1. Init => IInv
  <2>1. SUFFICES ASSUME Init PROVE IInv
    OBVIOUS
  <2>2. CommTypeOK /\ UnderWay /\ Returned
    <3>1. /\ <<>> \in Seq(Names \cup {""}) /\ Failed.is_valid = FALSE /\ Failed.named_params = <<>>
      BY DEF Failed
    <3>2. 1 \in 1 .. MaxCredentials + 1
      BY CommunicatorAssumption
    <3> QED
      BY <2>1, <3>1, <3>2 DEF Init, CommInit, CommTypeOK, UnderWay, Returned
  <2>3. PICK n \in 0 .. MaxQueries : handler \in [1 .. n -> Queries]
    BY <2>1, HandlerAssumption DEF Init, BuildInit, BoundedSeq, SeqOf
  <2>4. Len(handler) = n
    BY <2>3, LenProperties, IsASeq
  <2>5. /\ pass = "compile" /\ at = 1 /\ asked = FALSE /\ script = <<>> /\ failed = FALSE
        /\ Len(script) = 0 /\ at \in 1 .. Len(handler) + 1 /\ Len(script) <= Len(handler)
        /\ script \in Seq(Replacements)
    BY <2>1, <2>3, <2>4 DEF Init, BuildInit
  <2>6. BuildTypeOK
    BY <2>1, <2>2, <2>5 DEF Init, BuildInit, BuildTypeOK
  <2>7. step = "none" /\ answered_by = [which \in {"username", "password"} |-> 0]
        /\ credentials = 1 /\ state = "idle"
    BY <2>1 DEF Init, CredInit, CommInit
  <2>8. Authenticates
    BY <2>7 DEF Authenticates
  <2>9. Waits /\ Exact
    BY <2>5, <2>7 DEF Waits, Exact
  <2>10. Builds
    BY <2>5 DEF Builds
  <2>11. TypeOK
    <3>1. 0 \in 0 .. MaxCredentials + 1
      BY CommunicatorAssumption
    <3> QED
      BY <2>6, <2>7, <3>1 DEF TypeOK
  <2> QED
    BY <2>2, <2>8, <2>9, <2>10, <2>11 DEF IInv
<1>2. IInv /\ [Next]_vars => IInv'
  <2>1. SUFFICES ASSUME IInv, [Next]_vars PROVE IInv'
    OBVIOUS
  <2>2. CASE Build /\ UNCHANGED credVars
    BY <2>1, <2>2, BuildSteps
  <2>3. CASE AskProducer /\ UNCHANGED credVars
    BY <2>1, <2>3, AskProducerSteps
  <2>4. CASE HasQueries /\ Lookup /\ UNCHANGED buildVars
    BY <2>1, <2>4, LookupSteps
  <2>5. CASE UNCHANGED vars
    <3>1. UNCHANGED commVars /\ UNCHANGED buildVars /\ UNCHANGED credVars
      BY <2>5 DEF vars
    <3>2. CommTypeOK' /\ UnderWay' /\ Returned'
      <4>1. CommTypeOK /\ UnderWay /\ Returned
        BY <2>1 DEF IInv, TypeOK, BuildTypeOK
      <4>2. CommTypeOK'
        BY <3>1, <4>1 DEF CommTypeOK, commVars
      <4>3. UnderWay'
        BY <3>1, <4>1 DEF UnderWay, Arrives, InFull, commVars
      <4>4. Returned'
        BY <3>1, <4>1 DEF Returned, InFull, commVars
      <4> QED
        BY <4>2, <4>3, <4>4
    <3>3. TypeOK'
      BY <2>1, <3>1, <3>2 DEF IInv, TypeOK, BuildTypeOK, buildVars, credVars
    <3>4. Waits' /\ Exact'
      BY <2>1, <3>1
      DEF IInv, Waits, Exact, Query, InFull, commVars, buildVars, credVars
    <3>5. Builds'
      BY <2>1, <3>1 DEF IInv, Builds, Accepted, InFull, buildVars
    <3>6. Authenticates'
      BY <2>1, <3>1 DEF IInv, Authenticates, Answers, Arrives, InFull, commVars, credVars
    <3> QED
      BY <3>2, <3>3, <3>4, <3>5, <3>6 DEF IInv
  <2> QED
    BY <2>1, <2>2, <2>3, <2>4, <2>5 DEF Next
<1> QED
  BY <1>1, <1>2, PTL DEF Spec

\* TypeOK, for handlers of any length.
THEOREM TypeCorrect == Spec => []TypeOK
<1>1. IInv => TypeOK
  BY DEF IInv
<1> QED
  BY <1>1, Invariance, PTL

\* NothingElseRuns: text that is neither a query nor JavaScript is never run, even when
\* answers of the producer are lost, cut or refused.
THEOREM NothingElse == Spec => []NothingElseRuns
<1>1. IInv => NothingElseRuns
  <2>1. SUFFICES ASSUME IInv, Done PROVE \A i \in DOMAIN handler : handler[i].n1ql \/ handler[i].expression
    BY DEF NothingElseRuns
  <2>2. DOMAIN handler = 1 .. Len(handler)
    BY <2>1, HandlerIsSequence DEF IInv, TypeOK
  <2> QED
    BY <2>1, <2>2 DEF IInv, Builds, Accepted, Done
<1> QED
  BY <1>1, Invariance, PTL

\* NoStaleCredentials: a connection is made with what the producer answered for it,
\* whenever its credentials change and however its answers arrive.
THEOREM FreshCredentials == Spec => []NoStaleCredentials
<1>1. IInv => NoStaleCredentials
  BY DEF IInv, Authenticates, Answers, NoStaleCredentials
<1> QED
  BY <1>1, Invariance, PTL

\* What is run as a query was accepted as one, even when bodies arrive in chunks.
THEOREM OnlyAccepted ==
  Spec => [](\A i \in DOMAIN script : script[i].as = "N1qlQuery" => handler[i].n1ql)
<1>1. IInv => \A i \in DOMAIN script : script[i].as = "N1qlQuery" => handler[i].n1ql
  <2>1. SUFFICES ASSUME IInv
                 PROVE  \A i \in DOMAIN script : script[i].as = "N1qlQuery" => handler[i].n1ql
    OBVIOUS
  <2>2. DOMAIN script = 1 .. Len(script)
    BY <2>1, HandlerIsSequence, LenProperties DEF IInv, TypeOK
  <2> QED
    BY <2>1, <2>2 DEF IInv, Builds
<1> QED
  BY <1>1, Invariance, PTL

\* OnlyQueriesAreTranspiled, as long as bodies arrive in one piece: only the last chunk
\* is kept, and in it parameters may be missing.
THEOREM OnlyQueries ==
  ASSUME "chunks" \notin Features
  PROVE  Spec => []OnlyQueriesAreTranspiled
<1>1. IInv => OnlyQueriesAreTranspiled
  <2>1. SUFFICES ASSUME IInv PROVE OnlyQueriesAreTranspiled
    OBVIOUS
  <2>2. DOMAIN script = 1 .. Len(script)
    BY <2>1, HandlerIsSequence, LenProperties DEF IInv, TypeOK
  <2> QED
    BY <2>1, <2>2 DEF IInv, Builds, InFull, OnlyQueriesAreTranspiled
<1> QED
  BY <1>1, Invariance, PTL

\* BuildIsWhole: as long as bodies arrive in one piece and no request of Jsify fails, the
\* whole handler is transpiled, each query with its parameters.
THEOREM WholeBuilds ==
  ASSUME "chunks" \notin Features
  PROVE  Spec => []BuildIsWhole
<1>1. IInv => BuildIsWhole
  <2>1. SUFFICES ASSUME IInv, Done, ~failed
                 PROVE  /\ Len(script) = Len(handler)
                        /\ \A i \in DOMAIN handler : handler[i].n1ql =>
                             script[i] = [as |-> "N1qlQuery", params |-> handler[i].params]
    BY DEF BuildIsWhole
  <2>2. DOMAIN handler = 1 .. Len(handler)
    BY <2>1, HandlerIsSequence DEF IInv, TypeOK
  <2> QED
    BY <2>1, <2>2 DEF IInv, Builds, InFull, Done
<1> QED
  BY <1>1, Invariance, PTL

\* ValidAnswersAreTheProducers, as long as bodies arrive in one piece.
THEOREM ValidAnswers ==
  ASSUME "chunks" \notin Features
  PROVE  Spec => []ValidAnswersAreTheProducers
<1>1. IInv => ValidAnswersAreTheProducers
  <2>1. SUFFICES ASSUME IInv, state = "idle", info.is_valid PROVE ValidAnswersAreTheProducers
    BY DEF ValidAnswersAreTheProducers
  <2>2. request.op \in Operations \cup {"none"}
    BY <2>1 DEF IInv, TypeOK, BuildTypeOK, CommTypeOK
  <2>3. request.op # "none"
    <3>1. request.op = "none" => info = Failed
      BY <2>1 DEF IInv, Returned
    <3>2. Failed.is_valid = FALSE
      BY DEF Failed
    <3> QED
      BY <2>1, <3>1, <3>2
  <2>4. CASE request.op = "GetCreds"
    BY <2>1, <2>4 DEF IInv, Returned, InFull, ValidAnswersAreTheProducers
  <2>5. CASE request.op = "ParseQuery"
    BY <2>1, <2>5 DEF IInv, Returned, ValidAnswersAreTheProducers
  <2>6. CASE request.op = "GetNamedParams"
    BY <2>1, <2>6 DEF IInv, Returned, InFull, ValidAnswersAreTheProducers
  <2> QED
    BY <2>2, <2>3, <2>4, <2>5, <2>6 DEF Operations
<1> QED
  BY <1>1, Invariance, PTL

\* NeverAborts: the process only ends on a status that is not a number or on a body of
\* which the first chunks were dropped.
THEOREM AbortsOnlyOnText ==
  ASSUME "chunks" \notin Features, "malformed" \notin Features
  PROVE  Spec => []NeverAborts
<1>1. IInv => NeverAborts
  BY DEF IInv, UnderWay, InFull, NeverAborts
<1> QED
  BY <1>1, Invariance, PTL

===============================================================================
