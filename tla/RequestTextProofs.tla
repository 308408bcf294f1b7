-------------------------- MODULE RequestTextProofs --------------------------
(***************************************************************************)
(* The text of requests, for all requests, line ends, options and limits,  *)
(* and however recv() cuts it.                                             *)
(***************************************************************************)
EXTENDS RequestText, TextLemmas

-----------------------------------------------------------------------------
(***************************************************************************)
(* Tokens, and what a client may write.                                    *)
(***************************************************************************)
Behind == {SP, CR, LF, Nul}

LEMMA TokensAre ==
  /\ SP # CR /\ SP # LF /\ SP # Nul /\ CR # LF /\ CR # Nul /\ LF # Nul
  /\ SP \notin Words /\ CR \notin Words /\ LF \notin Words /\ Nul \notin Words
  /\ Words \subseteq Tokens /\ Behind \subseteq Tokens
  /\ Parsed \subseteq Words
  /\ None \notin Words /\ None \notin Seq(Tokens)
BY RequestTextAssumption DEF SP, CR, LF, Nul, Tokens, Behind, Parsed

LEMMA EndIs ==
  ASSUME NEW end \in LineEnds
  PROVE  /\ end \in Seq(Tokens) /\ Len(end) \in 1..2
         /\ end[Len(end)] = LF /\ end[1] \in {CR, LF}
         /\ \A i \in 1..Len(end) : end[i] \in {CR, LF}
         /\ Len(end) = 2 => end[1] = CR
<1>1. end = <<CR, LF>> \/ end = <<LF>>
  BY RequestTextAssumption
<1>2. CR \in Tokens /\ LF \in Tokens
  BY DEF Tokens
<1>3. CASE end = <<CR, LF>>
  BY <1>2, <1>3
<1>4. CASE end = <<LF>>
  BY <1>2, <1>4
<1> QED
  BY <1>1, <1>3, <1>4

FieldType == [name : Words, value : Value]

LEMMA RequestIs ==
  ASSUME NEW r \in Requests
  PROVE  /\ r.method \in Words /\ r.method \notin Parsed
         /\ r.url \in Seq(Words \cup {Nul}) /\ r.url # <<>> /\ r.url[1] \in Words
         /\ r.version \in Words \cup {None}
         /\ r.fields \in Seq(FieldType)
<1>1. r \in RequestType
  BY RequestTextAssumption
<1>2. /\ r.method \in Words \ Parsed
      /\ r.url \in {u \in Seq(Words \cup {Nul}) : u # <<>> /\ u[1] \in Words}
      /\ r.version \in Words \cup {None}
      /\ r.fields \in Seq([name : Words, value : Value])
  BY <1>1 DEF RequestType
<1> QED
  BY <1>2 DEF FieldType

-----------------------------------------------------------------------------
(***************************************************************************)
(* Lines: each starts with a word, so no line but the last is empty.       *)
(***************************************************************************)

\* Lines that end in end, the first token of each a word.
Headed(h, end) ==
  /\ h \in Seq(Tokens) /\ Len(h) > Len(end)
  /\ \A i \in 1..Len(end) : h[Len(h) - Len(end) + i] = end[i]
  /\ \A i \in 1..Len(h) : (i = 1 \/ h[i - 1] = LF) => h[i] \in Words

LEMMA LineIsHeaded ==
  ASSUME NEW end \in LineEnds, NEW body \in Seq(Words \cup {SP, Nul}),
         body # <<>>, body[1] \in Words
  PROVE  Headed(body \o end, end)
<1> DEFINE h == body \o end
<1>1. /\ body \in Seq(Tokens) /\ end \in Seq(Tokens)
      /\ Len(body) \in Nat \ {0} /\ Len(end) \in 1..2
  <2>1. Words \cup {SP, Nul} \subseteq Tokens
    BY DEF Tokens
  <2> QED
    BY <2>1, EndIs
<1>2. /\ h \in Seq(Tokens) /\ Len(h) = Len(body) + Len(end)
      /\ \A i \in 1..Len(body) : h[i] = body[i]
      /\ \A i \in 1..Len(end) : h[Len(body) + i] = end[i]
  <2>1. body \in Seq(Tokens) /\ end \in Seq(Tokens)
    BY <1>1
  <2> QED
    BY <2>1, ConcatIs
<1> HIDE DEF h
<1>3. \A i \in 1..Len(body) : body[i] \in Words \cup {SP, Nul}
  OBVIOUS
<1>4. ASSUME NEW i \in 1..Len(h), i = 1 \/ h[i - 1] = LF PROVE h[i] \in Words
  <2>1. CASE i = 1
    <3>1. 1 \in 1..Len(body)
      BY <1>1
    <3> QED
      BY <1>2, <2>1, <3>1
  <2>2. CASE i # 1
    <3>1. h[i - 1] = LF /\ i - 1 \in 1..Len(h)
      BY <1>4, <2>2, <1>1, <1>2
    <3>2. CASE i - 1 <= Len(body)
      <4>1. i - 1 \in 1..Len(body)
        BY <1>1, <2>2, <3>2
      <4>2. body[i - 1] = LF /\ body[i - 1] \in Words \cup {SP, Nul}
        BY <1>2, <1>3, <3>1, <4>1
      <4> QED
        BY <4>2, TokensAre
    <3>3. CASE i - 1 > Len(body)
      <4> DEFINE b == Len(body)
                 e == Len(end)
      <4>1. b \in Nat \ {0} /\ e \in 1..2 /\ Len(h) = b + e /\ i \in 1..(b + e) /\ i - 1 > b
        BY <1>1, <1>2, <3>3
      <4>2. e = 2 /\ i - 1 = b + 1 /\ 1 \in 1..e
        <5> HIDE DEF b, e
        <5> QED
          BY <4>1
      <4>3. h[b + 1] = end[1] /\ end[1] = CR
        BY <1>2, <4>2, EndIs
      <4> QED
        BY <3>1, <4>2, <4>3, TokensAre
    <3> QED
      BY <1>1, <3>2, <3>3
  <2> QED
    BY <2>1, <2>2
<1>5. /\ Len(h) > Len(end)
      /\ \A i \in 1..Len(end) : h[Len(h) - Len(end) + i] = end[i]
  <2>1. Len(h) - Len(end) = Len(body)
    BY <1>1, <1>2
  <2> QED
    BY <1>1, <1>2, <2>1
<1> QED
  BY <1>2, <1>4, <1>5 DEF Headed, h

LEMMA HeadedConcat ==
  ASSUME NEW end \in LineEnds, NEW a, NEW b, Headed(a, end), Headed(b, end)
  PROVE  Headed(a \o b, end)
<1> DEFINE h == a \o b
           m == Len(a)
           n == Len(b)
           e == Len(end)
<1>1. /\ a \in Seq(Tokens) /\ b \in Seq(Tokens) /\ m \in Nat /\ n \in Nat
      /\ m > e /\ n > e /\ e \in 1..2 /\ end[e] = LF
      /\ \A i \in 1..e : b[n - e + i] = end[i]
      /\ \A i \in 1..m : (i = 1 \/ a[i - 1] = LF) => a[i] \in Words
      /\ \A i \in 1..n : (i = 1 \/ b[i - 1] = LF) => b[i] \in Words
  BY EndIs DEF Headed
<1>2. /\ h \in Seq(Tokens) /\ Len(h) = m + n
      /\ \A i \in 1..m : h[i] = a[i]
      /\ \A i \in 1..n : h[m + i] = b[i]
  <2>1. a \in Seq(Tokens) /\ b \in Seq(Tokens)
    BY <1>1
  <2> QED
    BY <2>1, ConcatIs
<1> HIDE DEF h, m, n, e
<1>3. \A i \in 1..e : h[Len(h) - e + i] = end[i]
  <2> TAKE i \in 1..e
  <2>1. n - e + i \in 1..n /\ Len(h) - e + i = m + (n - e + i)
    BY <1>1, <1>2
  <2> QED
    BY <1>1, <1>2, <2>1
<1>4. ASSUME NEW i \in 1..Len(h), i = 1 \/ h[i - 1] = LF PROVE h[i] \in Words
  <2>1. CASE i <= m
    <3>1. i \in 1..m /\ (i # 1 => i - 1 \in 1..m)
      BY <2>1, <1>1, <1>2
    <3>2. i = 1 \/ a[i - 1] = LF
      BY <1>2, <1>4, <3>1
    <3> QED
      BY <1>1, <1>2, <3>1, <3>2
  <2>2. CASE i > m
    <3>1. /\ i - m \in 1..n /\ i = m + (i - m) /\ i # 1
          /\ (i - m # 1 => (i - m) - 1 \in 1..n /\ i - 1 = m + ((i - m) - 1))
      BY <2>2, <1>1, <1>2
    <3>2. i - m = 1 \/ b[(i - m) - 1] = LF
      BY <1>2, <1>4, <3>1
    <3>3. b[i - m] \in Words /\ h[i] = b[i - m]
      BY <1>1, <1>2, <3>1, <3>2
    <3> QED
      BY <3>3
  <2> QED
    BY <1>1, <1>2, <2>1, <2>2
<1>5. Len(h) > e
  BY <1>1, <1>2
<1> QED
  BY <1>2, <1>3, <1>4, <1>5 DEF Headed, h, e

-----------------------------------------------------------------------------
(***************************************************************************)
(* The empty line.                                                         *)
(***************************************************************************)
LEMMA ReverseIs ==
  ASSUME NEW S, NEW s \in Seq(S)
  PROVE  /\ Reverse(s) \in Seq(S) /\ Len(Reverse(s)) = Len(s)
         /\ \A i \in 1..Len(s) : Reverse(s)[i] = s[Len(s) - i + 1]
<1> DEFINE n == Len(s)
           t == [i \in 1..n |-> s[(n - i) + 1]]
<1>1. n \in Nat /\ \A i \in 1..n : n - i + 1 \in 1..n
  OBVIOUS
<1>2. \A i \in 1..n : s[n - i + 1] \in S
  BY <1>1
<1>3. t \in Seq(S) /\ Len(t) = n /\ \A i \in 1..n : t[i] = s[n - i + 1]
  BY <1>1, <1>2
<1>4. Reverse(s) = t
  BY DEF Reverse
<1> QED
  BY <1>3, <1>4

LEMMA SuffixIs ==
  ASSUME NEW S, NEW s \in Seq(S), NEW t \in Seq(S)
  PROVE  IsSuffix(s, t) <=>
           Len(s) <= Len(t) /\ \A i \in 1..Len(s) : s[Len(s) - i + 1] = t[Len(t) - i + 1]
<1> DEFINE u == Reverse(s)
           v == Reverse(t)
<1>1. /\ u \in Seq(S) /\ Len(u) = Len(s) /\ \A i \in 1..Len(s) : u[i] = s[Len(s) - i + 1]
      /\ v \in Seq(S) /\ Len(v) = Len(t) /\ \A i \in 1..Len(t) : v[i] = t[Len(t) - i + 1]
  BY ReverseIs
<1>2. IsSuffix(s, t) <=> IsPrefix(u, v)
  BY DEF IsSuffix
<1> HIDE DEF u, v
<1>3. IsPrefix(u, v) <=> Len(u) <= Len(v) /\ \A i \in 1..Len(u) : u[i] = v[i]
  <2>1. u \in Seq(S) /\ v \in Seq(S)
    BY <1>1
  <2> QED
    BY <2>1, PrefixIs
<1>4. ASSUME Len(s) <= Len(t)
      PROVE  \A i \in 1..Len(s) : u[i] = v[i] <=> s[Len(s) - i + 1] = t[Len(t) - i + 1]
  <2>1. Len(s) \in Nat /\ Len(t) \in Nat
    OBVIOUS
  <2>2. 1..Len(s) \subseteq 1..Len(t)
    BY <1>4, <2>1
  <2> QED
    BY <1>1, <2>2
<1> QED
  BY <1>1, <1>2, <1>3, <1>4

LEMMA CompleteIs ==
  ASSUME NEW text \in Seq(Tokens), NEW piece
  PROVE  LET n == Len(text)
         IN  Complete(text, piece) <=>
               /\ n > 2 /\ text[n] = LF
               /\ \/ text[n - 1] = LF
                  \/ n > 4 /\ text[n - 1] = CR /\ text[n - 2] = LF /\ text[n - 3] = CR
<1> DEFINE n == Len(text)
           two == <<LF, LF>>
           four == <<CR, LF, CR, LF>>
<1>1. /\ two \in Seq(Tokens) /\ Len(two) = 2 /\ two[1] = LF /\ two[2] = LF
      /\ four \in Seq(Tokens) /\ Len(four) = 4 /\ four[1] = CR /\ four[2] = LF
      /\ four[3] = CR /\ four[4] = LF /\ n \in Nat
  BY DEF Tokens
<1>2. Complete(text, piece) <=> (n > 2 /\ IsSuffix(two, text)) \/ (n > 4 /\ IsSuffix(four, text))
  BY DEF Complete
<1> HIDE DEF two, four
<1>3. /\ IsSuffix(two, text) <=>
           2 <= n /\ \A i \in 1..2 : two[2 - i + 1] = text[n - i + 1]
      /\ IsSuffix(four, text) <=>
           4 <= n /\ \A i \in 1..4 : four[4 - i + 1] = text[n - i + 1]
  <2>1. two \in Seq(Tokens) /\ four \in Seq(Tokens)
    BY <1>1
  <2>2. /\ IsSuffix(two, text) <=>
             Len(two) <= n /\ \A i \in 1..Len(two) : two[Len(two) - i + 1] = text[n - i + 1]
        /\ IsSuffix(four, text) <=>
             Len(four) <= n /\ \A i \in 1..Len(four) : four[Len(four) - i + 1] = text[n - i + 1]
    BY <2>1, SuffixIs
  <2> HIDE DEF n
  <2> QED
    BY <1>1, <2>2
<1> HIDE DEF n
<1>4. 1..2 = {1, 2} /\ 1..4 = {1, 2, 3, 4}
  OBVIOUS
<1>5. /\ IsSuffix(two, text) <=> 2 <= n /\ text[n] = LF /\ text[n - 1] = LF
      /\ IsSuffix(four, text) <=>
           4 <= n /\ text[n] = LF /\ text[n - 1] = CR /\ text[n - 2] = LF /\ text[n - 3] = CR
  <2>1. /\ n - 1 + 1 = n /\ n - 2 + 1 = n - 1 /\ n - 3 + 1 = n - 2 /\ n - 4 + 1 = n - 3
    BY <1>1
  <2>2. (\A i \in 1..2 : two[2 - i + 1] = text[n - i + 1])
          <=> two[2] = text[n] /\ two[1] = text[n - 1]
    BY <1>4, <2>1
  <2>3. (\A i \in 1..4 : four[4 - i + 1] = text[n - i + 1])
          <=> four[4] = text[n] /\ four[3] = text[n - 1] /\ four[2] = text[n - 2] /\ four[1] = text[n - 3]
    BY <1>4, <2>1
  <2> QED
    BY <1>1, <1>3, <2>2, <2>3
<1> QED
  BY <1>1, <1>2, <1>5 DEF n

-----------------------------------------------------------------------------
(***************************************************************************)
(* The text of one request.                                                *)
(***************************************************************************)
LineOf(end) == [f \in FieldType |-> <<f.name, SP>> \o f.value \o end]
FieldLines(fs, end) == Encoded(LineOf(end), fs)
Start(r, end) == Line(r) \o end \o FieldLines(r.fields, end)

LEMMA LineIs ==
  ASSUME NEW r \in Requests
  PROVE  /\ Line(r) \in Seq(Words \cup {SP, Nul}) /\ Line(r) # <<>>
         /\ Line(r)[1] = r.method
<1> DEFINE S == Words \cup {SP, Nul}
           m == <<r.method, SP>>
           u == r.url
           v == IF r.version = None THEN <<>> ELSE <<SP, r.version>>
<1>1. m \in Seq(S) /\ Len(m) = 2 /\ m[1] = r.method
  BY RequestIs
<1>2. u \in Seq(S)
  <2>1. u \in Seq(Words \cup {Nul}) /\ Words \cup {Nul} \subseteq S
    BY RequestIs
  <2> HIDE DEF S, u
  <2> QED
    BY <2>1
<1>3. v \in Seq(S)
  <2>1. CASE r.version = None
    BY <2>1
  <2>2. CASE r.version # None
    <3>1. r.version \in S /\ SP \in S
      BY <2>2, RequestIs
    <3> QED
      BY <2>2, <3>1
  <2> QED
    BY <2>1, <2>2
<1>4. Line(r) = m \o u \o v
  BY DEF Line
<1> HIDE DEF S, m, u, v
<1> DEFINE mu == m \o u
           muv == mu \o v
<1>5. mu \in Seq(S) /\ Len(mu) = Len(m) + Len(u) /\ Len(u) \in Nat
      /\ \A i \in 1..Len(m) : mu[i] = m[i]
  <2>1. m \in Seq(S) /\ u \in Seq(S)
    BY <1>1, <1>2
  <2> QED
    BY <2>1, ConcatIs
<1> HIDE DEF mu
<1>6. muv \in Seq(S) /\ Len(muv) = Len(mu) + Len(v) /\ Len(v) \in Nat
      /\ \A i \in 1..Len(mu) : muv[i] = mu[i]
  <2>1. mu \in Seq(S) /\ v \in Seq(S)
    BY <1>3, <1>5
  <2> QED
    BY <2>1, ConcatIs
<1> HIDE DEF muv
<1>7. Len(mu) >= 2 /\ Len(muv) >= 2 /\ mu[1] = m[1] /\ muv[1] = mu[1] /\ muv # <<>>
  BY <1>1, <1>5, <1>6
<1>8. Line(r) = muv
  BY <1>4 DEF muv, mu
<1> QED
  BY <1>1, <1>6, <1>7, <1>8 DEF S

LEMMA FieldIs ==
  ASSUME NEW f \in FieldType
  PROVE  LET body == <<f.name, SP>> \o f.value
         IN  /\ body \in Seq(Words \cup {SP, Nul}) /\ body # <<>>
             /\ body[1] = f.name /\ body[2] = SP /\ Len(body) >= 2
             /\ f.name \in Words /\ f.value \in Value
<1> DEFINE S == Words \cup {SP, Nul}
           m == <<f.name, SP>>
           v == f.value
<1>1. f.name \in Words /\ v \in Seq(Words \cup {SP})
  BY DEF FieldType, Value
<1>2. m \in Seq(S) /\ Len(m) = 2 /\ m[1] = f.name /\ m[2] = SP
  BY <1>1
<1>3. v \in Seq(S)
  <2>1. Words \cup {SP} \subseteq S
    OBVIOUS
  <2> HIDE DEF S, v
  <2> QED
    BY <1>1, <2>1
<1> HIDE DEF S, m, v
<1> DEFINE mv == m \o v
<1>4. /\ mv \in Seq(S) /\ Len(mv) = Len(m) + Len(v) /\ Len(v) \in Nat
      /\ \A i \in 1..Len(m) : mv[i] = m[i]
  <2>1. m \in Seq(S) /\ v \in Seq(S)
    BY <1>2, <1>3
  <2> QED
    BY <2>1, ConcatIs
<1> HIDE DEF mv
<1>5. mv # <<>> /\ Len(mv) >= 2 /\ mv[1] = m[1] /\ mv[2] = m[2]
  BY <1>2, <1>4
<1> QED
  BY <1>1, <1>2, <1>4, <1>5 DEF S, m, v, mv, Value

LEMMA FieldLinesAre ==
  ASSUME NEW end \in LineEnds
  PROVE  /\ FieldLines(<<>>, end) = <<>>
         /\ \A f \in FieldType : Headed(LineOf(end)[f], end)
         /\ \A fs \in Seq(FieldType) :
              /\ FieldLines(fs, end) \in Seq(Tokens)
              /\ \A f \in FieldType :
                   FieldLines(Append(fs, f), end) = FieldLines(fs, end) \o LineOf(end)[f]
<1>1. ASSUME NEW f \in FieldType
      PROVE  Headed(LineOf(end)[f], end)
  <2> DEFINE body == <<f.name, SP>> \o f.value
  <2>1. /\ body \in Seq(Words \cup {SP, Nul}) /\ body # <<>>
        /\ body[1] = f.name /\ f.name \in Words
    BY FieldIs
  <2>2. LineOf(end)[f] = body \o end
    BY DEF LineOf
  <2> HIDE DEF body
  <2> QED
    BY <2>1, <2>2, LineIsHeaded
<1>2. PiecesIn(LineOf(end), FieldType, Tokens)
  BY <1>1 DEF PiecesIn, Headed
<1> QED
  BY <1>1, <1>2, EncodedIs DEF FieldLines

LEMMA StartIsHeaded ==
  ASSUME NEW r \in Requests, NEW end \in LineEnds
  PROVE  Headed(Start(r, end), end)
<1> DEFINE line == Line(r) \o end
           fields(fs) == FieldLines(fs, end)
           G == {fs \in Seq(FieldType) : Headed(line \o fields(fs), end)}
<1>1. Headed(line, end)
  <2> DEFINE body == Line(r)
  <2>1. /\ body \in Seq(Words \cup {SP, Nul}) /\ body # <<>> /\ body[1] \in Words
    BY LineIs, RequestIs
  <2> HIDE DEF body
  <2>2. Headed(body \o end, end)
    BY <2>1, LineIsHeaded
  <2> QED
    BY <2>2 DEF body
<1> HIDE DEF line
<1>2. line \in Seq(Tokens)
  BY <1>1 DEF Headed
<1>3. <<>> \in G
  <2>1. line \o <<>> = line /\ <<>> \in Seq(FieldType)
    BY <1>2
  <2>2. fields(<<>>) = <<>>
    BY FieldLinesAre
  <2> HIDE DEF fields
  <2> QED
    BY <1>1, <2>1, <2>2
<1>4. ASSUME NEW fs \in Seq(FieldType), NEW f \in FieldType, fs \in G PROVE Append(fs, f) \in G
  <2> DEFINE x == fields(fs)
             y == LineOf(end)[f]
  <2>1. fields(Append(fs, f)) = x \o y /\ x \in Seq(Tokens) /\ Headed(y, end) /\ Headed(line \o x, end)
    BY <1>4, FieldLinesAre
  <2> HIDE DEF x, y, fields
  <2>2. line \o (x \o y) = (line \o x) \o y
    <3>1. line \in Seq(Tokens) /\ x \in Seq(Tokens) /\ y \in Seq(Tokens)
      BY <1>2, <2>1 DEF Headed
    <3> QED
      BY <3>1, ConcatAssociative
  <2>3. Headed((line \o x) \o y, end)
    BY <2>1, HeadedConcat
  <2>4. Append(fs, f) \in Seq(FieldType)
    OBVIOUS
  <2> QED
    BY <2>1, <2>2, <2>3, <2>4
<1>5. Seq(FieldType) \subseteq G
  <2> HIDE DEF G
  <2> QED
    BY <1>3, <1>4, AppendInd
<1>6. r.fields \in Seq(FieldType)
  BY RequestIs
<1> QED
  BY <1>5, <1>6 DEF Start, line

LEMMA TextIs ==
  ASSUME NEW r \in Requests, NEW end \in LineEnds
  PROVE  Text(r, end) = Start(r, end) \o end
<1>1. r.fields \in Seq(FieldType)
  BY RequestIs
<1> DEFINE fs == r.fields
<1>2. \A i \in DOMAIN fs : fs[i] \in FieldType
  BY <1>1
<1>3. [i \in DOMAIN fs |-> LineOf(end)[fs[i]]] =
        [i \in DOMAIN fs |-> <<fs[i].name, SP>> \o fs[i].value \o end]
  <2>1. \A i \in DOMAIN fs : LineOf(end)[fs[i]] = <<fs[i].name, SP>> \o fs[i].value \o end
    BY <1>2 DEF LineOf
  <2> QED
    BY <2>1
<1>4. FieldLines(fs, end) =
        FlattenSeq([i \in DOMAIN fs |-> <<fs[i].name, SP>> \o fs[i].value \o end])
  BY <1>3 DEF FieldLines, Encoded
<1> QED
  BY <1>4 DEF Text, Start

\* An empty line ends at j.
ClosedAt(text, j) ==
  /\ j >= 2 /\ text[j] = LF
  /\ text[j - 1] = LF \/ (j >= 3 /\ text[j - 1] = CR /\ text[j - 2] = LF)

LEMMA ClosedOnce ==
  ASSUME NEW r \in Requests, NEW end \in LineEnds
  PROVE  LET t == Text(r, end)
         IN  /\ t \in Seq(Tokens) /\ Len(t) >= 3 /\ t[1] \in Words /\ t[Len(t)] = LF
             /\ \A j \in 1..Len(t) : ClosedAt(t, j) => j = Len(t)
             /\ Complete(t, t)
<1> DEFINE t == Text(r, end)
           h == Start(r, end)
           m == Len(h)
           e == Len(end)
<1>1. /\ h \in Seq(Tokens) /\ m \in Nat /\ m > e /\ e \in 1..2
      /\ end \in Seq(Tokens) /\ end[e] = LF /\ (e = 2 => end[1] = CR)
      /\ \A i \in 1..e : h[m - e + i] = end[i]
      /\ \A i \in 1..m : (i = 1 \/ h[i - 1] = LF) => h[i] \in Words
  BY StartIsHeaded, EndIs DEF Headed
<1>2. t = h \o end
  BY TextIs
<1>3. /\ t \in Seq(Tokens) /\ Len(t) = m + e
      /\ \A i \in 1..m : t[i] = h[i]
      /\ \A i \in 1..e : t[m + i] = end[i]
  <2>1. h \in Seq(Tokens) /\ end \in Seq(Tokens)
    BY <1>1
  <2> QED
    BY <1>2, <2>1, ConcatIs
<1> HIDE DEF t, h, m, e
<1>4. t[m + e] = LF /\ t[m] = LF /\ (e = 2 => t[m + 1] = CR /\ t[m - 1] = CR)
  <2>1. /\ m \in 1..m /\ e \in 1..e /\ m - e + e = m
        /\ (e = 2 => 1 \in 1..e /\ m - 1 \in 1..m /\ m - e + 1 = m - 1)
    BY <1>1
  <2> QED
    BY <1>1, <1>3, <2>1
<1>5. ASSUME NEW j \in 1..Len(t), ClosedAt(t, j), j # Len(t) PROVE FALSE
  <2>1. j >= 2 /\ t[j] = LF /\ (t[j - 1] = LF \/ (j >= 3 /\ t[j - 1] = CR /\ t[j - 2] = LF))
    BY <1>5 DEF ClosedAt
  <2>2. j <= m
    <3> SUFFICES ASSUME j > m PROVE FALSE
      BY <1>1, <1>3
    <3>1. e = 2 /\ j = m + 1
      BY <1>1, <1>3, <1>5
    <3> QED
      BY <1>4, <2>1, <3>1, TokensAre
  <2>3. t[j] = h[j] /\ t[j - 1] = h[j - 1] /\ (j >= 3 => t[j - 2] = h[j - 2])
    <3>1. j \in 1..m /\ j - 1 \in 1..m /\ (j >= 3 => j - 2 \in 1..m)
      BY <1>1, <2>1, <2>2
    <3> QED
      BY <1>3, <3>1
  <2>4. CASE h[j - 1] = LF
    <3>1. j \in 1..m /\ h[j] \in Words
      BY <1>1, <2>1, <2>2, <2>4
    <3> QED
      BY <2>1, <2>3, <3>1, TokensAre
  <2>5. CASE j >= 3 /\ h[j - 1] = CR /\ h[j - 2] = LF
    <3>1. j - 1 \in 1..m /\ (j - 1) - 1 = j - 2
      BY <1>1, <2>1, <2>2
    <3>2. h[j - 1] \in Words
      BY <1>1, <2>5, <3>1
    <3> QED
      BY <2>5, <3>2, TokensAre
  <2> QED
    BY <2>1, <2>3, <2>4, <2>5
<1>6. Complete(t, t)
  <2> DEFINE n == Len(t)
  <2>1. /\ n > 2 /\ t[n] = LF
        /\ \/ t[n - 1] = LF
           \/ n > 4 /\ t[n - 1] = CR /\ t[n - 2] = LF /\ t[n - 3] = CR
    <3>1. CASE e = 1
      <4>1. n = m + 1 /\ n - 1 = m /\ n > 2
        BY <1>1, <1>3, <3>1
      <4> QED
        BY <1>4, <3>1, <4>1
    <3>2. CASE e = 2
      <4>1. n = m + 2 /\ n - 1 = m + 1 /\ n - 2 = m /\ n - 3 = m - 1 /\ n > 4
        BY <1>1, <1>3, <3>2
      <4> QED
        BY <1>4, <3>2, <4>1
    <3> QED
      BY <1>1, <3>1, <3>2
  <2> HIDE DEF n
  <2> QED
    BY <1>3, <2>1, CompleteIs DEF n
<1>7. Len(t) >= 3 /\ t[1] \in Words /\ t[Len(t)] = LF
  <2>1. 1 \in 1..m
    BY <1>1
  <2>2. t[1] = h[1] /\ h[1] \in Words
    BY <1>1, <1>3, <2>1
  <2> QED
    BY <1>1, <1>3, <1>4, <2>2
<1> QED
  BY <1>3, <1>5, <1>6, <1>7 DEF t

-----------------------------------------------------------------------------
(***************************************************************************)
(* Many requests: the texts of all end where an empty line ends.           *)
(***************************************************************************)
Sent == [request : Requests, end : LineEnds]
TextOf == [s \in Sent |-> Text(s.request, s.end)]
Texts(ss) == Encoded(TextOf, ss)

LEMMA TextOfIs ==
  ASSUME NEW s \in Sent
  PROVE  /\ s.request \in Requests /\ s.end \in LineEnds
         /\ TextOf[s] = Text(s.request, s.end)
         /\ TextOf[s] \in Seq(Tokens) /\ Len(TextOf[s]) >= 3
         /\ \A j \in 1..Len(TextOf[s]) : ClosedAt(TextOf[s], j) => j = Len(TextOf[s])
         /\ TextOf[s][1] \in Words /\ TextOf[s][Len(TextOf[s])] = LF
<1>1. s.request \in Requests /\ s.end \in LineEnds /\ TextOf[s] = Text(s.request, s.end)
  BY DEF Sent, TextOf
<1> QED
  BY <1>1, ClosedOnce

LEMMA TextsAre ==
  /\ Texts(<<>>) = <<>>
  /\ \A ss \in Seq(Sent) :
       /\ Texts(ss) \in Seq(Tokens)
       /\ \A s \in Sent : Texts(Append(ss, s)) = Texts(ss) \o TextOf[s]
       /\ \A tt \in Seq(Sent) : Texts(ss \o tt) = Texts(ss) \o Texts(tt)
<1>1. PiecesIn(TextOf, Sent, Tokens)
  BY TextOfIs DEF PiecesIn
<1> QED
  BY <1>1, EncodedIs, EncodedConcat DEF Texts

LEMMA CutAtText ==
  ASSUME NEW ss \in Seq(Sent), NEW j \in 1..Len(Texts(ss)), ClosedAt(Texts(ss), j)
  PROVE  \E a, b \in Seq(Sent) : ss = a \o b /\ Len(Texts(a)) = j
<1> DEFINE Cut(tt, i) == \E a, b \in Seq(Sent) : tt = a \o b /\ Len(Texts(a)) = i
           G == {tt \in Seq(Sent) : \A i \in 1..Len(Texts(tt)) : ClosedAt(Texts(tt), i) => Cut(tt, i)}
<1>1. <<>> \in G
  <2>1. Texts(<<>>) = <<>> /\ 1..0 = {} /\ Len(<<>>) = 0
    BY TextsAre
  <2> QED
    BY <2>1
<1>2. ASSUME NEW tt \in Seq(Sent), NEW s \in Sent, tt \in G PROVE Append(tt, s) \in G
  <2> DEFINE x == Texts(tt)
             y == TextOf[s]
             z == x \o y
             uu == Append(tt, s)
  <2>1. /\ Texts(uu) = z /\ x \in Seq(Tokens) /\ y \in Seq(Tokens) /\ Len(y) >= 3
        /\ y[1] \in Words
        /\ \A i \in 1..Len(y) : ClosedAt(y, i) => i = Len(y)
        /\ uu \in Seq(Sent)
    BY TextsAre, TextOfIs
  <2>2. /\ z \in Seq(Tokens) /\ Len(z) = Len(x) + Len(y) /\ Len(x) \in Nat /\ Len(y) \in Nat
        /\ \A i \in 1..Len(x) : z[i] = x[i]
        /\ \A i \in 1..Len(y) : z[Len(x) + i] = y[i]
    <3>1. x \in Seq(Tokens) /\ y \in Seq(Tokens)
      BY <2>1
    <3> HIDE DEF x, y
    <3> QED
      BY <3>1, ConcatIs
  <2> SUFFICES ASSUME NEW i \in 1..Len(Texts(uu)), ClosedAt(Texts(uu), i) PROVE Cut(uu, i)
    BY <2>1
  <2> HIDE DEF z, y, uu
  <2>3. /\ i \in 1..Len(z) /\ i \in Nat
        /\ i >= 2 /\ z[i] = LF /\ (z[i - 1] = LF \/ (i >= 3 /\ z[i - 1] = CR /\ z[i - 2] = LF))
    BY <2>1 DEF ClosedAt
  <2>4. CASE i <= Len(x)
    <3>1. /\ i \in 1..Len(x) /\ z[i] = x[i] /\ z[i - 1] = x[i - 1]
          /\ (i >= 3 => z[i - 2] = x[i - 2])
      <4>1. i \in 1..Len(x) /\ i - 1 \in 1..Len(x) /\ (i >= 3 => i - 2 \in 1..Len(x))
        BY <2>2, <2>3, <2>4
      <4> QED
        BY <2>2, <4>1
    <3>2. ClosedAt(x, i)
      BY <2>3, <3>1 DEF ClosedAt
    <3>3. PICK a \in Seq(Sent), b \in Seq(Sent) : tt = a \o b /\ Len(Texts(a)) = i
      BY <1>2, <3>1, <3>2
    <3>4. uu = a \o Append(b, s) /\ Append(b, s) \in Seq(Sent)
      <4>1. a \o Append(b, s) = Append(a \o b, s)
        OBVIOUS
      <4> QED
        BY <3>3, <4>1 DEF uu
    <3> QED
      BY <3>3, <3>4
  <2>5. CASE i > Len(x)
    <3> DEFINE k == i - Len(x)
               m == Len(x)
    <3>1. k \in 1..Len(y) /\ i = m + k /\ m \in Nat /\ z[i] = y[k]
      BY <2>2, <2>3, <2>5
    <3> HIDE DEF k, x
    <3>2. k >= 2
      <4> SUFFICES ASSUME k = 1 PROVE FALSE
        BY <3>1
      <4> QED
        BY <2>1, <2>3, <3>1, TokensAre
    <3>3. z[i - 1] = y[k - 1] /\ (k >= 3 => z[i - 2] = y[k - 2])
      <4>1. k - 1 \in 1..Len(y) /\ i - 1 = m + (k - 1)
            /\ (k >= 3 => k - 2 \in 1..Len(y) /\ i - 2 = m + (k - 2))
        <5> DEFINE l == Len(y)
        <5>1. k \in 1..l /\ k >= 2 /\ l \in Nat /\ i = m + k /\ m \in Nat
          BY <2>2, <3>1, <3>2
        <5> HIDE DEF l, m
        <5>2. k - 1 \in 1..l /\ (k >= 3 => k - 2 \in 1..l)
          BY <5>1
        <5>3. i - 1 = m + (k - 1) /\ i - 2 = m + (k - 2)
          BY <5>1
        <5> QED
          BY <5>2, <5>3 DEF l
      <4> QED
        BY <2>2, <4>1
    <3>4. k = 2 => y[k - 1] # LF /\ y[k - 1] # CR
      BY <2>1, TokensAre
    <3>5. ClosedAt(y, k)
      <4>1. CASE k = 2
        BY <2>3, <3>3, <3>4, <4>1
      <4>2. CASE k >= 3
        BY <2>3, <3>1, <3>3, <4>2 DEF ClosedAt
      <4> QED
        BY <3>1, <3>2, <4>1, <4>2
    <3>6. k = Len(y)
      BY <2>1, <3>1, <3>5
    <3>7. i = Len(z)
      BY <2>2, <3>1, <3>6
    <3>8. uu = uu \o <<>> /\ <<>> \in Seq(Sent)
      BY <2>1
    <3> QED
      BY <2>1, <3>7, <3>8
  <2>6. i <= Len(x) \/ i > Len(x)
    <3>1. i \in Nat /\ Len(x) \in Nat
      BY <2>2, <2>3
    <3> HIDE DEF x
    <3> QED
      BY <3>1
  <2> QED
    BY <2>4, <2>5, <2>6
<1>3. Seq(Sent) \subseteq G
  <2> HIDE DEF G
  <2> QED
    BY <1>1, <1>2, AppendInd
<1> QED
  BY <1>3

LEMMA CompleteCloses ==
  ASSUME NEW text \in Seq(Tokens), NEW piece, Complete(text, piece)
  PROVE  Len(text) >= 3 /\ ClosedAt(text, Len(text))
<1> DEFINE n == Len(text)
<1>1. /\ n > 2 /\ text[n] = LF
      /\ \/ text[n - 1] = LF
         \/ n > 4 /\ text[n - 1] = CR /\ text[n - 2] = LF /\ text[n - 3] = CR
  BY CompleteIs
<1>2. n \in Nat
  OBVIOUS
<1> HIDE DEF n
<1>3. n >= 3 /\ ClosedAt(text, n)
  BY <1>1, <1>2 DEF ClosedAt
<1> QED
  BY <1>3 DEF n

LEMMA ConcatCuts ==
  ASSUME NEW S, NEW a \in Seq(S), NEW b \in Seq(S), NEW c \in Seq(S), NEW d \in Seq(S)
  PROVE  a \o b = c \o d /\ Len(a) = Len(c) => a = c /\ b = d
<1> DEFINE x == a \o b
           y == c \o d
           m == Len(a)
           n == Len(b)
<1>1. /\ Len(x) = m + n /\ m \in Nat /\ n \in Nat
      /\ \A i \in 1..m : x[i] = a[i]
      /\ \A i \in 1..n : x[m + i] = b[i]
  BY ConcatIs
<1>2. /\ Len(y) = Len(c) + Len(d) /\ Len(d) \in Nat
      /\ \A i \in 1..Len(c) : y[i] = c[i]
      /\ \A i \in 1..Len(d) : y[Len(c) + i] = d[i]
  BY ConcatIs
<1> HIDE DEF x, y, m, n
<1> SUFFICES ASSUME x = y, m = Len(c) PROVE a = c /\ b = d
  BY DEF x, y, m
<1>3. n = Len(d)
  BY <1>1, <1>2
<1>4. (\A i \in 1..m : a[i] = c[i]) /\ (\A i \in 1..n : b[i] = d[i])
  BY <1>1, <1>2, <1>3
<1>5. a = c
  <2>1. Len(a) = m /\ Len(c) = m
    BY DEF m
  <2> QED
    BY <1>4, <2>1
<1>6. b = d
  <2>1. Len(b) = n /\ Len(d) = n
    BY <1>3 DEF n
  <2> QED
    BY <1>4, <2>1
<1> QED
  BY <1>5, <1>6

LEMMA ReadIsTexts ==
  ASSUME NEW new \in Seq(Sent), NEW text \in Seq(Tokens), NEW rest \in Seq(Tokens), NEW piece,
         text \o rest = Texts(new), Complete(text, piece)
  PROVE  \E a, b \in Seq(Sent) :
           new = a \o b /\ a # <<>> /\ text = Texts(a) /\ rest = Texts(b)
<1> DEFINE all == text \o rest
           j == Len(text)
<1>1. /\ all \in Seq(Tokens) /\ Len(all) = j + Len(rest) /\ j \in Nat /\ Len(rest) \in Nat
      /\ \A i \in 1..j : all[i] = text[i]
  BY ConcatIs
<1>2. j >= 3 /\ ClosedAt(text, j)
  BY CompleteCloses
<1>3. all = Texts(new)
  OBVIOUS
<1> HIDE DEF all
<1>4. j \in 1..Len(all) /\ ClosedAt(all, j)
  <2>1. all[j] = text[j] /\ all[j - 1] = text[j - 1] /\ all[j - 2] = text[j - 2]
    <3>1. j \in 1..j /\ j - 1 \in 1..j /\ j - 2 \in 1..j
      BY <1>1, <1>2
    <3> QED
      BY <1>1, <3>1
  <2> QED
    BY <1>1, <1>2, <2>1 DEF ClosedAt
<1>5. PICK a \in Seq(Sent), b \in Seq(Sent) : new = a \o b /\ Len(Texts(a)) = j
  BY <1>3, <1>4, CutAtText
<1>6. /\ Texts(a) \in Seq(Tokens) /\ Texts(b) \in Seq(Tokens)
      /\ Texts(a) \o Texts(b) = text \o rest
  BY <1>3, <1>5, TextsAre DEF all
<1>7. Texts(a) = text /\ Texts(b) = rest
  <2> DEFINE x == Texts(a)
             y == Texts(b)
  <2>1. /\ x \in Seq(Tokens) /\ y \in Seq(Tokens) /\ x \o y = text \o rest /\ Len(x) = Len(text)
    BY <1>5, <1>6
  <2> HIDE DEF x, y
  <2>2. x = text /\ y = rest
    BY <2>1, ConcatCuts
  <2> QED
    BY <2>2 DEF x, y
<1>8. a # <<>>
  <2> SUFFICES ASSUME a = <<>> PROVE FALSE
    OBVIOUS
  <2>1. Len(Texts(a)) = 0
    BY TextsAre
  <2> QED
    BY <1>2, <1>5, <2>1
<1> QED
  BY <1>5, <1>7, <1>8

-----------------------------------------------------------------------------
(***************************************************************************)
(* The server reads from the start of a request.                           *)
(***************************************************************************)

\* A text is that of the last of some requests.
LastOf(ss, text) == \E old, new \in Seq(Sent) : ss = old \o new /\ text = Texts(new)

LEMMA LastGrows ==
  ASSUME NEW ss, NEW text, LastOf(ss, text), NEW s \in Sent
  PROVE  LastOf(Append(ss, s), text \o TextOf[s])
<1>1. PICK old \in Seq(Sent), new \in Seq(Sent) : ss = old \o new /\ text = Texts(new)
  BY DEF LastOf
<1>2. Append(old \o new, s) = old \o Append(new, s) /\ Append(new, s) \in Seq(Sent)
  OBVIOUS
<1>3. Texts(Append(new, s)) = Texts(new) \o TextOf[s]
  BY TextsAre
<1> QED
  BY <1>1, <1>2, <1>3 DEF LastOf

LEMMA LastRead ==
  ASSUME NEW ss, NEW text \in Seq(Tokens), NEW rest \in Seq(Tokens), NEW piece,
         LastOf(ss, text \o rest), Complete(text, piece)
  PROVE  LastOf(ss, rest)
<1>1. PICK old \in Seq(Sent), new \in Seq(Sent) : ss = old \o new /\ text \o rest = Texts(new)
  BY DEF LastOf
<1>2. \E a, b \in Seq(Sent) : new = a \o b /\ a # <<>> /\ text = Texts(a) /\ rest = Texts(b)
  BY <1>1, ReadIsTexts
<1>3. PICK a \in Seq(Sent), b \in Seq(Sent) : new = a \o b /\ rest = Texts(b)
  BY <1>2
<1>4. old \o (a \o b) = (old \o a) \o b /\ old \o a \in Seq(Sent)
  BY ConcatAssociative
<1> QED
  BY <1>1, <1>3, <1>4 DEF LastOf

\* What has not been answered is the text of the last requests.
Aligned ==
  /\ sent \in Seq(Sent) /\ wire \in Seq(Tokens) /\ request \in Seq(Tokens)
  /\ state = "RECV_REQUEST" => conn_close = TRUE /\ LastOf(sent, request \o wire)
  /\ state \in {"SEND_HEADER", "DONE"} /\ ~conn_close => LastOf(sent, wire)

LEMMA PieceIs ==
  ASSUME Aligned, NEW n \in 1..Len(wire)
  PROVE  LET piece == SubSeq(wire, 1, n)
             text  == request \o piece
             rest  == SubSeq(wire, n + 1, Len(wire))
         IN  /\ piece \in Seq(Tokens) /\ text \in Seq(Tokens) /\ rest \in Seq(Tokens)
             /\ text # <<>> /\ text \o rest = request \o wire
<1> DEFINE piece == SubSeq(wire, 1, n)
           rest == SubSeq(wire, n + 1, Len(wire))
<1>1. wire \in Seq(Tokens) /\ request \in Seq(Tokens) /\ Len(wire) \in Nat
  BY DEF Aligned
<1>2. /\ piece \in Seq(Tokens) /\ Len(piece) = n /\ \A i \in 1..n : piece[i] = wire[i]
      /\ rest \in Seq(Tokens) /\ Len(rest) = Len(wire) - n
      /\ \A i \in 1..(Len(wire) - n) : rest[i] = wire[n + i]
  BY <1>1
<1> HIDE DEF piece, rest
<1>3. piece \o rest = wire
  <2> DEFINE x == piece \o rest
             m == Len(wire)
  <2>1. /\ x \in Seq(Tokens) /\ Len(x) = Len(piece) + Len(rest)
        /\ \A i \in 1..Len(piece) : x[i] = piece[i]
        /\ \A i \in 1..Len(rest) : x[Len(piece) + i] = rest[i]
    <3>1. piece \in Seq(Tokens) /\ rest \in Seq(Tokens)
      BY <1>2
    <3> QED
      BY <3>1, ConcatIs
  <2> HIDE DEF x
  <2>2. Len(x) = m /\ m \in Nat /\ n \in 1..m
    BY <1>1, <1>2, <2>1
  <2>3. \A i \in 1..m : x[i] = wire[i]
    <3> TAKE i \in 1..m
    <3>1. CASE i <= n
      <4>1. i \in 1..n
        BY <3>1
      <4> QED
        BY <1>2, <2>1, <4>1
    <3>2. CASE i > n
      <4> DEFINE j == i - n
      <4>1. j \in 1..(m - n) /\ n + j = i
        BY <2>2, <3>2
      <4>2. Len(piece) = n /\ Len(rest) = m - n
        BY <1>2
      <4> HIDE DEF j, m
      <4>3. x[n + j] = rest[j]
        BY <2>1, <4>1, <4>2
      <4>4. rest[j] = wire[n + j]
        BY <1>2, <4>1 DEF m
      <4> QED
        BY <4>1, <4>3, <4>4
    <3> QED
      BY <2>2, <3>1, <3>2
  <2>4. x = wire
    <3>1. x \in Seq(Tokens) /\ wire \in Seq(Tokens) /\ Len(x) = Len(wire)
      BY <1>1, <2>1, <2>2
    <3> QED
      BY <2>3, <3>1
  <2> QED
    BY <2>4 DEF x
<1>4. (request \o piece) \o rest = request \o (piece \o rest)
  <2>1. request \in Seq(Tokens) /\ piece \in Seq(Tokens) /\ rest \in Seq(Tokens)
    BY <1>1, <1>2
  <2> QED
    BY <2>1, ConcatAssociative
<1>5. request \o piece \in Seq(Tokens) /\ request \o piece # <<>>
  <2>1. request \in Seq(Tokens) /\ piece \in Seq(Tokens)
    BY <1>1, <1>2
  <2>2. /\ request \o piece \in Seq(Tokens) /\ Len(request \o piece) = Len(request) + Len(piece)
        /\ Len(request) \in Nat
    BY <2>1, ConcatIs
  <2> QED
    BY <1>2, <2>2
<1> QED
  BY <1>2, <1>3, <1>4, <1>5 DEF piece, rest

LEMMA AlignedInit == Init => Aligned
<1> SUFFICES ASSUME Init PROVE Aligned
  OBVIOUS
<1>1. <<>> \in Seq(Sent) /\ <<>> \o <<>> = <<>> /\ <<>> \in Seq(Tokens) /\ Texts(<<>>) = <<>>
  BY TextsAre
<1>2. sent = <<>> /\ wire = <<>> /\ request = <<>> /\ conn_close = TRUE /\ state = "RECV_REQUEST"
  BY DEF Init
<1>3. LastOf(<<>>, <<>>)
  BY <1>1 DEF LastOf
<1> QED
  BY <1>1, <1>2, <1>3 DEF Aligned

LEMMA AlignedStep == Aligned /\ [Next]_vars => Aligned'
<1> SUFFICES ASSUME Aligned, [Next]_vars PROVE Aligned'
  OBVIOUS
<1>1. /\ sent \in Seq(Sent) /\ wire \in Seq(Tokens) /\ request \in Seq(Tokens)
      /\ state = "RECV_REQUEST" => conn_close = TRUE /\ LastOf(sent, request \o wire)
      /\ state \in {"SEND_HEADER", "DONE"} /\ ~conn_close => LastOf(sent, wire)
  BY DEF Aligned
<1>2. ASSUME NEW r \in Requests, NEW end \in LineEnds, Send(r, end) PROVE Aligned'
  <2> DEFINE s == [request |-> r, end |-> end]
             z == TextOf[s]
  <2>1. s \in Sent /\ z = Text(r, end) /\ z \in Seq(Tokens)
    <3>1. s \in Sent
      BY DEF Sent
    <3> QED
      BY <3>1, TextOfIs
  <2>2. /\ sent' = Append(sent, s) /\ wire' = wire \o z
        /\ UNCHANGED <<request, conn_close, state>>
    BY <1>2, <2>1 DEF Send
  <2>3. ASSUME NEW text, LastOf(sent, text) PROVE LastOf(sent', text \o z)
    BY <2>1, <2>2, <2>3, LastGrows
  <2> HIDE DEF s, z
  <2>4. /\ (request \o wire) \o z = request \o (wire \o z)
        /\ wire \o z \in Seq(Tokens)
    <3>1. request \in Seq(Tokens) /\ wire \in Seq(Tokens) /\ z \in Seq(Tokens)
      BY <1>1, <2>1
    <3>2. (request \o wire) \o z = request \o (wire \o z)
      BY <3>1, ConcatAssociative
    <3>3. wire \o z \in Seq(Tokens)
      BY <3>1, ConcatIs
    <3> QED
      BY <3>2, <3>3
  <2>5. sent' \in Seq(Sent)
    BY <1>1, <2>1, <2>2
  <2> QED
    BY <1>1, <2>2, <2>3, <2>4, <2>5 DEF Aligned
<1>3. ASSUME NEW n \in 1..Len(wire), poll_recv_request(n) PROVE Aligned'
  <2> DEFINE piece == SubSeq(wire, 1, n)
             text == request \o piece
             rest == SubSeq(wire, n + 1, Len(wire))
  <2>1. /\ text \in Seq(Tokens) /\ rest \in Seq(Tokens) /\ text \o rest = request \o wire
    BY PieceIs
  <2>2. /\ state = "RECV_REQUEST" /\ request' = text /\ wire' = rest /\ sent' = sent
        /\ state' = IF Complete(text, piece) \/ TooLong(text) THEN "SEND_HEADER" ELSE state
        /\ ~Complete(text, piece) => conn_close' = conn_close
    BY <1>3 DEF poll_recv_request
  <2> HIDE DEF piece, text, rest
  <2>3. LastOf(sent, text \o rest) /\ conn_close = TRUE
    BY <1>1, <2>1, <2>2
  <2>4. Complete(text, piece) => LastOf(sent, rest)
    BY <2>1, <2>3, LastRead
  <2> QED
    BY <1>1, <2>1, <2>2, <2>3, <2>4 DEF Aligned
<1>4. CASE poll_send
  BY <1>1, <1>4 DEF poll_send, Aligned
<1>5. CASE Break
  BY <1>1, <1>5 DEF Break, Aligned
<1>6. CASE free_connection
  BY <1>1, <1>6 DEF free_connection, Aligned
<1>7. CASE recycle_connection
  <2>1. /\ state = "DONE" /\ ~conn_close /\ state' = "RECV_REQUEST" /\ conn_close' = TRUE
        /\ request' = <<>> /\ wire' = wire /\ sent' = sent
    BY <1>7 DEF recycle_connection, ResetClose
  <2>2. <<>> \o wire = wire /\ <<>> \in Seq(Tokens)
    BY <1>1
  <2> QED
    BY <1>1, <2>1, <2>2 DEF Aligned
<1>8. CASE UNCHANGED vars
  BY <1>1, <1>8 DEF vars, Aligned
<1> QED
  BY <1>2, <1>3, <1>4, <1>5, <1>6, <1>7, <1>8 DEF Next, Serve, Recv

LEMMA AlignedStarts == Aligned => StartsAtRequest
<1> SUFFICES ASSUME Aligned, state = "RECV_REQUEST"
             PROVE  \E k \in 1..(Len(sent) + 1) :
                      request \o wire =
                        FlattenSeq([i \in 1..(Len(sent) + 1 - k) |-> SentText(k + i - 1)])
  BY DEF StartsAtRequest
<1>1. PICK old \in Seq(Sent), new \in Seq(Sent) :
        sent = old \o new /\ request \o wire = Texts(new)
  BY DEF Aligned, LastOf
<1>2. /\ Len(sent) = Len(old) + Len(new) /\ Len(old) \in Nat /\ Len(new) \in Nat
      /\ \A i \in 1..Len(new) : sent[Len(old) + i] = new[i]
  BY <1>1, ConcatIs
<1> DEFINE m == Len(old)
           n == Len(new)
           k == m + 1
<1>3. k \in 1..(Len(sent) + 1) /\ Len(sent) + 1 - k = n
  BY <1>2
<1>4. ASSUME NEW i \in 1..n PROVE SentText(k + i - 1) = TextOf[new[i]]
  <2>1. k + i - 1 = m + i
    BY <1>2
  <2>2. sent[k + i - 1] = new[i] /\ new[i] \in Sent
    BY <1>2, <2>1
  <2> HIDE DEF k, m, n
  <2> QED
    BY <2>2, TextOfIs DEF SentText
<1>5. [i \in 1..n |-> SentText(k + i - 1)] = [i \in DOMAIN new |-> TextOf[new[i]]]
  <2>1. DOMAIN new = 1..n
    OBVIOUS
  <2> HIDE DEF k
  <2> QED
    BY <1>4, <2>1
<1>6. request \o wire = FlattenSeq([i \in 1..(Len(sent) + 1 - k) |-> SentText(k + i - 1)])
  BY <1>1, <1>3, <1>5 DEF Texts, Encoded
<1> QED
  BY <1>3, <1>6

\* Even if the client does not wait, the server starts to read at the start
\* of a request, never in the middle of one (poll_recv_request,
\* recycle_connection).
THEOREM ReadsFromTheStart == Spec => []StartsAtRequest
<1>1. Spec => []Aligned
  BY AlignedInit, AlignedStep, PTL DEF Spec
<1> QED
  BY <1>1, AlignedStarts, PTL

-----------------------------------------------------------------------------
(***************************************************************************)
(* parse_request finds the words of the request line.                      *)
(***************************************************************************)
LEMMA FindIs ==
  ASSUME NEW text \in Seq(Tokens), NEW tokens, NEW i \in Nat, NEW j \in i..(Len(text) + 1),
         j = Len(text) + 1 \/ text[j] \in tokens,
         \A k \in i..(j - 1) : text[k] \notin tokens
  PROVE  Find(text, i, tokens) = j
<1> DEFINE P(l) == /\ l = Len(text) + 1 \/ text[l] \in tokens
                   /\ \A k \in i..(l - 1) : text[k] \notin tokens
           n == Len(text) + 1
<1>1. n \in Nat
  OBVIOUS
<1>2. P(j) /\ j \in i..n
  OBVIOUS
<1> HIDE DEF n
<1>3. ASSUME NEW l \in i..n, P(l) PROVE l = j
  <2>1. l < j => l \in i..(j - 1) /\ l # n
    BY <1>1, <1>2
  <2>2. j < l => j \in i..(l - 1) /\ j # n
    BY <1>1, <1>2
  <2>3. ~(l < j)
    BY <1>2, <1>3, <2>1 DEF n
  <2>4. ~(j < l)
    BY <1>2, <1>3, <2>2 DEF n
  <2> QED
    BY <1>1, <1>2, <2>3, <2>4
<1>4. Find(text, i, tokens) = CHOOSE l \in i..n : P(l)
  BY DEF Find, n
<1> HIDE DEF P
<1> QED
  BY <1>2, <1>3, <1>4

\* Where the words of a request line are.
LEMMA LineAt ==
  ASSUME NEW r \in Requests, NEW more \in Seq(Tokens), more # <<>>
  PROVE  LET text == Line(r) \o more
             u == Len(r.url)
         IN  /\ text \in Seq(Tokens) /\ Line(r) \in Seq(Tokens) /\ u \in Nat \ {0}
             /\ text[1] = r.method /\ text[2] = SP
             /\ \A i \in 1..u : text[2 + i] = r.url[i]
             /\ Len(text) = Len(Line(r)) + Len(more)
             /\ r.version = None =>
                  Len(Line(r)) = 2 + u /\ Len(text) >= 3 + u /\ text[3 + u] = more[1]
             /\ r.version # None =>
                  /\ Len(Line(r)) = 4 + u /\ Len(text) >= 5 + u
                  /\ text[3 + u] = SP /\ text[4 + u] = r.version /\ text[5 + u] = more[1]
<1> DEFINE m == <<r.method, SP>>
           url == r.url
           u == Len(url)
           v == IF r.version = None THEN <<>> ELSE <<SP, r.version>>
           mu == m \o url
           line == mu \o v
           text == line \o more
<1>1. m \in Seq(Tokens) /\ Len(m) = 2 /\ m[1] = r.method /\ m[2] = SP
  BY RequestIs, TokensAre DEF Behind
<1>2. url \in Seq(Tokens) /\ u \in Nat \ {0}
  <2>1. url \in Seq(Words \cup {Nul}) /\ Words \cup {Nul} \subseteq Tokens /\ url # <<>>
    BY RequestIs DEF Tokens
  <2> HIDE DEF url
  <2> QED
    BY <2>1
<1>3. /\ v \in Seq(Tokens)
      /\ r.version = None => Len(v) = 0
      /\ r.version # None => Len(v) = 2 /\ v[1] = SP /\ v[2] = r.version
  <2>1. CASE r.version = None
    BY <2>1
  <2>2. CASE r.version # None
    <3>1. r.version \in Tokens /\ SP \in Tokens
      BY <2>2, RequestIs, TokensAre DEF Behind
    <3>2. v = <<SP, r.version>>
      BY <2>2
    <3> QED
      BY <2>2, <3>1, <3>2
  <2> QED
    BY <2>1, <2>2
<1>4. Line(r) = line
  BY DEF Line
<1> HIDE DEF m, url, v
<1>5. /\ mu \in Seq(Tokens) /\ Len(mu) = Len(m) + Len(url)
      /\ \A i \in 1..Len(m) : mu[i] = m[i]
      /\ \A i \in 1..Len(url) : mu[Len(m) + i] = url[i]
  <2>1. m \in Seq(Tokens) /\ url \in Seq(Tokens)
    BY <1>1, <1>2
  <2> QED
    BY <2>1, ConcatIs
<1> HIDE DEF mu
<1>6. /\ line \in Seq(Tokens) /\ Len(line) = Len(mu) + Len(v)
      /\ \A i \in 1..Len(mu) : line[i] = mu[i]
      /\ \A i \in 1..Len(v) : line[Len(mu) + i] = v[i]
  <2>1. mu \in Seq(Tokens) /\ v \in Seq(Tokens)
    BY <1>3, <1>5
  <2> QED
    BY <2>1, ConcatIs
<1> HIDE DEF line
<1>7. /\ text \in Seq(Tokens) /\ Len(text) = Len(line) + Len(more)
      /\ \A i \in 1..Len(line) : text[i] = line[i]
      /\ \A i \in 1..Len(more) : text[Len(line) + i] = more[i]
      /\ Len(more) \in Nat \ {0}
  <2>1. line \in Seq(Tokens) /\ more \in Seq(Tokens)
    BY <1>6
  <2>2. Len(more) # 0
    OBVIOUS
  <2> QED
    BY <2>1, <2>2, ConcatIs
<1> HIDE DEF text
<1>8. text[1] = r.method /\ text[2] = SP
  <2>1. /\ 1 \in 1..Len(m) /\ 1 \in 1..Len(mu) /\ 1 \in 1..Len(line)
        /\ 2 \in 1..Len(m) /\ 2 \in 1..Len(mu) /\ 2 \in 1..Len(line)
    <3> DEFINE lm == Len(m)
               lu == Len(url)
               lmu == Len(mu)
               lv == Len(v)
               ll == Len(line)
    <3>1. lm = 2 /\ lu \in Nat \ {0} /\ lmu = lm + lu /\ (lv = 0 \/ lv = 2) /\ ll = lmu + lv
      BY <1>1, <1>2, <1>3, <1>5, <1>6
    <3> HIDE DEF lm, lu, lmu, lv, ll
    <3>2. /\ 1 \in 1..lm /\ 1 \in 1..lmu /\ 1 \in 1..ll
          /\ 2 \in 1..lm /\ 2 \in 1..lmu /\ 2 \in 1..ll
      BY <3>1
    <3> QED
      BY <3>2 DEF lm, lmu, ll
  <2> QED
    BY <1>1, <1>5, <1>6, <1>7, <2>1
<1>9. ASSUME NEW i \in 1..u PROVE text[2 + i] = url[i]
  <2>1. mu[2 + i] = url[i]
    BY <1>1, <1>5
  <2>2. 2 + i \in 1..Len(mu) /\ 2 + i \in 1..Len(line)
    <3> DEFINE lmu == Len(mu)
               lv == Len(v)
               ll == Len(line)
    <3>1. u \in Nat /\ lmu = 2 + u /\ (lv = 0 \/ lv = 2) /\ ll = lmu + lv
      BY <1>1, <1>2, <1>3, <1>5, <1>6
    <3> HIDE DEF lmu, lv, ll, u
    <3>2. 2 + i \in 1..lmu /\ 2 + i \in 1..ll
      BY <3>1
    <3> QED
      BY <3>2 DEF lmu, ll
  <2> QED
    BY <1>6, <1>7, <2>1, <2>2
<1>10. CASE r.version = None
  <2>1. Len(line) = 2 + u
    BY <1>1, <1>2, <1>3, <1>5, <1>6, <1>10
  <2>2. 1 \in 1..Len(more) /\ Len(text) >= 3 + u /\ (2 + u) + 1 = 3 + u
    BY <1>2, <1>7, <2>1
  <2>3. text[3 + u] = more[1]
    BY <1>7, <2>1, <2>2
  <2> QED
    BY <1>2, <1>4, <1>6, <1>7, <1>8, <1>9, <1>10, <2>1, <2>2, <2>3 DEF text, url
<1>11. CASE r.version # None
  <2>1. Len(line) = 4 + u /\ Len(mu) = 2 + u /\ Len(v) = 2
    <3> DEFINE lmu == Len(mu)
               lv == Len(v)
               ll == Len(line)
    <3>1. lmu = 2 + u /\ lv = 2 /\ ll = lmu + lv /\ u \in Nat
      BY <1>1, <1>2, <1>3, <1>5, <1>6, <1>11
    <3> HIDE DEF lmu, lv, ll, u
    <3>2. ll = 4 + u
      BY <3>1
    <3> QED
      BY <3>1, <3>2 DEF lmu, lv, ll
  <2>2. 1 \in 1..Len(more) /\ Len(text) >= 5 + u /\ (4 + u) + 1 = 5 + u
    BY <1>2, <1>7, <2>1
  <2>3. text[5 + u] = more[1]
    BY <1>7, <2>1, <2>2
  <2>4. line[3 + u] = v[1] /\ line[4 + u] = v[2]
    <3>1. /\ 1 \in 1..Len(v) /\ 2 \in 1..Len(v)
          /\ Len(mu) + 1 = 3 + u /\ Len(mu) + 2 = 4 + u
      BY <1>2, <2>1
    <3> QED
      BY <1>6, <3>1
  <2>5. text[3 + u] = SP /\ text[4 + u] = r.version
    <3>1. 3 + u \in 1..Len(line) /\ 4 + u \in 1..Len(line)
      BY <1>2, <2>1
    <3> QED
      BY <1>3, <1>7, <1>11, <2>4, <3>1
  <2> QED
    BY <1>2, <1>4, <1>6, <1>7, <1>8, <1>9, <1>11, <2>1, <2>2, <2>3, <2>5 DEF text, url
<1> QED
  BY <1>10, <1>11

LEMMA SubSeqOne ==
  ASSUME NEW S, NEW text \in Seq(S), NEW k \in 1..Len(text)
  PROVE  SubSeq(text, k, k) = <<text[k]>>
<1>1. k - k + 1 = 1 /\ k \in Nat
  OBVIOUS
<1>2. /\ SubSeq(text, k, k) \in Seq(S) /\ Len(SubSeq(text, k, k)) = 1
      /\ SubSeq(text, k, k)[1] = text[k]
  BY <1>1
<1> DEFINE x == SubSeq(text, k, k)
<1> HIDE DEF x
<1>3. x \in Seq(S) /\ Len(x) = 1 /\ x[1] = text[k]
  BY <1>2 DEF x
<1>4. x = <<text[k]>>
  BY <1>3
<1> QED
  BY <1>4 DEF x

\* Whether the connection is to be closed, by the value of the field.
Closes(r, field) ==
  IF field = <<"close">> THEN TRUE
  ELSE IF field = <<"keep-alive">> THEN FALSE
  ELSE conn_close /\ r.version # "HTTP/1.1"

\* What parse_request makes of a text that starts with a request's line.
Taken(r, text) ==
  IF Malformed(r) THEN [good |-> FALSE]
  ELSE [good          |-> TRUE,
        method        |-> <<r.method>>,
        url           |-> r.url,
        close         |-> Closes(r, parse_field(text, "Connection:")) \/ ~options.want_keepalive,
        authorization |-> parse_field(text, "Authorization:"),
        range         |-> parse_field(text, "Range:")]

LEMMA UrlHasNul ==
  ASSUME NEW r \in Requests
  PROVE  Nul \in {Tail(r.url)[i] : i \in 1..(Len(r.url) - 1)}
           <=> \E k \in 2..Len(r.url) : r.url[k] = Nul
<1> DEFINE url == r.url
           u == Len(url)
<1>1. url \in Seq(Words \cup {Nul}) /\ url # <<>>
  BY RequestIs
<1> HIDE DEF url
<1>2. u \in Nat \ {0} /\ \A i \in 1..(u - 1) : Tail(url)[i] = url[i + 1]
  BY <1>1
<1> HIDE DEF u
<1>3. ASSUME NEW i \in 1..(u - 1), Tail(url)[i] = Nul
      PROVE  \E k \in 2..u : url[k] = Nul
  <2>1. u \in Nat \ {0} /\ url[i + 1] = Nul
    BY <1>2, <1>3
  <2>2. i + 1 \in 2..u
    BY <2>1
  <2> QED
    BY <2>1, <2>2
<1>4. ASSUME NEW k \in 2..u, url[k] = Nul
      PROVE  Nul \in {Tail(url)[i] : i \in 1..(u - 1)}
  <2>1. k - 1 \in 1..(u - 1) /\ (k - 1) + 1 = k
    BY <1>2
  <2>2. Tail(url)[k - 1] = Nul
    BY <1>2, <1>4, <2>1
  <2> QED
    BY <2>1, <2>2
<1>5. Nul \in {Tail(url)[i] : i \in 1..(u - 1)} <=> \E k \in 2..u : url[k] = Nul
  BY <1>3, <1>4
<1> QED
  BY <1>5 DEF url, u

LEMMA LineParsed ==
  ASSUME NEW r \in Requests, NEW more \in Seq(Tokens), more # <<>>, more[1] \in {CR, LF}
  PROVE  parse_request(Line(r) \o more) = Taken(r, Line(r) \o more)
<1> DEFINE text == Line(r) \o more
           url == r.url
           u == Len(url)
           n == Len(text)
<1>1. /\ text \in Seq(Tokens) /\ u \in Nat \ {0} /\ n \in Nat
      /\ text[1] = r.method /\ text[2] = SP
      /\ \A i \in 1..u : text[2 + i] = url[i]
      /\ r.version = None => n >= 3 + u /\ text[3 + u] = more[1]
      /\ r.version # None =>
           /\ n >= 5 + u
           /\ text[3 + u] = SP /\ text[4 + u] = r.version /\ text[5 + u] = more[1]
  BY LineAt
<1> HIDE DEF text
<1>2. /\ url \in Seq(Words \cup {Nul}) /\ url[1] \in Words
      /\ \A i \in 1..u : url[i] \in Words \cup {Nul}
  BY RequestIs
<1> HIDE DEF url, u, n
<1> DEFINE blank  == Find(text, 1, {SP})
           begin  == PastBlanks(text, blank)
           end    == Find(text, begin + 1, WordEnds)
           ver    == PastBlanks(text, end)
           verEnd == Find(text, ver + 1, WordEnds)
           proto  == IF TokenAt(text, end) = SP THEN SubSeq(text, ver, verEnd - 1) ELSE None
           field  == parse_field(text, "Connection:")
           good   == /\ begin <= n
                     /\ \A k \in (begin + 1)..(end - 1) : text[k] # Nul
                     /\ proto # None =>
                          /\ TokenAt(text, verEnd) \in {CR, LF}
                          /\ proto \in {<<"HTTP/1.0">>, <<"HTTP/1.1">>}
           close  == IF field = <<"close">> THEN TRUE
                     ELSE IF field = <<"keep-alive">> THEN FALSE
                     ELSE conn_close /\ proto # <<"HTTP/1.1">>
<1>3. parse_request(text) =
        IF ~good THEN [good |-> FALSE]
        ELSE [good          |-> TRUE,
              method        |-> SubSeq(text, 1, blank - 1),
              url           |-> SubSeq(text, begin, end - 1),
              close         |-> close \/ ~options.want_keepalive,
              authorization |-> parse_field(text, "Authorization:"),
              range         |-> parse_field(text, "Range:")]
  BY DEF parse_request, n
<1>4. n >= 3 + u /\ text[3 + u] \in {SP, CR, LF} /\ Len(text) = n
  BY <1>1 DEF n
<1>5. blank = 2
  <2>1. 2 \in 1..(Len(text) + 1) /\ 1..(2 - 1) = {1}
    BY <1>1, <1>4
  <2>2. text[2] \in {SP} /\ text[1] \notin {SP}
    BY <1>1, RequestIs, TokensAre
  <2> DEFINE tokens == {SP}
  <2>3. text[2] \in tokens /\ \A k \in 1..(2 - 1) : text[k] \notin tokens
    BY <2>1, <2>2
  <2> HIDE DEF tokens
  <2>4. Find(text, 1, tokens) = 2
    BY <1>1, <2>1, <2>3, FindIs
  <2> QED
    BY <2>4 DEF tokens
<1>6. begin = 3
  <2>1. 3 \in 2..(Len(text) + 1) /\ 2..(3 - 1) = {2}
    BY <1>1, <1>4
  <2>2. text[3] = url[1]
    <3>1. 1 \in 1..u /\ 2 + 1 = 3
      BY <1>1
    <3> QED
      BY <1>1, <3>1
  <2> DEFINE tokens == Tokens \ {SP}
  <2>3. text[3] \in tokens /\ \A k \in 2..(3 - 1) : text[k] \notin tokens
    BY <1>1, <1>2, <2>1, <2>2, TokensAre
  <2> HIDE DEF tokens
  <2>4. Find(text, 2, tokens) = 3
    BY <1>1, <2>1, <2>3, FindIs
  <2> QED
    BY <1>5, <2>4 DEF PastBlanks, tokens
<1>7. ASSUME NEW k \in 4..(2 + u)
      PROVE  k - 2 \in 2..u /\ k - 2 \in 1..u /\ text[k] = url[k - 2]
  <2>1. k - 2 \in 2..u /\ k - 2 \in 1..u /\ 2 + (k - 2) = k
    BY <1>1
  <2> QED
    BY <1>1, <2>1
<1>8. end = 3 + u
  <2>1. 3 + u \in 4..(Len(text) + 1) /\ (3 + u) - 1 = 2 + u
    BY <1>1, <1>4
  <2>2. \A k \in 4..((3 + u) - 1) : text[k] \notin WordEnds
    <3> SUFFICES ASSUME NEW k \in 4..(2 + u) PROVE text[k] \notin WordEnds
      BY <2>1
    <3>1. text[k] \in Words \cup {Nul}
      BY <1>2, <1>7
    <3> QED
      BY <3>1, TokensAre DEF WordEnds
  <2>3. text[3 + u] \in WordEnds
    BY <1>4 DEF WordEnds
  <2>4. Find(text, 4, WordEnds) = 3 + u
    BY <1>1, <2>1, <2>2, <2>3, FindIs
  <2>5. begin + 1 = 4
    BY <1>6
  <2> HIDE DEF begin
  <2> QED
    BY <2>4, <2>5
<1>9. TokenAt(text, end) = text[3 + u]
  BY <1>1, <1>4, <1>8 DEF TokenAt
<1>10. /\ proto = IF r.version = None THEN None ELSE <<r.version>>
       /\ r.version # None => TokenAt(text, verEnd) \in {CR, LF}
  <2>1. CASE r.version = None
    <3>1. TokenAt(text, end) # SP
      BY <1>1, <1>9, <2>1, TokensAre
    <3> QED
      BY <2>1, <3>1
  <2>2. CASE r.version # None
    <3>1. TokenAt(text, end) = SP
      BY <1>1, <1>9, <2>2
    <3>2. ver = 4 + u
      <4>1. 4 + u \in (3 + u)..(Len(text) + 1) /\ (3 + u)..((4 + u) - 1) = {3 + u} /\ 3 + u \in Nat
        BY <1>1, <1>4, <2>2
      <4> DEFINE tokens == Tokens \ {SP}
      <4>2. text[4 + u] \in tokens /\ \A k \in (3 + u)..((4 + u) - 1) : text[k] \notin tokens
        BY <1>1, <2>2, <4>1, RequestIs, TokensAre
      <4> HIDE DEF tokens
      <4>3. Find(text, 3 + u, tokens) = 4 + u
        BY <1>1, <4>1, <4>2, FindIs
      <4> QED
        BY <1>8, <4>3 DEF PastBlanks, tokens
    <3>3. verEnd = 5 + u
      <4>1. /\ 5 + u \in (5 + u)..(Len(text) + 1) /\ (5 + u)..((5 + u) - 1) = {} /\ 5 + u \in Nat
            /\ (4 + u) + 1 = 5 + u
        BY <1>1, <1>4, <2>2
      <4>2. text[5 + u] \in WordEnds
        BY <1>1, <2>2 DEF WordEnds
      <4>3. Find(text, 5 + u, WordEnds) = 5 + u
        BY <1>1, <4>1, <4>2, FindIs
      <4> QED
        BY <3>2, <4>1, <4>3
    <3>4. SubSeq(text, 4 + u, 4 + u) = <<r.version>>
      <4>1. 4 + u \in 1..Len(text)
        BY <1>1, <1>4, <2>2
      <4>2. SubSeq(text, 4 + u, 4 + u) = <<text[4 + u]>>
        BY <1>1, <4>1, SubSeqOne
      <4> QED
        BY <1>1, <2>2, <4>2
    <3>5. verEnd - 1 = 4 + u /\ text[verEnd] = more[1] /\ verEnd <= Len(text)
      BY <1>1, <1>4, <2>2, <3>3
    <3>6. TokenAt(text, verEnd) = text[verEnd]
      <4> HIDE DEF verEnd
      <4> QED
        BY <3>5 DEF TokenAt
    <3> HIDE DEF ver, verEnd, end
    <3> QED
      BY <2>2, <3>1, <3>2, <3>4, <3>5, <3>6
  <2> QED
    BY <2>1, <2>2
<1>11. SubSeq(text, 1, blank - 1) = <<r.method>>
  <2>1. 1 \in 1..Len(text) /\ 2 - 1 = 1
    BY <1>1, <1>4
  <2>2. SubSeq(text, 1, 1) = <<text[1]>>
    BY <1>1, <2>1, SubSeqOne
  <2> HIDE DEF blank
  <2> QED
    BY <1>1, <1>5, <2>1, <2>2
<1>12. SubSeq(text, begin, end - 1) = url
  <2> DEFINE x == SubSeq(text, 3, 2 + u)
  <2>1. 3 \in 1..(Len(text) + 1) /\ 2 + u \in 2..Len(text)
    BY <1>1, <1>4
  <2>2. /\ x \in Seq(Tokens) /\ Len(x) = u
        /\ \A i \in 1..u : x[i] = text[2 + i]
    <3>1. (2 + u) - 3 + 1 = u /\ u \in Nat /\ \A i \in 1..u : 3 + i - 1 = 2 + i
      BY <1>1
    <3>2. x \in Seq(Tokens) /\ Len(x) = (2 + u) - 3 + 1
      BY <1>1, <2>1
    <3>3. \A i \in 1..Len(x) : x[i] = text[3 + i - 1]
      BY <1>1, <2>1
    <3> HIDE DEF x
    <3> QED
      BY <3>1, <3>2, <3>3
  <2> HIDE DEF x
  <2>3. x = url
    <3>1. Len(url) = u /\ \A i \in 1..u : x[i] = url[i]
      BY <1>1, <2>2 DEF u
    <3> QED
      BY <1>2, <2>2, <3>1
  <2>4. end - 1 = 2 + u
    BY <1>1, <1>8
  <2> HIDE DEF begin, end
  <2> QED
    BY <1>6, <2>3, <2>4 DEF x
<1> DEFINE words == {"HTTP/1.0", "HTTP/1.1"}
<1>13. /\ words \subseteq Words
       /\ \A w \in Words : <<w>> # None
       /\ \A w : <<w>> \in {<<"HTTP/1.0">>, <<"HTTP/1.1">>} <=> w \in words
  <2>1. words \subseteq Words
    BY RequestTextAssumption
  <2>2. ASSUME NEW w \in Words PROVE <<w>> # None
    <3>1. <<w>> \in Seq(Tokens)
      BY TokensAre
    <3> QED
      BY <3>1, TokensAre
  <2> QED
    BY <2>1, <2>2
<1>14. r.version \in Words \cup {None} /\ None \notin Words
  BY RequestIs, TokensAre
<1>15. proto # <<"HTTP/1.1">> <=> r.version # "HTTP/1.1"
  <2>1. CASE r.version = None
    <3>1. "HTTP/1.1" \in Words
      BY <1>13
    <3>2. <<"HTTP/1.1">> # None /\ r.version # "HTTP/1.1"
      BY <1>13, <1>14, <2>1, <3>1
    <3> HIDE DEF proto
    <3> QED
      BY <1>10, <2>1, <3>2
  <2>2. CASE r.version # None
    <3>1. \A w : <<w>> = <<"HTTP/1.1">> <=> w = "HTTP/1.1"
      OBVIOUS
    <3>2. proto = <<r.version>>
      BY <1>10, <2>2
    <3> HIDE DEF proto
    <3> QED
      BY <3>1, <3>2
  <2> QED
    BY <2>1, <2>2
<1>16. Malformed(r) <=> (\E k \in 2..u : url[k] = Nul) \/ r.version \notin words \cup {None}
  BY UrlHasNul DEF Malformed, u, url
<1>17. (\A k \in 4..(2 + u) : text[k] # Nul) <=> ~ \E k \in 2..u : url[k] = Nul
  <2>1. ASSUME NEW k \in 2..u, url[k] = Nul PROVE \E l \in 4..(2 + u) : text[l] = Nul
    <3>1. 2 + k \in 4..(2 + u) /\ k \in 1..u
      BY <1>1
    <3>2. text[2 + k] = Nul
      BY <1>1, <2>1, <3>1
    <3> QED
      BY <3>1, <3>2
  <2>2. ASSUME NEW l \in 4..(2 + u), text[l] = Nul PROVE \E k \in 2..u : url[k] = Nul
    BY <1>7, <2>2
  <2> QED
    BY <2>1, <2>2
<1>18. good <=> ~Malformed(r)
  <2>1. begin <= n /\ begin + 1 = 4 /\ end - 1 = 2 + u
    BY <1>1, <1>4, <1>6, <1>8
  <2>2. (proto # None => TokenAt(text, verEnd) \in {CR, LF} /\ proto \in {<<"HTTP/1.0">>, <<"HTTP/1.1">>})
          <=> r.version \in words \cup {None}
    <3>1. CASE r.version = None
      <4>1. proto = None
        BY <1>10, <3>1
      <4> HIDE DEF proto
      <4> QED
        BY <3>1, <4>1
    <3>2. CASE r.version # None
      <4>1. proto = <<r.version>> /\ proto # None /\ TokenAt(text, verEnd) \in {CR, LF}
        <5>1. proto = <<r.version>> /\ TokenAt(text, verEnd) \in {CR, LF}
          BY <1>10, <3>2
        <5>2. <<r.version>> # None
          BY <1>13, <1>14, <3>2
        <5> HIDE DEF proto, verEnd
        <5> QED
          BY <5>1, <5>2
      <4> HIDE DEF proto, verEnd
      <4> QED
        BY <1>13, <3>2, <4>1
    <3> QED
      BY <3>1, <3>2
  <2> HIDE DEF begin, end, proto, verEnd, words
  <2>3. (\A k \in (begin + 1)..(end - 1) : text[k] # Nul) <=> (\A k \in 4..(2 + u) : text[k] # Nul)
    BY <2>1
  <2> QED
    BY <1>16, <1>17, <2>1, <2>2, <2>3
<1>19. close = Closes(r, field)
  <2> HIDE DEF proto, field
  <2> QED
    BY <1>15 DEF Closes
<1> HIDE DEF blank, begin, end, ver, verEnd, proto, good, close, words
<1>20. CASE Malformed(r)
  BY <1>3, <1>18, <1>20 DEF Taken, text
<1>21. CASE ~Malformed(r)
  <2>1. parse_request(text) =
          [good          |-> TRUE,
           method        |-> <<r.method>>,
           url           |-> url,
           close         |-> Closes(r, field) \/ ~options.want_keepalive,
           authorization |-> parse_field(text, "Authorization:"),
           range         |-> parse_field(text, "Range:")]
    BY <1>3, <1>11, <1>12, <1>18, <1>19, <1>21
  <2> QED
    BY <1>21, <2>1 DEF Taken, text, url
<1> QED
  BY <1>20, <1>21

-----------------------------------------------------------------------------
(***************************************************************************)
(* parse_field finds the first line that starts with a name.               *)
(***************************************************************************)
NoField(text, name) == \A i \in 1..(Len(text) - 1) : ~FieldStarts(text, name, i)

\* The first is at i, and its value ends before e.
FieldFound(text, name, i, e) ==
  /\ i \in 1..(Len(text) - 1) /\ FieldStarts(text, name, i)
  /\ \A j \in 1..(i - 1) : ~FieldStarts(text, name, j)
  /\ e \in (i + 2)..Len(text) /\ text[e] \in {CR, LF}
  /\ \A k \in (i + 2)..(e - 1) : text[k] \notin {CR, LF}

LEMMA NoFieldIs ==
  ASSUME NEW text, NEW name, NoField(text, name)
  PROVE  parse_field(text, name) = None
<1>1. {i \in 1..(Len(text) - 1) : FieldStarts(text, name, i)} = {}
  BY DEF NoField
<1> QED
  BY <1>1 DEF parse_field

LEMMA FieldFoundIs ==
  ASSUME NEW text \in Seq(Tokens), NEW name, NEW i, NEW e, FieldFound(text, name, i, e)
  PROVE  /\ parse_field(text, name) = SubSeq(text, i + 2, e - 1)
         /\ parse_field(text, name) # None
<1> DEFINE places == {j \in 1..(Len(text) - 1) : FieldStarts(text, name, j)}
           first == CHOOSE j \in places : \A k \in places : j <= k
           ends == {CR, LF}
           n == Len(text)
<1>1. /\ n \in Nat
      /\ i \in 1..(n - 1) /\ FieldStarts(text, name, i)
      /\ \A j \in 1..(i - 1) : ~FieldStarts(text, name, j)
      /\ e \in (i + 2)..n /\ text[e] \in ends
      /\ \A k \in (i + 2)..(e - 1) : text[k] \notin ends
  BY DEF FieldFound
<1>2. i \in places /\ \A j \in places : i <= j
  <2>1. ASSUME NEW j \in places PROVE i <= j
    <3> SUFFICES ASSUME j < i PROVE FALSE
      BY <1>1
    <3>1. j \in 1..(i - 1)
      BY <1>1
    <3> QED
      BY <1>1, <3>1
  <2> QED
    BY <1>1, <2>1
<1>3. \A j \in places : j \in Nat
  BY <1>1
<1> HIDE DEF places
<1>4. first = i
  <2>1. first \in places /\ \A k \in places : first <= k
    BY <1>2
  <2> HIDE DEF first
  <2> QED
    BY <1>1, <1>2, <1>3, <2>1
<1>5. i + 2 \in Nat /\ e \in (i + 2)..(n + 1) /\ e - 1 \in Nat
  BY <1>1
<1>6. Find(text, i + 2, ends) = e
  <2> DEFINE l == i + 2
  <2>1. l \in Nat /\ e \in l..(Len(text) + 1) /\ \A k \in l..(e - 1) : text[k] \notin ends
    BY <1>1, <1>5
  <2> HIDE DEF l, ends, n
  <2>2. Find(text, l, ends) = e
    BY <1>1, <2>1, FindIs
  <2> QED
    BY <2>2 DEF l
<1>7. parse_field(text, name) =
        IF places = {} THEN None
        ELSE SubSeq(text, first + 2, Find(text, first + 2, ends) - 1)
  BY DEF parse_field, places
<1> HIDE DEF first, ends
<1>8. parse_field(text, name) = SubSeq(text, i + 2, e - 1)
  BY <1>2, <1>4, <1>6, <1>7
<1>9. SubSeq(text, i + 2, e - 1) \in Seq(Tokens)
  <2> DEFINE from == i + 2
             to == e - 1
  <2>1. from \in 1..(n + 1) /\ to \in (from - 1)..n
    BY <1>1
  <2> HIDE DEF from, to
  <2>2. SubSeq(text, from, to) \in Seq(Tokens)
    BY <2>1, <1>1
  <2> QED
    BY <2>2 DEF from, to
<1> QED
  BY <1>8, <1>9, TokensAre

\* Lines: nothing, or an LF at the end.
Lines(p) == p \in Seq(Tokens) /\ (p = <<>> \/ p[Len(p)] = LF)
HasNul(text) == \E k \in 1..Len(text) : text[k] = Nul

LEMMA FieldKept ==
  ASSUME NEW p \in Seq(Tokens), NEW q \in Seq(Tokens), NEW name, NEW i, NEW e,
         FieldFound(p, name, i, e)
  PROVE  /\ FieldFound(p \o q, name, i, e)
         /\ parse_field(p \o q, name) = parse_field(p, name)
<1> DEFINE text == p \o q
           m == Len(p)
<1>1. /\ text \in Seq(Tokens) /\ Len(text) = m + Len(q) /\ m \in Nat /\ Len(q) \in Nat
      /\ \A k \in 1..m : text[k] = p[k]
  BY ConcatIs
<1> HIDE DEF text
<1>2. /\ i \in 1..(m - 1) /\ FieldStarts(p, name, i)
      /\ \A j \in 1..(i - 1) : ~FieldStarts(p, name, j)
      /\ e \in (i + 2)..m /\ p[e] \in {CR, LF}
      /\ \A k \in (i + 2)..(e - 1) : p[k] \notin {CR, LF}
  BY DEF FieldFound
<1> HIDE DEF m
<1>3. ASSUME NEW j \in 1..(m - 1) PROVE FieldStarts(text, name, j) <=> FieldStarts(p, name, j)
  <2>1. j \in 1..m /\ j + 1 \in 1..m /\ (j > 1 => j - 1 \in 1..m) /\ \A k \in 1..j : k \in 1..m
    BY <1>1
  <2> QED
    BY <1>1, <2>1 DEF FieldStarts
<1>4. /\ i \in 1..(Len(text) - 1) /\ e \in (i + 2)..Len(text) /\ e \in 1..m
      /\ \A j \in 1..(i - 1) : j \in 1..(m - 1)
      /\ \A k \in (i + 2)..(e - 1) : k \in 1..m
  BY <1>1, <1>2
<1>5. FieldFound(text, name, i, e)
  BY <1>1, <1>2, <1>3, <1>4 DEF FieldFound
<1>6. SubSeq(text, i + 2, e - 1) = SubSeq(p, i + 2, e - 1)
  <2> DEFINE from == i + 2
             to == e - 1
             x == SubSeq(text, from, to)
             y == SubSeq(p, from, to)
             l == to - from + 1
  <2>1. /\ from \in 1..(m + 1) /\ to \in (from - 1)..m /\ m = Len(p) /\ to <= Len(text)
        /\ from \in Nat /\ to \in Nat /\ l \in Nat
    <3> DEFINE n == Len(text)
               o == Len(q)
    <3>1. n = m + o /\ m \in Nat /\ o \in Nat /\ i \in 1..(m - 1) /\ e \in (i + 2)..m
      BY <1>1, <1>2
    <3> HIDE DEF n, o
    <3>2. from \in 1..(m + 1) /\ to \in (from - 1)..m /\ to <= n /\ from \in Nat /\ to \in Nat
      BY <3>1
    <3>3. l \in Nat
      BY <3>2
    <3> QED
      BY <3>2, <3>3 DEF m, n
  <2> HIDE DEF from, to
  <2>2. x \in Seq(Tokens) /\ Len(x) = l /\ \A k \in 1..l : x[k] = text[from + k - 1]
    BY <1>1, <2>1
  <2>3. y \in Seq(Tokens) /\ Len(y) = l /\ \A k \in 1..l : y[k] = p[from + k - 1]
    BY <1>1, <2>1
  <2>4. \A k \in 1..l : from + k - 1 \in 1..m
    BY <1>1, <2>1
  <2> HIDE DEF x, y, l
  <2>5. \A k \in 1..l : x[k] = y[k]
    BY <1>1, <2>2, <2>3, <2>4
  <2>6. x = y
    BY <2>2, <2>3, <2>5
  <2> QED
    BY <2>6 DEF x, y, from, to
<1>7. /\ parse_field(text, name) = SubSeq(text, i + 2, e - 1)
      /\ parse_field(p, name) = SubSeq(p, i + 2, e - 1)
  BY <1>1, <1>5, FieldFoundIs
<1> QED
  BY <1>5, <1>6, <1>7 DEF text

\* A line behind other lines.
LEMMA LineParts ==
  ASSUME NEW p, Lines(p), NEW body \in Seq(Words \cup {SP, Nul}), NEW end \in LineEnds
  PROVE  LET text == p \o (body \o end)
             m == Len(p)
             b == Len(body)
         IN  /\ text \in Seq(Tokens) /\ Len(text) = m + b + Len(end)
             /\ m \in Nat /\ b \in Nat /\ Len(end) \in 1..2
             /\ \A i \in 1..m : text[i] = p[i]
             /\ \A i \in 1..b : text[m + i] = body[i] /\ body[i] \in Words \cup {SP, Nul}
             /\ text[m + b + 1] \in {CR, LF} /\ text[Len(text)] = LF
             /\ Lines(text) /\ text # <<>>
<1> DEFINE line == body \o end
           text == p \o line
           m == Len(p)
           b == Len(body)
           e == Len(end)
<1>1. /\ p \in Seq(Tokens) /\ body \in Seq(Tokens) /\ end \in Seq(Tokens)
      /\ m \in Nat /\ b \in Nat /\ e \in 1..2 /\ end[1] \in {CR, LF} /\ end[e] = LF
      /\ \A i \in 1..b : body[i] \in Words \cup {SP, Nul}
  <2>1. Words \cup {SP, Nul} \subseteq Tokens
    BY DEF Tokens
  <2>2. body \in Seq(Tokens) /\ b \in Nat /\ \A i \in 1..b : body[i] \in Words \cup {SP, Nul}
    BY <2>1
  <2>3. p \in Seq(Tokens) /\ m \in Nat
    BY DEF Lines
  <2> HIDE DEF b, m
  <2> QED
    BY <2>2, <2>3, EndIs
<1>2. /\ line \in Seq(Tokens) /\ Len(line) = b + e
      /\ \A i \in 1..b : line[i] = body[i]
      /\ \A i \in 1..e : line[b + i] = end[i]
  <2>1. body \in Seq(Tokens) /\ end \in Seq(Tokens)
    BY <1>1
  <2> QED
    BY <2>1, ConcatIs
<1> HIDE DEF line
<1>3. /\ text \in Seq(Tokens) /\ Len(text) = m + Len(line)
      /\ \A i \in 1..m : text[i] = p[i]
      /\ \A i \in 1..Len(line) : text[m + i] = line[i]
  <2>1. p \in Seq(Tokens) /\ line \in Seq(Tokens)
    BY <1>1, <1>2
  <2> QED
    BY <2>1, ConcatIs
<1> HIDE DEF text, m, b, e
<1>4. Len(text) = m + b + e
  BY <1>1, <1>2, <1>3
<1>5. ASSUME NEW i \in 1..b PROVE text[m + i] = body[i] /\ body[i] \in Words \cup {SP, Nul}
  <2>1. i \in 1..Len(line)
    BY <1>1, <1>2
  <2> QED
    BY <1>1, <1>2, <1>3, <2>1
<1>6. ASSUME NEW i \in 1..e PROVE text[m + b + i] = end[i]
  <2>1. b + i \in 1..Len(line) /\ m + (b + i) = m + b + i
    BY <1>1, <1>2
  <2> QED
    BY <1>2, <1>3, <2>1
<1>7. text[m + b + 1] \in {CR, LF} /\ text[Len(text)] = LF
  <2>1. 1 \in 1..e /\ e \in 1..e
    BY <1>1
  <2> QED
    BY <1>1, <1>4, <1>6, <2>1
<1>8. Lines(text)
  BY <1>3, <1>7 DEF Lines
<1>9. text # <<>>
  <2>1. Len(text) # 0
    BY <1>1, <1>4
  <2> QED
    BY <2>1
<1> QED
  BY <1>1, <1>3, <1>4, <1>5, <1>7, <1>8, <1>9 DEF text, line, m, b, e

\* A line that does not start with the name, or that is behind a NUL, leaves
\* the field unfound.
LEMMA LineWithoutField ==
  ASSUME NEW p, Lines(p), NEW body \in Seq(Words \cup {SP, Nul}), NEW end \in LineEnds,
         NEW name \in Words
  PROVE  NoField(p, name) /\ (HasNul(p) \/ body = <<>> \/ body[1] # name) =>
           NoField(p \o (body \o end), name)
<1> DEFINE text == p \o (body \o end)
           m == Len(p)
           b == Len(body)
           e == Len(end)
<1>1. /\ text \in Seq(Tokens) /\ Len(text) = m + b + e
      /\ m \in Nat /\ b \in Nat /\ e \in 1..2
      /\ \A i \in 1..m : text[i] = p[i]
      /\ \A i \in 1..b : text[m + i] = body[i] /\ body[i] \in Words \cup {SP, Nul}
      /\ text[m + b + 1] \in {CR, LF}
  BY LineParts
<1>2. body = <<>> <=> b = 0
  OBVIOUS
<1>3. p = <<>> \/ p[m] = LF
  BY DEF Lines
<1>4. p = <<>> <=> m = 0
  BY DEF Lines
<1> HIDE DEF text
<1> SUFFICES ASSUME NoField(p, name), HasNul(p) \/ body = <<>> \/ body[1] # name,
                    NEW i \in 1..(Len(text) - 1), FieldStarts(text, name, i)
             PROVE  FALSE
  BY DEF NoField, text
<1>5. /\ i > 1 /\ text[i - 1] = LF /\ text[i] = name /\ text[i + 1] = SP
      /\ \A k \in 1..i : text[k] # Nul
  BY DEF FieldStarts
<1>6. NoField(p, name) /\ (HasNul(p) => \E k \in 1..m : p[k] = Nul)
  BY DEF HasNul
<1> HIDE DEF m, b, e
<1>7. i \in Nat /\ i <= m + b + e - 1
  BY <1>1
<1>8. CASE i < m
  <2>1. i \in 1..(m - 1) /\ i - 1 \in 1..m /\ i \in 1..m /\ i + 1 \in 1..m /\ \A k \in 1..i : k \in 1..m
    BY <1>1, <1>5, <1>7, <1>8
  <2>2. FieldStarts(p, name, i)
    BY <1>1, <1>5, <2>1 DEF FieldStarts
  <2> QED
    BY <1>6, <2>1, <2>2 DEF NoField, m
<1>9. CASE i = m
  <2>1. m \in 1..m
    BY <1>1, <1>5, <1>9
  <2>2. p[m] = name
    BY <1>1, <1>5, <1>9, <2>1
  <2> QED
    BY <1>3, <1>4, <1>5, <1>9, <2>2, TokensAre
<1>10. CASE i = m + 1
  <2>1. CASE b = 0
    <3>1. m + b + 1 = i
      BY <1>1, <1>10, <2>1
    <3> QED
      BY <1>1, <1>5, <3>1, TokensAre
  <2>2. CASE b # 0
    <3>1. 1 \in 1..b
      BY <1>1, <2>2
    <3>2. body[1] = name
      BY <1>1, <1>5, <1>10, <3>1
    <3>3. PICK k \in 1..m : p[k] = Nul
      BY <1>2, <1>6, <2>2, <3>2
    <3>4. k \in 1..i /\ text[k] = Nul
      BY <1>1, <1>10, <3>3
    <3> QED
      BY <1>5, <3>4
  <2> QED
    BY <2>1, <2>2
<1>11. CASE i > m + 1
  <2> DEFINE j == i - 1 - m
  <2>1. j \in Nat /\ j >= 1 /\ m + j = i - 1 /\ j <= b + e - 2
    BY <1>1, <1>7, <1>11
  <2>2. j \in 1..b
    BY <1>1, <2>1
  <2> HIDE DEF j
  <2>3. text[m + j] = body[j] /\ body[j] \in Words \cup {SP, Nul}
    BY <1>1, <2>2
  <2> QED
    BY <1>5, <2>1, <2>3, TokensAre
<1> QED
  BY <1>1, <1>7, <1>8, <1>9, <1>10, <1>11

LEMMA LineWithField ==
  ASSUME NEW p, Lines(p), p # <<>>, ~HasNul(p), NEW f \in FieldType, NoField(p, f.name),
         NEW end \in LineEnds
  PROVE  LET text == p \o ((<<f.name, SP>> \o f.value) \o end)
         IN  /\ \E i, e : FieldFound(text, f.name, i, e)
             /\ parse_field(text, f.name) = f.value
<1> DEFINE name == f.name
           v == f.value
           body == <<name, SP>> \o v
           text == p \o (body \o end)
           m == Len(p)
           b == Len(body)
           w == Len(v)
<1>1. /\ name \in Words /\ v \in Seq(Words \cup {SP}) /\ w \in Nat
      /\ body \in Seq(Words \cup {SP, Nul})
      /\ b = 2 + w /\ body[1] = name /\ body[2] = SP
      /\ \A i \in 1..w : body[2 + i] = v[i] /\ v[i] \in Words \cup {SP}
  <2>1. name \in Words /\ v \in Seq(Words \cup {SP})
    BY FieldIs DEF Value
  <2>2. body \in Seq(Words \cup {SP, Nul}) /\ body[1] = name /\ body[2] = SP
    BY FieldIs
  <2>3. b = Len(<<name, SP>>) + w /\ \A i \in 1..w : body[Len(<<name, SP>>) + i] = v[i]
    <3> DEFINE S == Words \cup {SP}
               x == <<name, SP>>
    <3>1. x \in Seq(S) /\ v \in Seq(S)
      BY <2>1
    <3> HIDE DEF x, v, S
    <3> QED
      BY <3>1, ConcatIs
  <2>4. w \in Nat /\ \A i \in 1..w : v[i] \in Words \cup {SP}
    <3> HIDE DEF v
    <3> QED
      BY <2>1
  <2> HIDE DEF body, v
  <2> QED
    BY <2>1, <2>2, <2>3, <2>4
<1> HIDE DEF name, v, body
<1>2. /\ text \in Seq(Tokens) /\ Len(text) = m + b + Len(end)
      /\ m \in Nat /\ Len(end) \in 1..2
      /\ \A i \in 1..m : text[i] = p[i]
      /\ \A i \in 1..b : text[m + i] = body[i] /\ body[i] \in Words \cup {SP, Nul}
      /\ text[m + b + 1] \in {CR, LF}
  BY <1>1, LineParts
<1>3. m >= 1 /\ p[m] = LF /\ \A k \in 1..m : p[k] # Nul
  <2>1. m # 0
    BY DEF Lines
  <2> QED
    BY <1>2, <2>1 DEF Lines, HasNul
<1>4. NoField(p, name)
  BY DEF name
<1> HIDE DEF text, m, b, w
<1> DEFINE i == m + 1
           e == m + b + 1
<1>5. text[m] = LF /\ text[i] = name /\ text[i + 1] = SP
  <2>1. m \in 1..m /\ 1 \in 1..b /\ 2 \in 1..b /\ (m + 1) + 1 = m + 2
    BY <1>1, <1>2, <1>3
  <2> QED
    BY <1>1, <1>2, <1>3, <2>1
<1>6. ASSUME NEW k \in 1..i PROVE text[k] # Nul
  <2>1. CASE k = i
    BY <1>1, <1>5, <2>1, TokensAre
  <2>2. CASE k # i
    <3>1. k \in 1..m
      BY <1>2, <2>2
    <3> QED
      BY <1>2, <1>3, <3>1
  <2> QED
    BY <2>1, <2>2
<1>7. FieldStarts(text, name, i)
  <2>1. i > 1 /\ i - 1 = m
    BY <1>2, <1>3
  <2> QED
    BY <1>5, <1>6, <2>1 DEF FieldStarts
<1>8. ASSUME NEW j \in 1..(i - 1), FieldStarts(text, name, j) PROVE FALSE
  <2>1. /\ j > 1 /\ text[j - 1] = LF /\ text[j] = name /\ text[j + 1] = SP
        /\ \A k \in 1..j : text[k] # Nul
    BY <1>8 DEF FieldStarts
  <2>2. CASE j = m
    BY <1>1, <1>5, <2>1, <2>2, TokensAre
  <2>3. CASE j # m
    <3>1. j \in 1..(m - 1) /\ j - 1 \in 1..m /\ j \in 1..m /\ j + 1 \in 1..m /\ \A k \in 1..j : k \in 1..m
      BY <1>2, <2>1, <2>3
    <3>2. FieldStarts(p, name, j)
      BY <1>2, <2>1, <3>1 DEF FieldStarts
    <3> QED
      BY <1>4, <3>1, <3>2 DEF NoField, m
  <2> QED
    BY <2>2, <2>3
<1>9. \A k \in 1..w : text[(i + 2) + k - 1] = v[k]
  <2> TAKE k \in 1..w
  <2>1. 2 + k \in 1..b /\ m + (2 + k) = (i + 2) + k - 1
    BY <1>1, <1>2
  <2>2. text[m + (2 + k)] = body[2 + k]
    BY <1>2, <2>1
  <2>3. body[2 + k] = v[k]
    BY <1>1
  <2> HIDE DEF i
  <2> QED
    BY <2>1, <2>2, <2>3
<1>10. \A k \in (i + 2)..(e - 1) : text[k] \notin {CR, LF}
  <2> TAKE k \in (i + 2)..(e - 1)
  <2> DEFINE l == k - (i + 1)
  <2>1. l \in 1..w /\ (i + 2) + l - 1 = k
    BY <1>1, <1>2
  <2> HIDE DEF l, i
  <2>2. text[k] = v[l] /\ v[l] \in Words \cup {SP}
    BY <1>1, <1>9, <2>1
  <2> QED
    BY <2>2, TokensAre
<1>11. /\ i \in 1..(Len(text) - 1) /\ e \in (i + 2)..Len(text) /\ text[e] \in {CR, LF}
  <2>1. i \in 1..(Len(text) - 1) /\ e \in (i + 2)..Len(text)
    <3> DEFINE n == Len(text)
               le == Len(end)
    <3>1. n = m + b + le /\ m \in Nat /\ le \in 1..2 /\ b = 2 + w /\ w \in Nat
      BY <1>1, <1>2
    <3> HIDE DEF n, le
    <3>2. i \in 1..(n - 1) /\ e \in (i + 2)..n
      BY <3>1
    <3> QED
      BY <3>2 DEF n
  <2> QED
    BY <1>2, <2>1
<1> HIDE DEF i, e
<1>12. FieldFound(text, name, i, e)
  BY <1>7, <1>8, <1>10, <1>11 DEF FieldFound
<1>13. parse_field(text, name) = SubSeq(text, i + 2, e - 1)
  BY <1>2, <1>12, FieldFoundIs
<1>14. SubSeq(text, i + 2, e - 1) = v
  <2> DEFINE from == i + 2
             to == e - 1
             x == SubSeq(text, from, to)
  <2>1. /\ from \in 1..Len(text) /\ to \in (from - 1)..Len(text) /\ to - from + 1 = w
        /\ from \in Nat /\ to \in Nat /\ w \in Nat
    BY <1>1, <1>2, <1>11 DEF i, e
  <2> HIDE DEF from, to
  <2>2. x \in Seq(Tokens) /\ Len(x) = w /\ \A k \in 1..w : x[k] = text[from + k - 1]
    BY <1>2, <2>1
  <2> HIDE DEF x
  <2>3. \A k \in 1..w : x[k] = v[k]
    BY <1>9, <2>2 DEF from
  <2>4. v \in Seq(Words \cup {SP}) /\ Len(v) = w
    BY <1>1 DEF w
  <2>5. x = v
    BY <2>2, <2>3, <2>4
  <2> QED
    BY <2>5 DEF x, from, to
<1> QED
  BY <1>12, <1>13, <1>14 DEF text, body, name, v

LEMMA LineNul ==
  ASSUME NEW r \in Requests, HasNul(Line(r))
  PROVE  Malformed(r)
<1> DEFINE more == <<LF>>
           text == Line(r) \o more
           u == Len(r.url)
<1>1. more \in Seq(Tokens) /\ more # <<>> /\ more[1] = LF /\ LF \in Tokens
  BY DEF Tokens
<1> HIDE DEF more
<1>2. /\ text \in Seq(Tokens) /\ Line(r) \in Seq(Tokens) /\ u \in Nat \ {0}
      /\ text[1] = r.method /\ text[2] = SP
      /\ \A i \in 1..u : text[2 + i] = r.url[i]
      /\ r.version = None => Len(Line(r)) = 2 + u
      /\ r.version # None =>
           Len(Line(r)) = 4 + u /\ text[3 + u] = SP /\ text[4 + u] = r.version
  BY <1>1, LineAt
<1>3. PICK k \in 1..Len(Line(r)) : Line(r)[k] = Nul
  BY DEF HasNul
<1>4. text[k] = Nul
  <2>1. Line(r) \in Seq(Tokens) /\ more \in Seq(Tokens)
    BY <1>1, <1>2
  <2>2. \A i \in 1..Len(Line(r)) : text[i] = Line(r)[i]
    BY <2>1, ConcatIs
  <2> HIDE DEF text
  <2> QED
    BY <1>3, <2>2
<1> HIDE DEF text
<1>5. /\ r.method # Nul /\ r.version \in Words \cup {None}
      /\ (r.version # None => r.version # Nul) /\ r.url[1] # Nul /\ SP # Nul
  BY RequestIs, TokensAre
<1>6. k \in 3..(2 + u)
  <2>1. k \in Nat /\ k >= 1 /\ k # 1 /\ k # 2
    BY <1>2, <1>4, <1>5
  <2>2. CASE r.version = None
    BY <1>2, <2>1, <2>2
  <2>3. CASE r.version # None
    <3>1. k # 3 + u /\ k # 4 + u
      BY <1>2, <1>4, <1>5, <2>3
    <3>2. k \in 1..(4 + u) /\ u \in Nat
      BY <1>2, <2>3
    <3> HIDE DEF u
    <3> QED
      BY <2>1, <3>1, <3>2
  <2> QED
    BY <2>2, <2>3
<1> DEFINE j == k - 2
<1>7. j \in 1..u /\ 2 + j = k
  BY <1>2, <1>6
<1> HIDE DEF j
<1>8. r.url[j] = Nul
  BY <1>2, <1>4, <1>7
<1>9. j \in 2..u
  BY <1>2, <1>5, <1>7, <1>8
<1> QED
  BY <1>8, <1>9, UrlHasNul DEF Malformed

FirstOf(fs, name) ==
  LET its == {i \in DOMAIN fs : fs[i].name = name}
  IN  IF its = {} THEN None ELSE fs[Min(its)].value

LEMMA FirstIs ==
  ASSUME NEW fs \in Seq(FieldType), NEW name
  PROVE  /\ (\A i \in 1..Len(fs) : fs[i].name # name) => FirstOf(fs, name) = None
         /\ \A i \in 1..Len(fs) :
              fs[i].name = name /\ (\A j \in 1..(i - 1) : fs[j].name # name) =>
                FirstOf(fs, name) = fs[i].value
<1> DEFINE its == {i \in 1..Len(fs) : fs[i].name = name}
<1>1. FirstOf(fs, name) = IF its = {} THEN None ELSE fs[Min(its)].value
  <2>1. DOMAIN fs = 1..Len(fs)
    OBVIOUS
  <2> QED
    BY <2>1 DEF FirstOf
<1>2. ASSUME NEW i \in 1..Len(fs), fs[i].name = name, \A j \in 1..(i - 1) : fs[j].name # name
      PROVE  FirstOf(fs, name) = fs[i].value
  <2>1. i \in its
    BY <1>2
  <2>2. ASSUME NEW j \in its PROVE i <= j /\ j \in Nat
    <3>1. j \in Nat /\ j >= 1 /\ i \in Nat /\ fs[j].name = name
      BY <1>2
    <3>2. j < i => j \in 1..(i - 1)
      BY <3>1
    <3> QED
      BY <1>2, <3>1, <3>2
  <2>3. Min(its) = i
    <3> DEFINE x == CHOOSE x \in its : \A y \in its : x <= y
    <3> HIDE DEF its
    <3>1. x \in its /\ \A y \in its : x <= y
      BY <2>1, <2>2
    <3>2. Min(its) = x
      BY DEF Min
    <3> HIDE DEF x
    <3> QED
      BY <2>1, <2>2, <3>1, <3>2
  <2> HIDE DEF its
  <2> QED
    BY <1>1, <2>1, <2>3
<1> QED
  BY <1>1, <1>2

\* A field behind others is the first of its name if there is none before.
LEMMA FirstAppend ==
  ASSUME NEW fs \in Seq(FieldType), NEW f \in FieldType, NEW name
  PROVE  /\ FirstOf(fs, name) \in Value \cup {None}
         /\ FirstOf(<<>>, name) = None
         /\ FirstOf(fs, name) # None => FirstOf(Append(fs, f), name) = FirstOf(fs, name)
         /\ FirstOf(fs, name) = None =>
              FirstOf(Append(fs, f), name) = IF f.name = name THEN f.value ELSE None
<1> DEFINE n == Len(fs)
           gs == Append(fs, f)
           its == {i \in 1..n : fs[i].name = name}
<1>1. /\ n \in Nat /\ gs \in Seq(FieldType) /\ Len(gs) = n + 1 /\ gs[n + 1] = f
      /\ \A i \in 1..n : gs[i] = fs[i]
  OBVIOUS
<1>2. \A i \in 1..n : fs[i] \in FieldType
  OBVIOUS
<1>3. \A g \in FieldType : g.value \in Value /\ g.value # None
  <2>1. ASSUME NEW g \in FieldType PROVE g.value \in Value /\ g.value \in Seq(Tokens)
    <3>1. g.value \in Seq(Words \cup {SP}) /\ Words \cup {SP} \subseteq Tokens
      BY FieldIs DEF Value, Tokens
    <3> QED
      BY <3>1 DEF Value
  <2> QED
    BY <2>1, TokensAre
<1>4. FirstOf(<<>>, name) = None
  <2>1. DOMAIN <<>> = {}
    OBVIOUS
  <2> QED
    BY <2>1 DEF FirstOf
<1> HIDE DEF gs, n
<1>5. /\ (\A i \in 1..n : fs[i].name # name) => FirstOf(fs, name) = None
      /\ \A i \in 1..n :
           fs[i].name = name /\ (\A j \in 1..(i - 1) : fs[j].name # name) =>
             FirstOf(fs, name) = fs[i].value
  BY FirstIs DEF n
<1>6. /\ (\A i \in 1..(n + 1) : gs[i].name # name) => FirstOf(gs, name) = None
      /\ \A i \in 1..(n + 1) :
           gs[i].name = name /\ (\A j \in 1..(i - 1) : gs[j].name # name) =>
             FirstOf(gs, name) = gs[i].value
  BY <1>1, FirstIs
<1>7. CASE its = {}
  <2>1. \A i \in 1..n : fs[i].name # name
    BY <1>7
  <2>2. FirstOf(fs, name) = None
    BY <1>5, <2>1
  <2>3. \A j \in 1..((n + 1) - 1) : gs[j].name # name
    <3>1. (n + 1) - 1 = n
      BY <1>1
    <3>2. \A j \in 1..n : gs[j] = fs[j]
      BY <1>1
    <3> QED
      BY <2>1, <3>1, <3>2
  <2>4. CASE f.name = name
    <3>1. n + 1 \in 1..(n + 1)
      BY <1>1
    <3>2. FirstOf(gs, name) = gs[n + 1].value
      BY <1>1, <1>6, <2>3, <2>4, <3>1
    <3> QED
      BY <1>1, <1>4, <2>2, <2>4, <3>2 DEF gs
  <2>5. CASE f.name # name
    <3>1. \A i \in 1..(n + 1) : gs[i].name # name
      <4> TAKE i \in 1..(n + 1)
      <4>1. i \in 1..n \/ i = n + 1
        BY <1>1
      <4> QED
        BY <1>1, <2>1, <2>5, <4>1
    <3>2. FirstOf(gs, name) = None
      BY <1>6, <3>1
    <3> QED
      BY <1>4, <2>2, <2>5, <3>2 DEF gs
  <2> QED
    BY <2>4, <2>5
<1>8. CASE its # {}
  <2>1. PICK i \in its : \A j \in its : i <= j
    <3>1. its \in SUBSET Nat
      BY <1>1
    <3> HIDE DEF its
    <3> QED
      BY <1>8, <3>1, LeastNat
  <2>2. i \in 1..n /\ fs[i].name = name /\ \A j \in 1..(i - 1) : fs[j].name # name
    <3>1. i \in 1..n /\ fs[i].name = name
      BY <2>1
    <3>2. ASSUME NEW j \in 1..(i - 1), fs[j].name = name PROVE FALSE
      <4>1. j \in its /\ j < i /\ j \in Nat /\ i \in Nat
        BY <1>1, <3>1, <3>2
      <4>2. i <= j
        BY <2>1, <4>1
      <4> QED
        BY <4>1, <4>2
    <3> QED
      BY <3>1, <3>2
  <2>3. FirstOf(fs, name) = fs[i].value
    BY <1>5, <2>2
  <2>4. FirstOf(gs, name) = gs[i].value
    <3>1. i \in 1..(n + 1) /\ gs[i].name = name /\ \A j \in 1..(i - 1) : gs[j].name # name
      <4>1. \A j \in 1..(i - 1) : j \in 1..n
        BY <1>1, <2>2
      <4> QED
        BY <1>1, <2>2, <4>1
    <3> QED
      BY <1>6, <3>1
  <2>5. gs[i] = fs[i] /\ fs[i].value \in Value /\ fs[i].value # None
    BY <1>1, <1>2, <1>3, <2>2
  <2> QED
    BY <1>4, <2>3, <2>4, <2>5 DEF gs
<1> QED
  BY <1>7, <1>8

-----------------------------------------------------------------------------
(***************************************************************************)
(* The fields of a request are those of its own lines.                     *)
(***************************************************************************)

\* What parse_field finds, and will find however the text goes on.
Outcome(text, name, value) ==
  \/ value = None /\ NoField(text, name)
  \/ /\ value # None /\ \E i, e : FieldFound(text, name, i, e)
     /\ parse_field(text, name) = value

LEMMA OutcomeIs ==
  ASSUME NEW text, NEW name, NEW value, Outcome(text, name, value)
  PROVE  parse_field(text, name) = value
BY NoFieldIs DEF Outcome

LEMMA NulInLine ==
  ASSUME NEW p, Lines(p), NEW body \in Seq(Words \cup {SP, Nul}), NEW end \in LineEnds
  PROVE  HasNul(p \o (body \o end)) <=> HasNul(p) \/ HasNul(body)
<1> DEFINE line == body \o end
           text == p \o line
<1>1. /\ p \in Seq(Tokens) /\ body \in Seq(Tokens) /\ end \in Seq(Tokens)
      /\ \A i \in 1..Len(end) : end[i] # Nul
  <2>1. Words \cup {SP, Nul} \subseteq Tokens
    BY DEF Tokens
  <2>2. body \in Seq(Tokens)
    BY <2>1
  <2>3. p \in Seq(Tokens)
    BY DEF Lines
  <2>4. \A i \in 1..Len(end) : end[i] # Nul
    BY EndIs, TokensAre
  <2> QED
    BY <2>2, <2>3, <2>4, EndIs
<1>2. ASSUME NEW x \in Seq(Tokens), NEW y \in Seq(Tokens)
      PROVE  HasNul(x \o y) <=> HasNul(x) \/ HasNul(y)
  <2> DEFINE z == x \o y
             m == Len(x)
             n == Len(y)
  <2>1. /\ Len(z) = m + n /\ m \in Nat /\ n \in Nat
        /\ \A i \in 1..m : z[i] = x[i]
        /\ \A i \in 1..n : z[m + i] = y[i]
    BY ConcatIs
  <2> HIDE DEF z, m, n
  <2>2. ASSUME NEW i \in 1..Len(z), z[i] = Nul
        PROVE  (\E j \in 1..m : x[j] = Nul) \/ (\E j \in 1..n : y[j] = Nul)
    <3>1. CASE i <= m
      <4>1. i \in 1..m
        BY <2>1, <3>1
      <4> QED
        BY <2>1, <2>2, <4>1
    <3>2. CASE i > m
      <4> DEFINE j == i - m
      <4>1. j \in 1..n /\ m + j = i
        BY <2>1, <3>2
      <4> HIDE DEF j
      <4> QED
        BY <2>1, <2>2, <4>1
    <3> QED
      BY <2>1, <3>1, <3>2
  <2>3. ASSUME NEW j \in 1..m, x[j] = Nul PROVE \E i \in 1..Len(z) : z[i] = Nul
    <3>1. j \in 1..Len(z)
      BY <2>1
    <3> QED
      BY <2>1, <2>3, <3>1
  <2>4. ASSUME NEW j \in 1..n, y[j] = Nul PROVE \E i \in 1..Len(z) : z[i] = Nul
    <3>1. m + j \in 1..Len(z)
      BY <2>1
    <3> QED
      BY <2>1, <2>4, <3>1
  <2>5. HasNul(z) <=> HasNul(x) \/ HasNul(y)
    BY <2>2, <2>3, <2>4 DEF HasNul, m, n
  <2> QED
    BY <2>5 DEF z
<1>3. line \in Seq(Tokens)
  <2>1. body \in Seq(Tokens) /\ end \in Seq(Tokens)
    BY <1>1
  <2> QED
    BY <2>1, ConcatIs
<1>4. ~HasNul(end)
  BY <1>1 DEF HasNul
<1>5. HasNul(line) <=> HasNul(body)
  BY <1>1, <1>2, <1>4
<1> HIDE DEF line
<1>6. HasNul(text) <=> HasNul(p) \/ HasNul(line)
  BY <1>1, <1>2, <1>3
<1> QED
  BY <1>5, <1>6 DEF line

LEMMA FieldHasNoNul ==
  ASSUME NEW f \in FieldType
  PROVE  ~HasNul(<<f.name, SP>> \o f.value)
<1> DEFINE x == <<f.name, SP>>
           y == f.value
           S == Words \cup {SP}
           z == x \o y
<1>1. x \in Seq(S) /\ y \in Seq(S)
  BY FieldIs DEF Value
<1>2. Nul \notin S
  BY TokensAre
<1> HIDE DEF x, y, S
<1>3. z \in Seq(S)
  BY <1>1, ConcatIs
<1> HIDE DEF z
<1>4. \A i \in 1..Len(z) : z[i] \in S
  BY <1>3
<1>5. ~HasNul(z)
  BY <1>2, <1>4 DEF HasNul
<1> QED
  BY <1>5 DEF z, x, y

LEMMA OutcomeKept ==
  ASSUME NEW p, Lines(p), NEW body \in Seq(Words \cup {SP, Nul}), NEW end \in LineEnds,
         NEW name \in Words, NEW value, Outcome(p, name, value)
  PROVE  /\ value # None => Outcome(p \o (body \o end), name, value)
         /\ value = None /\ (HasNul(p) \/ body = <<>> \/ body[1] # name) =>
              Outcome(p \o (body \o end), name, None)
<1> DEFINE line == body \o end
<1>1. p \in Seq(Tokens) /\ line \in Seq(Tokens)
  <2>1. Words \cup {SP, Nul} \subseteq Tokens
    BY DEF Tokens
  <2>2. body \in Seq(Tokens) /\ end \in Seq(Tokens)
    BY <2>1, EndIs
  <2>3. body \o end \in Seq(Tokens)
    BY <2>2, ConcatIs
  <2> QED
    BY <2>3 DEF Lines
<1> HIDE DEF line
<1>2. ASSUME value # None PROVE Outcome(p \o line, name, value)
  <2>1. PICK i, e : FieldFound(p, name, i, e)
    BY <1>2 DEF Outcome
  <2>2. parse_field(p, name) = value
    BY <1>2 DEF Outcome
  <2>3. FieldFound(p \o line, name, i, e) /\ parse_field(p \o line, name) = parse_field(p, name)
    BY <1>1, <2>1, FieldKept
  <2> QED
    BY <1>2, <2>2, <2>3 DEF Outcome
<1>3. ASSUME value = None, HasNul(p) \/ body = <<>> \/ body[1] # name
      PROVE  Outcome(p \o line, name, None)
  <2>1. NoField(p, name)
    BY <1>3 DEF Outcome
  <2>2. NoField(p \o line, name)
    BY <1>3, <2>1, LineWithoutField DEF line
  <2> QED
    BY <2>2 DEF Outcome
<1> QED
  BY <1>2, <1>3 DEF line

\* The fields behind some lines.
LEMMA FieldsAfter ==
  ASSUME NEW p, Lines(p), p # <<>>, NEW name \in Words, NoField(p, name),
         NEW end \in LineEnds, NEW fields \in Seq(FieldType)
  PROVE  LET text == p \o FieldLines(fields, end)
         IN  /\ Lines(text) /\ text # <<>>
             /\ HasNul(text) <=> HasNul(p)
             /\ Outcome(text, name, IF HasNul(p) THEN None ELSE FirstOf(fields, name))
<1> DEFINE T(fs) == p \o FieldLines(fs, end)
           Good(fs) == /\ Lines(T(fs)) /\ T(fs) # <<>>
                       /\ HasNul(T(fs)) <=> HasNul(p)
                       /\ Outcome(T(fs), name, IF HasNul(p) THEN None ELSE FirstOf(fs, name))
           G == {fs \in Seq(FieldType) : Good(fs)}
<1>1. <<>> \in G
  <2>1. T(<<>>) = p
    <3>1. p \o <<>> = p
      BY DEF Lines
    <3> QED
      BY <3>1, FieldLinesAre
  <2>2. <<>> \in Seq(FieldType) /\ FirstOf(<<>>, name) = None
    <3>1. DOMAIN <<>> = {}
      OBVIOUS
    <3> QED
      BY <3>1 DEF FirstOf
  <2>3. Outcome(p, name, None)
    BY DEF Outcome
  <2> HIDE DEF T
  <2> QED
    BY <2>1, <2>2, <2>3
<1>2. ASSUME NEW fs \in Seq(FieldType), NEW f \in FieldType, fs \in G PROVE Append(fs, f) \in G
  <2> DEFINE body == <<f.name, SP>> \o f.value
             q == T(fs)
             more == T(Append(fs, f))
             was == IF HasNul(p) THEN None ELSE FirstOf(fs, name)
             is == IF HasNul(p) THEN None ELSE FirstOf(Append(fs, f), name)
  <2>1. /\ body \in Seq(Words \cup {SP, Nul}) /\ body # <<>> /\ body[1] = f.name /\ ~HasNul(body)
        /\ f.name \in Words
    BY FieldIs, FieldHasNoNul
  <2>2. /\ Lines(q) /\ q # <<>> /\ (HasNul(q) <=> HasNul(p)) /\ Outcome(q, name, was)
    BY <1>2
  <2>3. more = q \o (body \o end)
    <3> DEFINE x == FieldLines(fs, end)
               y == body \o end
    <3>1. FieldLines(Append(fs, f), end) = x \o y /\ x \in Seq(Tokens) /\ y \in Seq(Tokens)
      <4>1. LineOf(end)[f] = y
        BY DEF LineOf
      <4>2. LineOf(end)[f] \in Seq(Tokens)
        BY FieldLinesAre DEF Headed
      <4> HIDE DEF y
      <4> QED
        BY <4>1, <4>2, FieldLinesAre
    <3> HIDE DEF x, y
    <3>2. p \in Seq(Tokens)
      BY DEF Lines
    <3>3. p \o (x \o y) = (p \o x) \o y
      BY <3>1, <3>2, ConcatAssociative
    <3> QED
      BY <3>1, <3>3 DEF x, y
  <2>4. Append(fs, f) \in Seq(FieldType)
    OBVIOUS
  <2>5. /\ FirstOf(fs, name) # None => FirstOf(Append(fs, f), name) = FirstOf(fs, name)
        /\ FirstOf(fs, name) = None =>
             FirstOf(Append(fs, f), name) = IF f.name = name THEN f.value ELSE None
        /\ f.value # None
    <3>1. f.value \in Seq(Tokens)
      <4>1. f.value \in Seq(Words \cup {SP}) /\ Words \cup {SP} \subseteq Tokens
        BY FieldIs DEF Value, Tokens
      <4> QED
        BY <4>1
    <3> QED
      BY <3>1, FirstAppend, TokensAre
  <2> HIDE DEF body, q, T
  <2>6. /\ Lines(more) /\ more # <<>>
    BY <2>1, <2>2, <2>3, LineParts
  <2>7. HasNul(more) <=> HasNul(p)
    BY <2>1, <2>2, <2>3, NulInLine
  <2>8. Outcome(more, name, is)
    <3>1. CASE was # None
      <4>1. is = was
        BY <2>5, <3>1
      <4>2. Outcome(more, name, was)
        BY <2>1, <2>2, <2>3, <3>1, OutcomeKept
      <4> QED
        BY <4>1, <4>2
    <3>2. CASE was = None /\ (HasNul(p) \/ f.name # name)
      <4>1. is = None
        BY <2>5, <3>2
      <4>2. HasNul(q) \/ body = <<>> \/ body[1] # name
        BY <2>1, <2>2, <3>2
      <4>3. Outcome(more, name, None)
        BY <2>1, <2>2, <2>3, <3>2, <4>2, OutcomeKept
      <4> QED
        BY <4>1, <4>3
    <3>3. CASE was = None /\ ~HasNul(p) /\ f.name = name
      <4>1. is = f.value /\ is # None
        BY <2>5, <3>3
      <4>2. NoField(q, f.name)
        BY <2>2, <3>3 DEF Outcome
      <4>3. ~HasNul(q)
        BY <2>2, <3>3
      <4>4. (\E i, e : FieldFound(more, f.name, i, e)) /\ parse_field(more, f.name) = f.value
        BY <2>2, <2>3, <4>2, <4>3, LineWithField DEF body
      <4> QED
        BY <3>3, <4>1, <4>4 DEF Outcome
    <3> QED
      BY <3>1, <3>2, <3>3
  <2> QED
    BY <2>4, <2>6, <2>7, <2>8
<1>3. Seq(FieldType) \subseteq G
  <2> HIDE DEF G
  <2> QED
    BY <1>1, <1>2, AppendInd
<1> QED
  BY <1>3

\* A request behind others that do not have the field.
LEMMA TextAfter ==
  ASSUME NEW p, Lines(p), NEW name \in Parsed, NoField(p, name),
         NEW r \in Requests, NEW end \in LineEnds
  PROVE  LET text == p \o Text(r, end)
         IN  /\ Lines(text) /\ text # <<>>
             /\ Outcome(text, name,
                        IF HasNul(p) \/ HasNul(Line(r)) THEN None ELSE FirstField(r, name))
<1> DEFINE line == Line(r) \o end
           fields == FieldLines(r.fields, end)
           q1 == p \o line
           q2 == q1 \o fields
           q3 == q2 \o (<<>> \o end)
           nul == HasNul(p) \/ HasNul(Line(r))
           value == IF nul THEN None ELSE FirstField(r, name)
<1>1. name \in Words
  BY TokensAre
<1>2. /\ Line(r) \in Seq(Words \cup {SP, Nul}) /\ Line(r)[1] # name
      /\ r.fields \in Seq(FieldType)
  BY LineIs, RequestIs
<1>3. /\ p \in Seq(Tokens) /\ line \in Seq(Tokens) /\ fields \in Seq(Tokens) /\ end \in Seq(Tokens)
  <2>1. Words \cup {SP, Nul} \subseteq Tokens
    BY DEF Tokens
  <2>2. Line(r) \in Seq(Tokens) /\ end \in Seq(Tokens)
    BY <1>2, <2>1, EndIs
  <2>3. line \in Seq(Tokens)
    BY <2>2, ConcatIs
  <2>4. fields \in Seq(Tokens)
    BY <1>2, FieldLinesAre
  <2> QED
    BY <2>2, <2>3, <2>4 DEF Lines
<1>4. Lines(q1) /\ q1 # <<>> /\ NoField(q1, name) /\ (HasNul(q1) <=> nul)
  <2> DEFINE body == Line(r)
  <2>1. body \in Seq(Words \cup {SP, Nul}) /\ body[1] # name
    BY <1>2
  <2> HIDE DEF body
  <2> DEFINE t == p \o (body \o end)
  <2>2. Lines(t) /\ t # <<>>
    BY <2>1, LineParts
  <2>3. NoField(t, name)
    BY <1>1, <2>1, LineWithoutField
  <2>4. HasNul(t) <=> HasNul(p) \/ HasNul(body)
    BY <2>1, NulInLine
  <2> QED
    BY <2>2, <2>3, <2>4 DEF body
<1> HIDE DEF q1
<1>5. /\ Lines(q2) /\ q2 # <<>>
      /\ HasNul(q2) <=> nul
      /\ Outcome(q2, name, value)
  <2> DEFINE fs == r.fields
  <2>1. fs \in Seq(FieldType) /\ FirstOf(fs, name) = FirstField(r, name)
    BY <1>2 DEF FirstOf, FirstField
  <2> HIDE DEF fs
  <2>2. LET t == q1 \o FieldLines(fs, end)
        IN  /\ Lines(t) /\ t # <<>>
            /\ HasNul(t) <=> HasNul(q1)
            /\ Outcome(t, name, IF HasNul(q1) THEN None ELSE FirstOf(fs, name))
    BY <1>1, <1>4, <2>1, FieldsAfter
  <2> HIDE DEF nul
  <2> QED
    BY <1>4, <2>1, <2>2 DEF fs
<1> HIDE DEF q2, value
<1>6. Lines(q3) /\ q3 # <<>> /\ Outcome(q3, name, value)
  <2>1. <<>> \in Seq(Words \cup {SP, Nul})
    OBVIOUS
  <2>2. Lines(q3) /\ q3 # <<>>
    BY <1>5, <2>1, LineParts
  <2> DEFINE body == <<>>
  <2>3. body \in Seq(Words \cup {SP, Nul}) /\ body = <<>>
    OBVIOUS
  <2> HIDE DEF body
  <2>4. value # None => Outcome(q2 \o (body \o end), name, value)
    BY <1>1, <1>5, <2>3, OutcomeKept
  <2>5. value = None => Outcome(q2 \o (body \o end), name, None)
    BY <1>1, <1>5, <2>3, OutcomeKept
  <2> QED
    BY <2>2, <2>3, <2>4, <2>5
<1>7. p \o Text(r, end) = q3
  <2>1. Text(r, end) = (line \o fields) \o end
    BY TextIs DEF Start
  <2>2. <<>> \o end = end
    BY <1>3
  <2> HIDE DEF line, fields
  <2>3. line \o fields \in Seq(Tokens)
    BY <1>3, ConcatIs
  <2>4. p \o ((line \o fields) \o end) = (p \o (line \o fields)) \o end
    BY <1>3, <2>3, ConcatAssociative
  <2>5. p \o (line \o fields) = (p \o line) \o fields
    BY <1>3, ConcatAssociative
  <2> QED
    BY <2>1, <2>2, <2>4, <2>5 DEF q1, q2, line
<1> QED
  BY <1>6, <1>7 DEF value

LEMMA FieldOfText ==
  ASSUME NEW name \in Parsed, NEW r \in Requests, NEW end \in LineEnds
  PROVE  parse_field(Text(r, end), name) =
           IF HasNul(Line(r)) THEN None ELSE FirstField(r, name)
<1> DEFINE p == <<>>
           text == Text(r, end)
           value == IF HasNul(p) \/ HasNul(Line(r)) THEN None ELSE FirstField(r, name)
<1>1. Lines(p) /\ NoField(p, name) /\ ~HasNul(p) /\ p \o text = text
  <2>1. text \in Seq(Tokens)
    BY ClosedOnce
  <2>2. p \o text = text
    <3> HIDE DEF text
    <3> QED
      BY <2>1
  <2> QED
    BY <2>2 DEF Lines, NoField, HasNul
<1> HIDE DEF p
<1>2. Outcome(p \o text, name, value)
  BY <1>1, TextAfter
<1> HIDE DEF value, text
<1>3. parse_field(text, name) = value
  BY <1>1, <1>2, OutcomeIs
<1> QED
  BY <1>1, <1>3 DEF value, text

\* Of several requests, a field is one of theirs.
LEMMA FieldOfTexts ==
  ASSUME NEW name \in Parsed, NEW ss \in Seq(Sent)
  PROVE  \/ parse_field(Texts(ss), name) = None
         \/ \E k \in 1..Len(ss) : parse_field(Texts(ss), name) = FirstField(ss[k].request, name)
<1> DEFINE Said(tt, value) == \E k \in 1..Len(tt) : value = FirstField(tt[k].request, name)
           Good(tt) == /\ Lines(Texts(tt))
                       /\ \E value : Outcome(Texts(tt), name, value) /\ (value = None \/ Said(tt, value))
           G == {tt \in Seq(Sent) : Good(tt)}
<1>1. <<>> \in G
  <2>1. Texts(<<>>) = <<>> /\ <<>> \in Seq(Sent)
    BY TextsAre
  <2>2. Lines(<<>>) /\ Outcome(<<>>, name, None)
    BY DEF Lines, Outcome, NoField
  <2> QED
    BY <2>1, <2>2
<1>2. ASSUME NEW tt \in Seq(Sent), NEW s \in Sent, tt \in G PROVE Append(tt, s) \in G
  <2> DEFINE p == Texts(tt)
             uu == Append(tt, s)
             text == Texts(uu)
  <2>1. /\ uu \in Seq(Sent) /\ Len(uu) = Len(tt) + 1 /\ Len(tt) \in Nat /\ uu[Len(tt) + 1] = s
        /\ \A k \in 1..Len(tt) : uu[k] = tt[k]
    OBVIOUS
  <2>2. s.request \in Requests /\ s.end \in LineEnds /\ text = p \o Text(s.request, s.end)
    BY TextsAre, TextOfIs
  <2>3. Lines(p)
    BY <1>2
  <2>4. PICK value : Outcome(p, name, value) /\ (value = None \/ Said(tt, value))
    BY <1>2
  <2> SUFFICES Good(uu)
    BY <2>1
  <2> HIDE DEF p, text, uu
  <2>5. CASE value = None
    <3>1. NoField(p, name)
      BY <2>4, <2>5 DEF Outcome
    <3> DEFINE value2 == IF HasNul(p) \/ HasNul(Line(s.request)) THEN None
                         ELSE FirstField(s.request, name)
    <3>2. Lines(text) /\ Outcome(text, name, value2)
      BY <2>2, <2>3, <3>1, TextAfter
    <3>3. value2 = None \/ Said(uu, value2)
      <4>1. Len(tt) + 1 \in 1..Len(uu)
        BY <2>1
      <4> QED
        BY <2>1, <4>1
    <3> HIDE DEF value2
    <3>4. \E v : Outcome(text, name, v) /\ (v = None \/ Said(uu, v))
      BY <3>2, <3>3
    <3> QED
      BY <2>1, <3>2, <3>4 DEF text
  <2>6. CASE value # None
    <3>1. /\ p \in Seq(Tokens) /\ Text(s.request, s.end) \in Seq(Tokens)
          /\ Text(s.request, s.end) # <<>>
          /\ Text(s.request, s.end)[Len(Text(s.request, s.end))] = LF
      BY <2>2, <2>3, ClosedOnce DEF Lines
    <3> DEFINE more == Text(s.request, s.end)
    <3> HIDE DEF more
    <3>2. Lines(p \o more)
      <4>1. more \in Seq(Tokens) /\ more # <<>> /\ more[Len(more)] = LF
        BY <3>1 DEF more
      <4>2. p \in Seq(Tokens) /\ more \in Seq(Tokens)
        BY <3>1, <4>1
      <4> DEFINE z == p \o more
                 m == Len(p)
                 n == Len(more)
      <4>3. /\ z \in Seq(Tokens) /\ Len(z) = m + n /\ m \in Nat /\ n \in Nat
            /\ \A i \in 1..n : z[m + i] = more[i]
        BY <4>2, ConcatIs
      <4>4. n # 0
        BY <4>1
      <4> HIDE DEF z, m
      <4>5. z[m + n] = more[n]
        BY <4>3, <4>4
      <4>6. Lines(z)
        BY <4>1, <4>3, <4>5 DEF Lines
      <4> QED
        BY <4>6 DEF z
    <3>3. PICK i, e : FieldFound(p, name, i, e)
      BY <2>4, <2>6 DEF Outcome
    <3>4. parse_field(p, name) = value
      BY <2>4, <2>6 DEF Outcome
    <3>5. FieldFound(p \o more, name, i, e) /\ parse_field(p \o more, name) = parse_field(p, name)
      <4>1. p \in Seq(Tokens) /\ more \in Seq(Tokens)
        BY <3>1 DEF more
      <4> QED
        BY <3>3, <4>1, FieldKept
    <3>6. Outcome(text, name, value)
      BY <2>2, <2>6, <3>4, <3>5 DEF Outcome, more
    <3>7. Said(uu, value)
      <4>1. PICK k \in 1..Len(tt) : value = FirstField(tt[k].request, name)
        BY <2>4, <2>6
      <4>2. k \in 1..Len(uu) /\ uu[k] = tt[k]
        BY <2>1
      <4> QED
        BY <4>1, <4>2
    <3>8. \E v : Outcome(text, name, v) /\ (v = None \/ Said(uu, v))
      BY <3>6, <3>7
    <3>9. Lines(text)
      BY <2>2, <3>2 DEF more
    <3> QED
      BY <2>1, <3>8, <3>9 DEF text
  <2> QED
    BY <2>5, <2>6
<1>3. Seq(Sent) \subseteq G
  <2> HIDE DEF G
  <2> QED
    BY <1>1, <1>2, AppendInd
<1>4. PICK value : Outcome(Texts(ss), name, value) /\ (value = None \/ Said(ss, value))
  BY <1>3
<1> QED
  BY <1>4, OutcomeIs

-----------------------------------------------------------------------------
(***************************************************************************)
(* The reply to what has been read.                                        *)
(***************************************************************************)
LEMMA PasswordEqual ==
  ASSUME NEW user_input \in Value, NEW secret \in Value
  PROVE  password_equal(user_input, secret) <=> user_input = secret
<1> DEFINE Char(text, i) == IF i < Len(text) THEN text[i + 1] ELSE Nul
           u == Len(user_input)
           s == Len(secret)
           j(i) == IF i < s THEN i ELSE s
<1>1. /\ user_input \in Seq(Words \cup {SP}) /\ secret \in Seq(Words \cup {SP})
      /\ u \in Nat /\ s \in Nat
      /\ \A i \in 1..u : user_input[i] # Nul
      /\ \A i \in 1..s : secret[i] # Nul
  <2> DEFINE S == Words \cup {SP}
  <2>1. user_input \in Seq(S) /\ secret \in Seq(S) /\ Nul \notin S
    BY TokensAre DEF Value
  <2>2. ASSUME NEW t \in Seq(S) PROVE Len(t) \in Nat /\ \A i \in 1..Len(t) : t[i] # Nul
    <3> HIDE DEF S
    <3>1. \A i \in 1..Len(t) : t[i] \in S
      OBVIOUS
    <3> QED
      BY <2>1, <3>1
  <2> HIDE DEF S
  <2> QED
    BY <2>1, <2>2 DEF S
<1>2. password_equal(user_input, secret) <=>
        /\ \A i \in 0..u : Char(user_input, i) = Char(secret, j(i))
        /\ u = j(u)
        /\ Char(secret, j(u)) = Nul
  BY DEF password_equal
<1>3. ASSUME user_input = secret PROVE password_equal(user_input, secret)
  <2>1. u = s /\ j(u) = u /\ Char(secret, u) = Nul
    BY <1>1, <1>3
  <2>2. \A i \in 0..u : j(i) = i
    BY <1>1, <2>1
  <2> HIDE DEF j, u, s, Char
  <2> QED
    BY <1>2, <1>3, <2>1, <2>2
<1>4. ASSUME /\ \A i \in 0..u : Char(user_input, i) = Char(secret, j(i))
             /\ u = j(u)
             /\ Char(secret, j(u)) = Nul
      PROVE  user_input = secret
  <2>1. u = s
    <3>1. ~(u < s)
      <4> SUFFICES ASSUME u < s PROVE FALSE
        OBVIOUS
      <4>1. u + 1 \in 1..s
        BY <1>1
      <4>2. secret[u + 1] = Nul
        BY <1>4
      <4> QED
        BY <1>1, <4>1, <4>2
    <3> QED
      BY <1>1, <1>4, <3>1
  <2>2. \A i \in 1..u : user_input[i] = secret[i]
    <3> TAKE i \in 1..u
    <3> DEFINE k == i - 1
    <3>1. k \in 0..u /\ k < u /\ k < s /\ k + 1 = i
      BY <1>1, <2>1
    <3>2. Char(user_input, k) = Char(secret, k)
      BY <1>4, <3>1
    <3> HIDE DEF k
    <3> QED
      BY <3>1, <3>2
  <2> QED
    BY <1>1, <2>1, <2>2
<1> QED
  BY <1>2, <1>3, <1>4

LEMMA OptionsAre ==
  ASSUME options \in Options
  PROVE  options.want_keepalive \in BOOLEAN /\ options.auth_key \in Value \cup {None}
BY RequestTextAssumption

LEMMA ValueIsText == Value \subseteq Seq(Tokens) /\ None \notin Value
<1>1. Words \cup {SP} \subseteq Tokens
  BY DEF Tokens
<1>2. Value \subseteq Seq(Tokens)
  BY <1>1 DEF Value
<1> QED
  BY <1>2, TokensAre

LEMMA FirstFieldType ==
  ASSUME NEW r \in Requests, NEW name
  PROVE  FirstField(r, name) \in Value \cup {None}
<1>1. r.fields \in Seq(FieldType)
  BY RequestIs
<1>2. ASSUME NEW fs \in Seq(FieldType) PROVE FirstOf(fs, name) \in Value \cup {None}
  <2> DEFINE its == {i \in 1..Len(fs) : fs[i].name = name}
  <2>1. CASE its = {}
    BY <2>1, FirstIs
  <2>2. CASE its # {}
    <3>1. its \in SUBSET Nat
      OBVIOUS
    <3>2. PICK i \in its : \A k \in its : i <= k
      <4> HIDE DEF its
      <4> QED
        BY <2>2, <3>1, LeastNat
    <3>3. i \in 1..Len(fs) /\ fs[i].name = name
      BY <3>2
    <3>4. \A k \in 1..(i - 1) : fs[k].name # name
      <4> SUFFICES ASSUME NEW k \in 1..(i - 1), fs[k].name = name PROVE FALSE
        OBVIOUS
      <4>1. k \in its /\ k < i /\ k \in Nat /\ i \in Nat
        BY <3>3
      <4>2. i <= k
        BY <3>2, <4>1
      <4> QED
        BY <4>1, <4>2
    <3>5. FirstOf(fs, name) = fs[i].value
      BY <3>3, <3>4, FirstIs
    <3>6. fs[i] \in FieldType
      BY <3>3
    <3> QED
      BY <3>5, <3>6, FieldIs
  <2> QED
    BY <2>1, <2>2
<1>3. FirstField(r, name) = FirstOf(r.fields, name)
  BY DEF FirstField, FirstOf
<1> QED
  BY <1>1, <1>2, <1>3

\* What password_equal says of a field, it says of the request.
LEMMA KeyIs ==
  ASSUME options \in Options, NEW value \in Value \cup {None}
  PROVE  ~ (/\ options.auth_key # None
            /\ value = None \/ ~password_equal(value, options.auth_key))
           <=> options.auth_key \in {None, value}
<1> DEFINE key == options.auth_key
<1>1. key \in Value \cup {None}
  BY OptionsAre
<1> HIDE DEF key
<1>2. ~ (key # None /\ (value = None \/ ~password_equal(value, key))) <=> key \in {None, value}
  <2>1. CASE key = None
    BY <2>1
  <2>2. CASE key # None /\ value = None
    BY <2>2
  <2>3. CASE key # None /\ value # None
    <3>1. password_equal(value, key) <=> value = key
      BY <1>1, <2>3, PasswordEqual
    <3> QED
      BY <2>3, <3>1
  <2> QED
    BY <2>1, <2>2, <2>3
<1> QED
  BY <1>2 DEF key

LEMMA ReplyOfLine ==
  ASSUME options \in Options, conn_close \in BOOLEAN, NEW r \in Requests, NEW text,
         parse_field(text, "Authorization:") \in Value \cup {None},
         parse_field(text, "Range:") \in Value \cup {None}
  PROVE  LET p == Taken(r, text)
         IN  /\ p.good = ~Malformed(r)
             /\ ~Malformed(r) =>
                  p.close = (Closes(r, parse_field(text, "Connection:")) \/ ~options.want_keepalive)
             /\ (~p.good \/ p.close) \in BOOLEAN
             /\ Reply(p) \in ReplyType
             /\ Reply(p) =
                  IF Malformed(r) THEN Code(400)
                  ELSE IF options.auth_key \notin {None, parse_field(text, "Authorization:")}
                    THEN Code(401)
                  ELSE IF r.method \notin {"GET", "HEAD"} THEN Code(501)
                  ELSE [code |-> 200, head |-> r.method = "HEAD", url |-> r.url,
                        range |-> parse_field(text, "Range:")]
<1> DEFINE p == Taken(r, text)
           field == parse_field(text, "Connection:")
           authorization == parse_field(text, "Authorization:")
           range == parse_field(text, "Range:")
           closes == Closes(r, field) \/ ~options.want_keepalive
<1>1. \A c \in {200, 400, 401, 413, 501} : Code(c) \in ReplyType
  BY DEF Code, ReplyType
<1>2. CASE Malformed(r)
  <2>1. p = [good |-> FALSE]
    BY <1>2 DEF Taken
  <2>2. p.good = FALSE
    BY <2>1
  <2>3. Reply(p) = Code(400)
    BY <2>2 DEF Reply
  <2> HIDE DEF p
  <2>4. p.good = ~Malformed(r)
    BY <1>2, <2>2
  <2>5. (~p.good \/ p.close) \in BOOLEAN
    <3>1. ~p.good
      BY <2>2
    <3> QED
      BY <3>1
  <2>6. Reply(p) \in ReplyType
    BY <1>1, <2>3
  <2> HIDE DEF authorization, range
  <2>7. Reply(p) =
          IF Malformed(r) THEN Code(400)
          ELSE IF options.auth_key \notin {None, authorization} THEN Code(401)
          ELSE IF r.method \notin {"GET", "HEAD"} THEN Code(501)
          ELSE [code |-> 200, head |-> r.method = "HEAD", url |-> r.url, range |-> range]
    BY <1>2, <2>3
  <2>8. ~Malformed(r) => p.close = closes
    BY <1>2
  <2> QED
    BY <2>4, <2>5, <2>6, <2>7, <2>8 DEF p, authorization, range
<1>3. CASE ~Malformed(r)
  <2>1. p = [good |-> TRUE, method |-> <<r.method>>, url |-> r.url, close |-> closes,
             authorization |-> authorization, range |-> range]
    BY <1>3 DEF Taken
  <2> HIDE DEF p
  <2>2. /\ p.good = TRUE /\ p.method = <<r.method>> /\ p.url = r.url /\ p.close = closes
        /\ p.authorization = authorization /\ p.range = range
    BY <2>1
  <2>3. closes \in BOOLEAN
    BY DEF Closes
  <2> HIDE DEF closes
  <2>4. \A m : <<r.method>> = <<m>> <=> r.method = m
    OBVIOUS
  <2>5. r.url \in Seq(Words)
    <3> DEFINE url == r.url
    <3>1. url \in Seq(Words \cup {Nul}) /\ url[1] \in Words /\ url # <<>>
      BY RequestIs
    <3>2. \A k \in 2..Len(url) : url[k] # Nul
      BY <1>3, UrlHasNul DEF Malformed
    <3> HIDE DEF url
    <3>3. \A k \in 1..Len(url) : url[k] \in Words
      <4> TAKE k \in 1..Len(url)
      <4>1. k = 1 \/ k \in 2..Len(url)
        BY <3>1
      <4>2. url[k] \in Words \cup {Nul}
        BY <3>1
      <4> QED
        BY <3>1, <3>2, <4>1, <4>2
    <3>4. url \in Seq(Words)
      BY <3>1, <3>3
    <3> QED
      BY <3>4 DEF url
  <2>6. ~ (options.auth_key # None
           /\ (authorization = None \/ ~password_equal(authorization, options.auth_key)))
          <=> options.auth_key \in {None, authorization}
    BY KeyIs
  <2> HIDE DEF authorization, range, field
  <2>7. Reply(p) =
          IF options.auth_key \notin {None, authorization} THEN Code(401)
          ELSE IF r.method \notin {"GET", "HEAD"} THEN Code(501)
          ELSE [code |-> 200, head |-> r.method = "HEAD", url |-> r.url, range |-> range]
    <3>1. (p.method \notin {<<"GET">>, <<"HEAD">>}) <=> r.method \notin {"GET", "HEAD"}
      BY <2>2, <2>4
    <3>2. (p.method = <<"HEAD">>) = (r.method = "HEAD")
      BY <2>2, <2>4
    <3>3. (options.auth_key # None
           /\ (p.authorization = None \/ ~password_equal(p.authorization, options.auth_key)))
            <=> options.auth_key \notin {None, authorization}
      BY <2>2, <2>6
    <3> QED
      BY <2>2, <3>1, <3>2, <3>3 DEF Reply
  <2>8. [code |-> 200, head |-> r.method = "HEAD", url |-> r.url, range |-> range] \in ReplyType
    BY <2>5 DEF ReplyType, range
  <2>9. p.good = ~Malformed(r)
    BY <1>3, <2>2
  <2>10. (~p.good \/ p.close) \in BOOLEAN
    <3>1. (~p.good \/ p.close) = closes
      BY <2>2, <2>3
    <3> QED
      BY <2>3, <3>1
  <2>11. Reply(p) \in ReplyType
    BY <1>1, <2>7, <2>8
  <2>12. Reply(p) =
           IF Malformed(r) THEN Code(400)
           ELSE IF options.auth_key \notin {None, authorization} THEN Code(401)
           ELSE IF r.method \notin {"GET", "HEAD"} THEN Code(501)
           ELSE [code |-> 200, head |-> r.method = "HEAD", url |-> r.url, range |-> range]
    BY <1>3, <2>7
  <2>13. ~Malformed(r) => p.close = closes
    BY <2>2
  <2> QED
    BY <2>9, <2>10, <2>11, <2>12, <2>13 DEF p, closes, authorization, range, field
<1> QED
  BY <1>2, <1>3

\* The first of several requests is the one that is parsed.
LEMMA TextsParsed ==
  ASSUME NEW ss \in Seq(Sent), ss # <<>>
  PROVE  /\ ss[1] \in Sent
         /\ parse_request(Texts(ss)) = Taken(ss[1].request, Texts(ss))
<1> DEFINE s == ss[1]
           rest == Tail(ss)
           r == s.request
           end == s.end
           fields == FieldLines(r.fields, end)
           more == ((end \o fields) \o end) \o Texts(rest)
<1>1. s \in Sent /\ rest \in Seq(Sent) /\ ss = <<s>> \o rest /\ <<s>> \in Seq(Sent)
      /\ <<s>> = Append(<<>>, s) /\ <<>> \in Seq(Sent)
  OBVIOUS
<1>2. r \in Requests /\ end \in LineEnds /\ TextOf[s] = Text(r, end) /\ TextOf[s] \in Seq(Tokens)
  BY <1>1, TextOfIs
<1>3. Texts(ss) = Text(r, end) \o Texts(rest) /\ Texts(rest) \in Seq(Tokens)
  <2>1. Texts(<<s>>) = <<>> \o TextOf[s]
    BY <1>1, TextsAre
  <2>2. <<>> \o TextOf[s] = TextOf[s]
    <3> DEFINE z == TextOf[s]
    <3>1. z \in Seq(Tokens)
      BY <1>2
    <3> HIDE DEF z
    <3>2. <<>> \o z = z
      BY <3>1
    <3> QED
      BY <3>2 DEF z
  <2>3. Texts(<<s>> \o rest) = Texts(<<s>>) \o Texts(rest) /\ Texts(rest) \in Seq(Tokens)
    BY <1>1, TextsAre
  <2> HIDE DEF s, rest
  <2> QED
    BY <1>1, <1>2, <2>1, <2>2, <2>3
<1> HIDE DEF s, rest, r, end
<1>4. /\ Line(r) \in Seq(Tokens) /\ fields \in Seq(Tokens) /\ end \in Seq(Tokens)
      /\ Len(end) \in 1..2 /\ end[1] \in {CR, LF}
  <2>1. Words \cup {SP, Nul} \subseteq Tokens
    BY DEF Tokens
  <2>2. Line(r) \in Seq(Tokens)
    BY <1>2, <2>1, LineIs
  <2>3. r.fields \in Seq(FieldType)
    BY <1>2, RequestIs
  <2>4. fields \in Seq(Tokens)
    BY <1>2, <2>3, FieldLinesAre
  <2> QED
    BY <1>2, <2>2, <2>4, EndIs
<1>5. Text(r, end) = (Line(r) \o end \o fields) \o end
  BY <1>2, TextIs DEF Start
<1> DEFINE line == Line(r)
           t == Texts(rest)
<1>6. line \in Seq(Tokens) /\ t \in Seq(Tokens)
  BY <1>3, <1>4
<1> HIDE DEF line, fields, t
<1> DEFINE ef == end \o fields
           efe == ef \o end
           all == efe \o t
<1>7. ef \in Seq(Tokens) /\ Len(ef) >= 1 /\ ef[1] = end[1]
  <2>1. /\ ef \in Seq(Tokens) /\ Len(ef) = Len(end) + Len(fields) /\ Len(fields) \in Nat
        /\ \A i \in 1..Len(end) : ef[i] = end[i]
    <3>1. end \in Seq(Tokens) /\ fields \in Seq(Tokens)
      BY <1>4
    <3> QED
      BY <3>1, ConcatIs
  <2>2. 1 \in 1..Len(end)
    BY <1>4
  <2> HIDE DEF ef
  <2> QED
    BY <1>4, <2>1, <2>2
<1>8. efe \in Seq(Tokens) /\ Len(efe) >= 1 /\ efe[1] = ef[1]
  <2> HIDE DEF ef
  <2>1. /\ efe \in Seq(Tokens) /\ Len(efe) = Len(ef) + Len(end)
        /\ \A i \in 1..Len(ef) : efe[i] = ef[i]
    <3>1. ef \in Seq(Tokens) /\ end \in Seq(Tokens)
      BY <1>4, <1>7
    <3> QED
      BY <3>1, ConcatIs
  <2>2. Len(ef) \in Nat /\ 1 \in 1..Len(ef)
    BY <1>7
  <2> HIDE DEF efe
  <2> QED
    BY <1>4, <2>1, <2>2
<1>9. all \in Seq(Tokens) /\ all # <<>> /\ all[1] = efe[1]
  <2> HIDE DEF efe
  <2>1. /\ all \in Seq(Tokens) /\ Len(all) = Len(efe) + Len(t) /\ Len(t) \in Nat
        /\ \A i \in 1..Len(efe) : all[i] = efe[i]
    <3>1. efe \in Seq(Tokens) /\ t \in Seq(Tokens)
      BY <1>6, <1>8
    <3> QED
      BY <3>1, ConcatIs
  <2>2. Len(efe) \in Nat /\ 1 \in 1..Len(efe)
    BY <1>8
  <2> HIDE DEF all
  <2>3. Len(all) # 0
    BY <1>8, <2>1, <2>2
  <2> QED
    BY <2>1, <2>2, <2>3
<1>10. Texts(ss) = line \o all
  <2> HIDE DEF ef, efe, all
  <2>1. (line \o end) \o fields = line \o ef
    <3>1. line \in Seq(Tokens) /\ end \in Seq(Tokens) /\ fields \in Seq(Tokens)
      BY <1>4, <1>6
    <3> QED
      BY <3>1, ConcatAssociative DEF ef
  <2>2. (line \o ef) \o end = line \o efe
    <3>1. line \in Seq(Tokens) /\ ef \in Seq(Tokens) /\ end \in Seq(Tokens)
      BY <1>4, <1>6, <1>7
    <3> QED
      BY <3>1, ConcatAssociative DEF efe
  <2>3. (line \o efe) \o t = line \o all
    <3>1. line \in Seq(Tokens) /\ efe \in Seq(Tokens) /\ t \in Seq(Tokens)
      BY <1>6, <1>8
    <3> QED
      BY <3>1, ConcatAssociative DEF all
  <2> QED
    BY <1>3, <1>5, <2>1, <2>2, <2>3 DEF line, fields, t, ef, efe
<1> HIDE DEF ef, efe, all
<1>11. all[1] \in {CR, LF}
  BY <1>4, <1>7, <1>8, <1>9
<1>12. parse_request(line \o all) = Taken(r, line \o all)
  BY <1>2, <1>9, <1>11, LineParsed DEF line
<1> QED
  BY <1>1, <1>10, <1>12 DEF s, r

\* Whatever was read with it, the reply is one, and a page only for the key.
LEMMA ReplyOfTexts ==
  ASSUME options \in Options, conn_close \in BOOLEAN, NEW ss \in Seq(Sent), ss # <<>>
  PROVE  LET p == parse_request(Texts(ss))
         IN  /\ (~p.good \/ p.close) \in BOOLEAN
             /\ Reply(p) \in ReplyType
             /\ Reply(p).code = 200 => \E k \in 1..Len(ss) : HasKey(ss[k].request)
<1> DEFINE text == Texts(ss)
           r == ss[1].request
           p == parse_request(text)
           authorization == parse_field(text, "Authorization:")
<1>1. ss[1] \in Sent /\ p = Taken(r, text)
  BY TextsParsed
<1>2. r \in Requests
  BY <1>1, TextOfIs
<1>3. ASSUME NEW name \in Parsed
      PROVE  /\ parse_field(text, name) \in Value \cup {None}
             /\ \/ parse_field(text, name) = None
                \/ \E k \in 1..Len(ss) : parse_field(text, name) = FirstField(ss[k].request, name)
  <2>1. \/ parse_field(text, name) = None
        \/ \E k \in 1..Len(ss) : parse_field(text, name) = FirstField(ss[k].request, name)
    BY FieldOfTexts
  <2>2. ASSUME NEW k \in 1..Len(ss) PROVE FirstField(ss[k].request, name) \in Value \cup {None}
    <3>1. ss[k] \in Sent
      OBVIOUS
    <3> QED
      BY <3>1, TextOfIs, FirstFieldType
  <2> HIDE DEF text
  <2> QED
    BY <2>1, <2>2
<1>4. "Authorization:" \in Parsed /\ "Range:" \in Parsed
  BY DEF Parsed
<1> HIDE DEF text, r, p
<1>5. /\ (~p.good \/ p.close) \in BOOLEAN
      /\ Reply(p) \in ReplyType
      /\ Reply(p) =
           IF Malformed(r) THEN Code(400)
           ELSE IF options.auth_key \notin {None, authorization} THEN Code(401)
           ELSE IF r.method \notin {"GET", "HEAD"} THEN Code(501)
           ELSE [code |-> 200, head |-> r.method = "HEAD", url |-> r.url,
                 range |-> parse_field(text, "Range:")]
  BY <1>1, <1>2, <1>3, <1>4, ReplyOfLine
<1>6. ASSUME Reply(p).code = 200 PROVE \E k \in 1..Len(ss) : HasKey(ss[k].request)
  <2>1. options.auth_key \in {None, authorization}
    <3>1. Code(400).code # 200 /\ Code(401).code # 200
      BY DEF Code
    <3> HIDE DEF authorization
    <3> QED
      BY <1>5, <1>6, <3>1
  <2>2. CASE options.auth_key = None
    <3>1. 1 \in 1..Len(ss)
      OBVIOUS
    <3> QED
      BY <2>2, <3>1 DEF HasKey
  <2>3. CASE options.auth_key # None
    <3>1. PICK k \in 1..Len(ss) : authorization = FirstField(ss[k].request, "Authorization:")
      BY <1>3, <1>4, <2>1, <2>3
    <3> QED
      BY <2>1, <3>1 DEF HasKey
  <2> QED
    BY <2>2, <2>3
<1> QED
  BY <1>5, <1>6 DEF p, text

\* A request that was read alone gets the reply it deserves.
LEMMA ParsedAsAsked ==
  ASSUME options \in Options, conn_close = TRUE, NEW r \in Requests, NEW end \in LineEnds
  PROVE  LET p == parse_request(Text(r, end))
         IN  /\ Reply(p) = Deserved(r)
             /\ (~p.good \/ p.close) = (Malformed(r) \/ WantsClose(r) \/ ~options.want_keepalive)
<1> DEFINE text == Text(r, end)
           p == parse_request(text)
<1>1. p = Taken(r, text)
  <2> DEFINE s == [request |-> r, end |-> end]
             ss == <<s>>
  <2>1. s \in Sent /\ s.request = r /\ TextOf[s] = text
    BY DEF Sent, TextOf
  <2>2. text \in Seq(Tokens)
    BY ClosedOnce
  <2> HIDE DEF s, text
  <2>3. ss \in Seq(Sent) /\ ss # <<>> /\ ss[1] = s /\ ss = Append(<<>>, s) /\ <<>> \in Seq(Sent)
    BY <2>1
  <2>4. Texts(ss) = <<>> \o TextOf[s]
    BY <2>1, <2>3, TextsAre
  <2>5. <<>> \o text = text
    BY <2>2
  <2> HIDE DEF ss
  <2>6. parse_request(Texts(ss)) = Taken(ss[1].request, Texts(ss))
    BY <2>3, TextsParsed
  <2> QED
    BY <2>1, <2>3, <2>4, <2>5, <2>6
<1>2. \A name \in Parsed :
        parse_field(text, name) = IF HasNul(Line(r)) THEN None ELSE FirstField(r, name)
  BY FieldOfText
<1>3. {"Authorization:", "Range:", "Connection:"} = Parsed
  BY DEF Parsed
<1>4. ~Malformed(r) => ~HasNul(Line(r))
  BY LineNul
<1> HIDE DEF text, p
<1>5. /\ parse_field(text, "Authorization:") \in Value \cup {None}
      /\ parse_field(text, "Range:") \in Value \cup {None}
  BY <1>2, <1>3, FirstFieldType
<1>6. ~Malformed(r) =>
        /\ parse_field(text, "Authorization:") = FirstField(r, "Authorization:")
        /\ parse_field(text, "Range:") = FirstField(r, "Range:")
        /\ parse_field(text, "Connection:") = FirstField(r, "Connection:")
  BY <1>2, <1>3, <1>4
<1>7. /\ p.good = ~Malformed(r)
      /\ ~Malformed(r) =>
           p.close = (Closes(r, parse_field(text, "Connection:")) \/ ~options.want_keepalive)
      /\ Reply(p) =
           IF Malformed(r) THEN Code(400)
           ELSE IF options.auth_key \notin {None, parse_field(text, "Authorization:")}
             THEN Code(401)
           ELSE IF r.method \notin {"GET", "HEAD"} THEN Code(501)
           ELSE [code |-> 200, head |-> r.method = "HEAD", url |-> r.url,
                 range |-> parse_field(text, "Range:")]
  BY <1>1, <1>5, ReplyOfLine
<1>8. Closes(r, FirstField(r, "Connection:")) = WantsClose(r)
  <2>1. <<"close">> # <<"keep-alive">>
    OBVIOUS
  <2> QED
    BY <2>1 DEF Closes, WantsClose
<1>9. Reply(p) = Deserved(r)
  <2>1. CASE Malformed(r)
    BY <1>7, <2>1 DEF Deserved
  <2>2. CASE ~Malformed(r) /\ ~HasKey(r)
    BY <1>6, <1>7, <2>2 DEF Deserved, HasKey
  <2>3. CASE ~Malformed(r) /\ HasKey(r) /\ r.method \notin {"GET", "HEAD"}
    BY <1>6, <1>7, <2>3 DEF Deserved, HasKey
  <2>4. CASE ~Malformed(r) /\ HasKey(r) /\ r.method \in {"GET", "HEAD"}
    BY <1>6, <1>7, <2>4 DEF Deserved, HasKey
  <2> QED
    BY <2>1, <2>2, <2>3, <2>4
<1>10. (~p.good \/ p.close) = (Malformed(r) \/ WantsClose(r) \/ ~options.want_keepalive)
  <2>1. CASE Malformed(r)
    BY <1>7, <2>1
  <2>2. CASE ~Malformed(r)
    BY <1>6, <1>7, <1>8, <2>2
  <2> QED
    BY <2>1, <2>2
<1> QED
  BY <1>9, <1>10 DEF p, text

-----------------------------------------------------------------------------
(***************************************************************************)
(* The types, and the key.                                                 *)
(***************************************************************************)
AnswerType == [reply : ReplyType, close : BOOLEAN]

TypeInv == TypeOK /\ Aligned /\ answers \in Seq(AnswerType)

LEMMA ReplyOfRead ==
  ASSUME options \in Options, conn_close = TRUE, NEW ss \in Seq(Sent),
         NEW text \in Seq(Tokens), NEW rest \in Seq(Tokens), NEW piece,
         LastOf(ss, text \o rest), Complete(text, piece)
  PROVE  LET p == parse_request(text)
         IN  /\ (~p.good \/ p.close) \in BOOLEAN
             /\ Reply(p) \in ReplyType
             /\ Reply(p).code = 200 => \E k \in DOMAIN ss : HasKey(ss[k].request)
<1> DEFINE p == parse_request(text)
<1>1. PICK old \in Seq(Sent), new \in Seq(Sent) : ss = old \o new /\ text \o rest = Texts(new)
  BY DEF LastOf
<1>2. \E a, b \in Seq(Sent) : new = a \o b /\ a # <<>> /\ text = Texts(a) /\ rest = Texts(b)
  BY <1>1, ReadIsTexts
<1>3. PICK a \in Seq(Sent), b \in Seq(Sent) : new = a \o b /\ a # <<>> /\ text = Texts(a)
  BY <1>2
<1>4. /\ (~p.good \/ p.close) \in BOOLEAN /\ Reply(p) \in ReplyType
      /\ Reply(p).code = 200 => \E k \in 1..Len(a) : HasKey(a[k].request)
  BY <1>3, ReplyOfTexts
<1> HIDE DEF p
<1>5. ASSUME NEW k \in 1..Len(a) PROVE \E m \in DOMAIN ss : ss[m] = a[k]
  <2> DEFINE m == Len(old) + k
  <2>1. /\ Len(new) = Len(a) + Len(b) /\ Len(b) \in Nat /\ Len(a) \in Nat
        /\ new[k] = a[k]
    BY <1>3, ConcatIs
  <2>2. k \in 1..Len(new)
    BY <2>1
  <2>3. ss[m] = new[k] /\ Len(ss) = Len(old) + Len(new) /\ Len(old) \in Nat /\ DOMAIN ss = 1..Len(ss)
    BY <1>1, <2>2, ConcatIs
  <2>4. m \in DOMAIN ss
    BY <2>2, <2>3
  <2> HIDE DEF m
  <2> QED
    BY <2>1, <2>3, <2>4
<1>6. Reply(p).code = 200 => \E k \in DOMAIN ss : HasKey(ss[k].request)
  <2> SUFFICES ASSUME Reply(p).code = 200 PROVE \E k \in DOMAIN ss : HasKey(ss[k].request)
    OBVIOUS
  <2>1. PICK k \in 1..Len(a) : HasKey(a[k].request)
    BY <1>4
  <2>2. PICK m \in DOMAIN ss : ss[m] = a[k]
    BY <1>5
  <2> QED
    BY <2>1, <2>2
<1> QED
  BY <1>4, <1>6 DEF p

LEMMA TooLargeIs ==
  ASSUME NEW head \in BOOLEAN
  PROVE  TooLarge(head) \in ReplyType /\ TooLarge(head).code = 413
<1>1. TooLarge(head) = [code |-> 413, head |-> head, url |-> <<>>, range |-> None]
  BY DEF TooLarge, Code
<1>2. TooLarge(head).code = 413
  BY <1>1
<1>3. TooLarge(head) \in ReplyType
  <2>1. <<>> \in Seq(Words)
    OBVIOUS
  <2> QED
    BY <1>1, <2>1 DEF ReplyType
<1> QED
  BY <1>1, <1>2, <1>3

LEMMA TypeInit == Init => TypeInv
<1> SUFFICES ASSUME Init PROVE TypeInv
  OBVIOUS
<1>1. answers \in Seq(AnswerType) /\ wire \in Seq(Tokens) /\ request \in Seq(Tokens)
  BY DEF Init
<1>2. Aligned
  BY AlignedInit
<1>3. \A i \in DOMAIN sent : sent[i].request \in Requests /\ sent[i].end \in LineEnds
  BY DEF Init
<1>4. /\ options \in Options /\ pipelined = FALSE /\ conn_close = TRUE
      /\ state = "RECV_REQUEST" /\ reply = None
  BY DEF Init
<1> QED
  BY <1>1, <1>2, <1>3, <1>4 DEF TypeInv, TypeOK

LEMMA TypeStep == TypeInv /\ [Next]_vars => TypeInv'
<1> SUFFICES ASSUME TypeInv, [Next]_vars PROVE TypeInv'
  OBVIOUS
<1>1. TypeOK /\ Aligned /\ answers \in Seq(AnswerType)
  BY DEF TypeInv
<1>2. Aligned'
  BY <1>1, AlignedStep
<1>3. \A i \in DOMAIN sent' : sent'[i].request \in Requests /\ sent'[i].end \in LineEnds
  <2>1. sent' \in Seq(Sent)
    BY <1>2 DEF Aligned
  <2>2. \A i \in DOMAIN sent' : sent'[i] \in Sent
    BY <2>1
  <2> QED
    BY <2>2, TextOfIs
<1>4. wire' \in Seq(Tokens) /\ request' \in Seq(Tokens)
  BY <1>2 DEF Aligned
<1> DEFINE Rest == /\ options \in Options /\ pipelined \in BOOLEAN /\ conn_close \in BOOLEAN
                   /\ state \in {"RECV_REQUEST", "SEND_HEADER", "DONE", "closed"}
                   /\ reply \in ReplyType \cup {None}
                   /\ state = "SEND_HEADER" => reply \in ReplyType
                   /\ answers \in Seq(AnswerType)
<1>5. Rest
  BY <1>1 DEF TypeOK
<1>6. ASSUME NEW r \in Requests, NEW end \in LineEnds, Send(r, end) PROVE Rest'
  BY <1>5, <1>6 DEF Send
<1>7. ASSUME NEW n \in 1..Len(wire), poll_recv_request(n) PROVE Rest'
  <2> DEFINE piece == SubSeq(wire, 1, n)
             text == request \o piece
             rest == SubSeq(wire, n + 1, Len(wire))
             p == parse_request(text)
             close == ~p.good \/ p.close
             good_reply == Reply(p)
  <2>1. /\ state = "RECV_REQUEST" /\ UNCHANGED <<options, sent, pipelined, answers>>
        /\ conn_close' = IF Complete(text, piece) THEN close ELSE conn_close
        /\ state' = IF Complete(text, piece) \/ TooLong(text) THEN "SEND_HEADER" ELSE state
        /\ reply' = IF TooLong(text)
                      THEN TooLarge(IF Complete(text, piece) THEN good_reply.head ELSE FALSE)
                    ELSE IF Complete(text, piece) THEN good_reply ELSE reply
    BY <1>7 DEF poll_recv_request
  <2>2. text \in Seq(Tokens) /\ rest \in Seq(Tokens) /\ text \o rest = request \o wire
    BY <1>1, PieceIs
  <2>3. /\ sent \in Seq(Sent) /\ conn_close = TRUE /\ LastOf(sent, text \o rest)
    BY <1>1, <2>1, <2>2 DEF Aligned
  <2> HIDE DEF text, rest, piece
  <2>4. Complete(text, piece) => close \in BOOLEAN /\ good_reply \in ReplyType
    BY <1>5, <2>2, <2>3, ReplyOfRead
  <2> HIDE DEF p, close, good_reply
  <2>5. TooLarge(IF Complete(text, piece) THEN good_reply.head ELSE FALSE) \in ReplyType
    <3>1. (IF Complete(text, piece) THEN good_reply.head ELSE FALSE) \in BOOLEAN
      BY <2>4 DEF ReplyType
    <3> QED
      BY <3>1, TooLargeIs
  <2> QED
    BY <1>5, <2>1, <2>4, <2>5
<1>8. ASSUME poll_send PROVE Rest'
  <2>1. [reply |-> reply, close |-> conn_close] \in AnswerType
    BY <1>5, <1>8 DEF poll_send, AnswerType
  <2> QED
    BY <1>5, <1>8, <2>1 DEF poll_send
<1>9. ASSUME Break PROVE Rest'
  BY <1>5, <1>9 DEF Break
<1>10. ASSUME free_connection PROVE Rest'
  BY <1>5, <1>10 DEF free_connection
<1>11. ASSUME recycle_connection PROVE Rest'
  BY <1>5, <1>11 DEF recycle_connection, ResetClose
<1>12. ASSUME UNCHANGED vars PROVE Rest'
  BY <1>5, <1>12 DEF vars
<1>13. Rest'
  <2> HIDE DEF Rest
  <2> QED
    BY <1>6, <1>7, <1>8, <1>9, <1>10, <1>11, <1>12 DEF Next, Serve, Recv
<1> QED
  BY <1>2, <1>3, <1>4, <1>13 DEF TypeInv, TypeOK

LEMMA TypeInvariant == Spec => []TypeInv
BY TypeInit, TypeStep, PTL DEF Spec

\* Every variable keeps its type, however the texts are cut: the URL of a page
\* that parse_request finds has no blank, no line end and no NUL in it.
THEOREM TypeCorrect == Spec => []TypeOK
<1>1. TypeInv => TypeOK
  BY DEF TypeInv
<1> QED
  BY <1>1, TypeInvariant, PTL

KeyInv ==
  /\ state = "SEND_HEADER" /\ reply.code = 200 => \E k \in DOMAIN sent : HasKey(sent[k].request)
  /\ PageNeedsKey

LEMMA KeyStep == TypeInv /\ KeyInv /\ [Next]_vars => KeyInv'
<1> SUFFICES ASSUME TypeInv, KeyInv, [Next]_vars PROVE KeyInv'
  OBVIOUS
<1> DEFINE Shown == \E k \in DOMAIN sent : HasKey(sent[k].request)
<1>1. TypeOK /\ Aligned /\ answers \in Seq(AnswerType) /\ sent \in Seq(Sent)
  BY DEF TypeInv, Aligned
<1>2. /\ state = "SEND_HEADER" /\ reply.code = 200 => Shown
      /\ \A i \in DOMAIN answers : answers[i].reply.code = 200 => Shown
  BY DEF KeyInv, PageNeedsKey
<1>3. Shown => Shown'
  <2>1. CASE UNCHANGED <<options, sent>>
    BY <2>1 DEF HasKey
  <2>2. ASSUME NEW r \in Requests, NEW end \in LineEnds, Send(r, end) PROVE Shown => Shown'
    <3> DEFINE s == [request |-> r, end |-> end]
    <3>1. sent' = Append(sent, s) /\ options' = options
      BY <2>2 DEF Send
    <3>2. s \in Sent
      BY DEF Sent
    <3> HIDE DEF s
    <3>3. \A k \in DOMAIN sent : k \in DOMAIN sent' /\ sent'[k] = sent[k]
      BY <1>1, <3>1, <3>2
    <3> QED
      BY <3>1, <3>3 DEF HasKey
  <2> HIDE DEF Shown
  <2> QED
    BY <2>1, <2>2 DEF Next, Serve, Recv, poll_recv_request, poll_send, Break, free_connection,
                      recycle_connection, vars
<1> HIDE DEF Shown
<1>4. ASSUME UNCHANGED answers, state' = "SEND_HEADER" /\ reply'.code = 200 => Shown'
      PROVE  KeyInv'
  BY <1>2, <1>3, <1>4 DEF KeyInv, PageNeedsKey, Shown
<1>5. ASSUME NEW r \in Requests, NEW end \in LineEnds, Send(r, end) PROVE KeyInv'
  BY <1>2, <1>3, <1>4, <1>5 DEF Send
<1>6. ASSUME NEW n \in 1..Len(wire), poll_recv_request(n) PROVE KeyInv'
  <2> DEFINE piece == SubSeq(wire, 1, n)
             text == request \o piece
             rest == SubSeq(wire, n + 1, Len(wire))
             p == parse_request(text)
             good_reply == Reply(p)
  <2>1. /\ state = "RECV_REQUEST" /\ UNCHANGED <<options, sent, pipelined, answers>>
        /\ state' = IF Complete(text, piece) \/ TooLong(text) THEN "SEND_HEADER" ELSE state
        /\ reply' = IF TooLong(text)
                      THEN TooLarge(IF Complete(text, piece) THEN good_reply.head ELSE FALSE)
                    ELSE IF Complete(text, piece) THEN good_reply ELSE reply
    BY <1>6 DEF poll_recv_request
  <2>2. text \in Seq(Tokens) /\ rest \in Seq(Tokens) /\ text \o rest = request \o wire
    BY <1>1, PieceIs
  <2>3. conn_close = TRUE /\ LastOf(sent, text \o rest) /\ options \in Options
    BY <1>1, <2>1, <2>2 DEF Aligned, TypeOK
  <2> HIDE DEF text, rest, piece
  <2>4. Complete(text, piece) =>
          good_reply.head \in BOOLEAN /\ (good_reply.code = 200 => Shown)
    <3>1. ASSUME Complete(text, piece)
          PROVE  /\ Reply(p).head \in BOOLEAN
                 /\ Reply(p).code = 200 => \E k \in DOMAIN sent : HasKey(sent[k].request)
      <4>1. /\ sent \in Seq(Sent) /\ text \in Seq(Tokens) /\ rest \in Seq(Tokens)
            /\ options \in Options /\ conn_close = TRUE /\ LastOf(sent, text \o rest)
        BY <1>1, <2>2, <2>3
      <4>2. /\ (~p.good \/ p.close) \in BOOLEAN
            /\ Reply(p) \in ReplyType
            /\ Reply(p).code = 200 => \E k \in DOMAIN sent : HasKey(sent[k].request)
        BY <3>1, <4>1, ReplyOfRead
      <4>3. Reply(p).head \in BOOLEAN
        BY <4>2 DEF ReplyType
      <4> QED
        BY <4>2, <4>3
    <3> QED
      BY <3>1 DEF Shown
  <2> HIDE DEF p, good_reply
  <2>5. TooLarge(IF Complete(text, piece) THEN good_reply.head ELSE FALSE).code # 200
    <3> DEFINE head == IF Complete(text, piece) THEN good_reply.head ELSE FALSE
    <3>1. head \in BOOLEAN
      BY <2>4
    <3> HIDE DEF head
    <3>2. TooLarge(head).code = 413
      BY <3>1, TooLargeIs
    <3>3. TooLarge(head).code # 200
      BY <3>2
    <3> QED
      BY <3>3 DEF head
  <2>6. state' = "SEND_HEADER" /\ reply'.code = 200 => Shown
    BY <2>1, <2>4, <2>5
  <2> QED
    BY <1>3, <1>4, <2>1, <2>6
<1>7. CASE poll_send
  <2> DEFINE a == [reply |-> reply, close |-> conn_close]
  <2>1. a \in AnswerType /\ a.reply = reply
    BY <1>1, <1>7 DEF poll_send, AnswerType, TypeOK
  <2>2. answers' = Append(answers, a) /\ state = "SEND_HEADER" /\ state' = "DONE"
    BY <1>7 DEF poll_send
  <2> HIDE DEF a
  <2>3. \A i \in DOMAIN answers' :
          (i \in DOMAIN answers /\ answers'[i] = answers[i]) \/ answers'[i] = a
    BY <1>1, <2>1, <2>2
  <2>4. \A i \in DOMAIN answers' : answers'[i].reply.code = 200 => Shown
    BY <1>2, <2>1, <2>2, <2>3
  <2> QED
    BY <1>3, <2>2, <2>4 DEF KeyInv, PageNeedsKey, Shown
<1>8. CASE Break
  BY <1>4, <1>8 DEF Break
<1>9. CASE free_connection
  BY <1>4, <1>9 DEF free_connection
<1>10. CASE recycle_connection
  BY <1>4, <1>10 DEF recycle_connection
<1>11. CASE UNCHANGED vars
  BY <1>2, <1>3, <1>4, <1>11 DEF vars
<1> QED
  BY <1>5, <1>6, <1>7, <1>8, <1>9, <1>10, <1>11 DEF Next, Serve, Recv

\* Nobody gets a page who has not said the key in a field of his own, be it
\* in another request that was received with this one (password_equal,
\* parse_field's "Authorization:", process_request).
THEOREM NoPageWithoutKey == Spec => []PageNeedsKey
<1>1. Init => KeyInv
  BY DEF Init, KeyInv, PageNeedsKey
<1>2. KeyInv => PageNeedsKey
  BY DEF KeyInv
<1> QED
  BY <1>1, <1>2, KeyStep, TypeInvariant, PTL DEF Spec

-----------------------------------------------------------------------------
(***************************************************************************)
(* A client that waits: what has come is the text of his last request, and *)
(* a text that ends with an empty line is the whole of it.                 *)
(***************************************************************************)
Due == [s \in Sent |-> Answers(s.request, TextOf[s])]

DueText == IF Len(answers) = Len(sent) THEN <<>> ELSE TextOf[sent[Len(sent)]]

WaitInv ==
  ~pipelined =>
    /\ Len(answers) <= Len(sent) /\ Len(sent) <= Len(answers) + 1
    /\ \A i \in DOMAIN answers : answers[i] \in Due[sent[i]]
    /\ state = "RECV_REQUEST" => request \o wire = DueText
    /\ state = "SEND_HEADER" =>
         /\ Len(sent) = Len(answers) + 1
         /\ [reply |-> reply, close |-> conn_close] \in Due[sent[Len(sent)]]
         /\ ~conn_close => wire = <<>>
    /\ state = "DONE" /\ ~conn_close => wire = DueText

LEMMA WholeIsRead ==
  ASSUME NEW s \in Sent, NEW text \in Seq(Tokens), NEW rest \in Seq(Tokens), NEW piece,
         text \o rest = TextOf[s], Complete(text, piece)
  PROVE  text = TextOf[s] /\ rest = <<>>
<1> DEFINE all == text \o rest
           j == Len(text)
<1>1. /\ all \in Seq(Tokens) /\ Len(all) = j + Len(rest) /\ j \in Nat /\ Len(rest) \in Nat
      /\ \A i \in 1..j : all[i] = text[i]
  BY ConcatIs
<1>2. j >= 3 /\ ClosedAt(text, j)
  BY CompleteCloses
<1>3. all = TextOf[s]
  OBVIOUS
<1> HIDE DEF all
<1>4. ClosedAt(all, j)
  <2>1. j \in 1..j /\ j - 1 \in 1..j /\ j - 2 \in 1..j
    BY <1>1, <1>2
  <2>2. all[j] = text[j] /\ all[j - 1] = text[j - 1] /\ all[j - 2] = text[j - 2]
    BY <1>1, <2>1
  <2> QED
    BY <1>2, <2>2 DEF ClosedAt
<1>5. j = Len(all)
  <2>1. j \in 1..Len(all)
    BY <1>1, <1>2
  <2> QED
    BY <1>3, <1>4, <2>1, TextOfIs
<1>6. rest = <<>>
  <2>1. Len(rest) = 0
    BY <1>1, <1>5
  <2> QED
    BY <2>1
<1>7. all = text
  <2>1. text \o <<>> = text
    OBVIOUS
  <2> QED
    BY <1>6, <2>1 DEF all
<1> QED
  BY <1>3, <1>6, <1>7

LEMMA LongStaysLong ==
  ASSUME NEW text \in Seq(Tokens), NEW rest \in Seq(Tokens), TooLong(text)
  PROVE  TooLong(text \o rest)
<1> DEFINE all == text \o rest
<1>1. Len(all) = Len(text) + Len(rest) /\ Len(text) \in Nat /\ Len(rest) \in Nat
  BY ConcatIs
<1> HIDE DEF all
<1>2. Len(text) > MAX_REQUEST_LENGTH /\ MAX_REQUEST_LENGTH \in Nat
  BY RequestTextAssumption DEF TooLong
<1>3. TooLong(all)
  BY <1>1, <1>2 DEF TooLong
<1> QED
  BY <1>3 DEF all

\* What is read of the last text of a client that waits.
LEMMA ReplyIsDue ==
  ASSUME TypeOK, conn_close = TRUE, NEW s \in Sent,
         NEW text \in Seq(Tokens), NEW rest \in Seq(Tokens), NEW piece, text \o rest = TextOf[s]
  PROVE  LET p == parse_request(text)
         IN  /\ Complete(text, piece) => rest = <<>>
             /\ Complete(text, piece) =>
                  [reply |-> IF TooLong(text) THEN TooLarge(Reply(p).head) ELSE Reply(p),
                   close |-> ~p.good \/ p.close] \in Due[s]
             /\ TooLong(text) => [reply |-> TooLarge(FALSE), close |-> TRUE] \in Due[s]
<1> DEFINE p == parse_request(text)
           r == s.request
           close == ~p.good \/ p.close
<1>1. r \in Requests /\ s.end \in LineEnds /\ TextOf[s] = Text(r, s.end)
  BY TextOfIs
<1>2. Complete(text, piece) => text = TextOf[s] /\ rest = <<>>
  BY WholeIsRead
<1>3. options \in Options
  BY DEF TypeOK
<1>4. Due[s] = Answers(r, TextOf[s])
  BY DEF Due
<1>5. TooLong(text) => TooLong(TextOf[s])
  BY LongStaysLong
<1>6. TooLong(text) => [reply |-> TooLarge(FALSE), close |-> TRUE] \in Due[s]
  BY <1>4, <1>5 DEF Answers
<1>7. ASSUME Complete(text, piece)
      PROVE  [reply |-> IF TooLong(text) THEN TooLarge(Reply(p).head) ELSE Reply(p),
              close |-> close] \in Due[s]
  <2>1. text = Text(r, s.end) /\ text = TextOf[s]
    BY <1>1, <1>2, <1>7
  <2>2. /\ Reply(p) = Deserved(r)
        /\ close = (Malformed(r) \/ WantsClose(r) \/ ~options.want_keepalive)
    BY <1>1, <1>3, <2>1, ParsedAsAsked
  <2> HIDE DEF p, close, r
  <2> QED
    BY <1>4, <2>1, <2>2 DEF Answers
<1> QED
  BY <1>2, <1>6, <1>7 DEF p, close

LEMMA DueStays == options' = options => Due' = Due
<1> SUFFICES ASSUME options' = options PROVE Due' = Due
  OBVIOUS
<1>1. \A r : HasKey(r)' <=> HasKey(r)
  BY DEF HasKey
<1> QED
  BY <1>1 DEF Due, Answers, Deserved, HasKey

LEMMA WaitStep == TypeInv /\ WaitInv /\ [Next]_vars => WaitInv'
<1> SUFFICES ASSUME TypeInv, WaitInv, [Next]_vars, ~pipelined' PROVE WaitInv'
  BY DEF WaitInv
<1> DEFINE S == Len(sent)
           A == Len(answers)
<1>1. /\ TypeOK /\ Aligned
      /\ answers \in Seq(AnswerType) /\ sent \in Seq(Sent)
      /\ wire \in Seq(Tokens) /\ request \in Seq(Tokens)
      /\ A \in Nat /\ S \in Nat /\ DOMAIN answers = 1..A
  BY DEF TypeInv, Aligned
<1>2. options' = options /\ ~pipelined
  <2>1. ASSUME NEW r \in Requests, NEW end \in LineEnds, Send(r, end)
        PROVE  options' = options /\ ~pipelined
    BY <2>1 DEF Send
  <2>2. CASE UNCHANGED <<options, pipelined>>
    BY <2>2
  <2> QED
    BY <2>1, <2>2 DEF Next, Serve, Recv, poll_recv_request, poll_send, Break, free_connection,
                      recycle_connection, vars
<1>3. Due' = Due
  BY <1>2, DueStays
<1>4. /\ A <= S /\ S <= A + 1
      /\ \A i \in DOMAIN answers : answers[i] \in Due[sent[i]]
      /\ state = "RECV_REQUEST" => request \o wire = DueText
      /\ state = "SEND_HEADER" =>
           /\ S = A + 1
           /\ [reply |-> reply, close |-> conn_close] \in Due[sent[S]]
           /\ ~conn_close => wire = <<>>
      /\ state = "DONE" /\ ~conn_close => wire = DueText
  BY <1>2 DEF WaitInv
<1>5. ASSUME NEW r \in Requests, NEW end \in LineEnds, Send(r, end) PROVE WaitInv'
  <2> DEFINE s == [request |-> r, end |-> end]
             t == TextOf[s]
  <2>1. s \in Sent /\ t = Text(r, end) /\ t \in Seq(Tokens)
    <3>1. s \in Sent
      BY DEF Sent
    <3> QED
      BY <3>1, TextOfIs
  <2>2. /\ sent' = Append(sent, s) /\ wire' = wire \o t
        /\ UNCHANGED <<request, conn_close, state, reply, answers>>
        /\ ~ (A < S)
    BY <1>5, <2>1 DEF Send
  <2> HIDE DEF s, t
  <2>3. A = S
    BY <1>1, <1>4, <2>2
  <2>4. /\ Len(sent') = S + 1 /\ sent'[S + 1] = s
        /\ \A i \in 1..S : sent'[i] = sent[i]
    BY <1>1, <2>1, <2>2
  <2>5. DueText = <<>> /\ DueText' = t
    <3>1. Len(sent') # Len(answers')
      <4>1. Len(sent') = S + 1 /\ Len(answers') = S /\ S \in Nat
        BY <1>1, <2>2, <2>3, <2>4
      <4> HIDE DEF S
      <4> QED
        BY <4>1
    <3>2. TextOf[sent'[Len(sent')]] = t
      BY <2>4 DEF t
    <3> QED
      BY <2>3, <3>1, <3>2 DEF DueText
  <2>6. \A i \in DOMAIN answers' : answers'[i] \in Due'[sent'[i]]
    BY <1>1, <1>3, <1>4, <2>2, <2>3, <2>4
  <2>7. state # "SEND_HEADER"
    <3>1. (state = "SEND_HEADER" => S = A + 1) /\ A = S /\ S \in Nat
      BY <1>1, <1>4, <2>3
    <3> HIDE DEF S, A
    <3> QED
      BY <3>1
  <2>8. <<>> \o t = t /\ request \o (wire \o t) = (request \o wire) \o t
    <3>1. request \in Seq(Tokens) /\ wire \in Seq(Tokens) /\ t \in Seq(Tokens)
      BY <1>1, <2>1
    <3>2. (request \o wire) \o t = request \o (wire \o t)
      BY <3>1, ConcatAssociative
    <3>3. <<>> \o t = t
      BY <3>1
    <3> QED
      BY <3>2, <3>3
  <2>9. state' = "RECV_REQUEST" => request' \o wire' = DueText'
    BY <1>4, <2>2, <2>5, <2>8
  <2>10. state' = "DONE" /\ ~conn_close' => wire' = DueText'
    BY <1>4, <2>2, <2>5, <2>8
  <2>11. Len(answers') <= Len(sent') /\ Len(sent') <= Len(answers') + 1
    BY <1>1, <2>2, <2>3, <2>4
  <2> QED
    BY <2>2, <2>6, <2>7, <2>9, <2>10, <2>11 DEF WaitInv
<1>6. ASSUME NEW n \in 1..Len(wire), poll_recv_request(n) PROVE WaitInv'
  <2> DEFINE piece == SubSeq(wire, 1, n)
             text == request \o piece
             rest == SubSeq(wire, n + 1, Len(wire))
             p == parse_request(text)
             close == ~p.good \/ p.close
             answer == Reply(p)
             s == sent[S]
  <2>1. /\ state = "RECV_REQUEST" /\ UNCHANGED <<options, sent, pipelined, answers>>
        /\ request' = text /\ wire' = rest
        /\ conn_close' = IF Complete(text, piece) THEN close ELSE conn_close
        /\ state' = IF Complete(text, piece) \/ TooLong(text) THEN "SEND_HEADER" ELSE state
        /\ reply' = IF TooLong(text)
                      THEN TooLarge(IF Complete(text, piece) THEN answer.head ELSE FALSE)
                    ELSE IF Complete(text, piece) THEN answer ELSE reply
    BY <1>6 DEF poll_recv_request
  <2>2. /\ text \in Seq(Tokens) /\ rest \in Seq(Tokens) /\ text # <<>>
        /\ text \o rest = request \o wire
    BY <1>1, PieceIs
  <2>3. conn_close = TRUE
    BY <1>1, <2>1 DEF Aligned
  <2>4. text \o rest # <<>>
    <3> HIDE DEF text, rest
    <3>1. Len(text \o rest) = Len(text) + Len(rest) /\ Len(text) \in Nat /\ Len(rest) \in Nat
      BY <2>2, ConcatIs
    <3>2. Len(text) # 0
      BY <2>2
    <3>3. Len(text \o rest) # 0
      BY <3>1, <3>2
    <3> QED
      BY <3>3
  <2> HIDE DEF text, rest, piece
  <2>5. S = A + 1 /\ text \o rest = TextOf[s] /\ s \in Sent
    <3>1. text \o rest = DueText
      BY <1>4, <2>1, <2>2
    <3>2. A # S
      BY <2>4, <3>1 DEF DueText
    <3>3. S = A + 1
      BY <1>1, <1>4, <3>2
    <3>4. S \in 1..S
      BY <1>1, <3>3
    <3>5. s \in Sent
      BY <1>1, <3>4
    <3>6. DueText = TextOf[s]
      BY <3>2 DEF DueText
    <3> QED
      BY <3>1, <3>3, <3>5, <3>6
  <2>6. s' = s /\ DueText' = DueText
    BY <2>1 DEF DueText
  <2> HIDE DEF s
  <2>7. /\ Complete(text, piece) => rest = <<>>
        /\ Complete(text, piece) =>
             [reply |-> IF TooLong(text) THEN TooLarge(answer.head) ELSE answer,
              close |-> close] \in Due[s]
        /\ TooLong(text) => [reply |-> TooLarge(FALSE), close |-> TRUE] \in Due[s]
    BY <1>1, <2>2, <2>3, <2>5, ReplyIsDue
  <2> HIDE DEF close, answer
  <2>8. state' = "SEND_HEADER" =>
          /\ [reply |-> reply', close |-> conn_close'] \in Due[s]
          /\ ~conn_close' => wire' = <<>>
    <3>1. CASE Complete(text, piece)
      BY <2>1, <2>7, <3>1
    <3>2. CASE ~Complete(text, piece)
      BY <2>1, <2>3, <2>7, <3>2
    <3> QED
      BY <3>1, <3>2
  <2>9. state' = "RECV_REQUEST" => request' \o wire' = DueText'
    BY <1>4, <2>1, <2>2, <2>6
  <2>10. \A i \in DOMAIN answers' : answers'[i] \in Due'[sent'[i]]
    BY <1>3, <1>4, <2>1
  <2>11. state' # "DONE" /\ Len(answers') = A /\ Len(sent') = S
    BY <2>1
  <2>12. sent'[Len(sent')] = s
    BY <2>1 DEF s
  <2> HIDE DEF S, A
  <2> QED
    BY <1>3, <1>4, <2>5, <2>8, <2>9, <2>10, <2>11, <2>12 DEF WaitInv
<1>7. CASE poll_send
  <2> DEFINE a == [reply |-> reply, close |-> conn_close]
  <2>1. /\ state = "SEND_HEADER" /\ state' = "DONE" /\ answers' = Append(answers, a)
        /\ UNCHANGED <<sent, wire, conn_close>>
    BY <1>7 DEF poll_send
  <2>2. a \in AnswerType
    BY <1>1, <2>1 DEF AnswerType, TypeOK
  <2>3. S = A + 1 /\ a \in Due[sent[S]] /\ (~conn_close => wire = <<>>)
    BY <1>4, <2>1
  <2> HIDE DEF a
  <2>4. /\ Len(answers') = A + 1 /\ answers'[A + 1] = a /\ DOMAIN answers' = 1..(A + 1)
        /\ \A i \in 1..A : answers'[i] = answers[i]
    BY <1>1, <2>1, <2>2
  <2>5. \A i \in DOMAIN answers' : answers'[i] \in Due'[sent'[i]]
    <3> TAKE i \in DOMAIN answers'
    <3>1. CASE i = A + 1
      BY <1>3, <2>1, <2>3, <2>4, <3>1
    <3>2. CASE i # A + 1
      <4>1. i \in 1..A
        BY <1>1, <2>4, <3>2
      <4> QED
        BY <1>1, <1>3, <1>4, <2>1, <2>4, <4>1
    <3> QED
      BY <3>1, <3>2
  <2>6. DueText' = <<>>
    BY <2>1, <2>3, <2>4 DEF DueText
  <2>7. Len(answers') <= Len(sent') /\ Len(sent') <= Len(answers') + 1
    BY <1>1, <2>1, <2>3, <2>4
  <2> QED
    BY <2>1, <2>3, <2>5, <2>6, <2>7 DEF WaitInv
<1>8. CASE Break
  <2>1. state' = "DONE" /\ conn_close' = TRUE /\ UNCHANGED <<sent, answers>>
    BY <1>8 DEF Break
  <2> QED
    BY <1>3, <1>4, <2>1 DEF WaitInv
<1>9. CASE free_connection
  <2>1. state' = "closed" /\ UNCHANGED <<sent, answers>>
    BY <1>9 DEF free_connection
  <2> QED
    BY <1>3, <1>4, <2>1 DEF WaitInv
<1>10. CASE recycle_connection
  <2>1. /\ state = "DONE" /\ ~conn_close /\ state' = "RECV_REQUEST" /\ request' = <<>>
        /\ UNCHANGED <<sent, wire, answers>>
    BY <1>10 DEF recycle_connection
  <2>2. <<>> \o wire = wire
    BY <1>1
  <2>3. request' \o wire' = DueText'
    BY <1>4, <2>1, <2>2 DEF DueText
  <2> QED
    BY <1>3, <1>4, <2>1, <2>3 DEF WaitInv
<1>11. CASE UNCHANGED vars
  <2>1. UNCHANGED <<sent, wire, request, conn_close, state, reply, answers>>
    BY <1>11 DEF vars
  <2>2. DueText' = DueText
    BY <2>1 DEF DueText
  <2> QED
    BY <1>3, <1>4, <2>1, <2>2 DEF WaitInv
<1> QED
  BY <1>5, <1>6, <1>7, <1>8, <1>9, <1>10, <1>11 DEF Next, Serve, Recv

LEMMA WaitAnswers == TypeInv /\ WaitInv => EachAnsweredAsAsked
<1> SUFFICES ASSUME TypeInv, WaitInv, ~pipelined
             PROVE  /\ Len(answers) <= Len(sent)
                    /\ \A i \in DOMAIN answers :
                         answers[i] \in Answers(sent[i].request, SentText(i))
  BY DEF EachAnsweredAsAsked
<1>1. /\ answers \in Seq(AnswerType) /\ sent \in Seq(Sent)
      /\ Len(answers) <= Len(sent)
      /\ \A i \in DOMAIN answers : answers[i] \in Due[sent[i]]
  BY DEF TypeInv, Aligned, WaitInv
<1>2. ASSUME NEW i \in DOMAIN answers
      PROVE  answers[i] \in Answers(sent[i].request, SentText(i))
  <2>1. sent[i] \in Sent
    BY <1>1
  <2>2. SentText(i) = TextOf[sent[i]]
    BY <2>1, TextOfIs DEF SentText
  <2> QED
    BY <1>1, <2>1, <2>2 DEF Due
<1> QED
  BY <1>1, <1>2

\* A client that waits for its answers gets one for every request, in order:
\* the one this request deserves by its own line and fields, however its text
\* is cut, whatever came before it, and kept open only if it asked for that.
\* Over the limit that is 413, with its page unless a HEAD was read whole
\* (poll_recv_request, parse_request, process_request, recycle_connection).
THEOREM AnswersAreAsAsked == Spec => []EachAnsweredAsAsked
<1>1. Init => WaitInv
  <2> SUFFICES ASSUME Init PROVE WaitInv
    OBVIOUS
  <2>1. /\ sent = <<>> /\ answers = <<>> /\ request = <<>> /\ wire = <<>>
        /\ state = "RECV_REQUEST"
    BY DEF Init
  <2>2. DueText = <<>> /\ request \o wire = <<>>
    BY <2>1 DEF DueText
  <2>3. Len(answers) = 0 /\ Len(sent) = 0 /\ DOMAIN answers = {}
    BY <2>1
  <2> QED
    BY <2>1, <2>2, <2>3 DEF WaitInv
<1> QED
  BY <1>1, WaitStep, WaitAnswers, TypeInvariant, PTL DEF Spec

=============================================================================
