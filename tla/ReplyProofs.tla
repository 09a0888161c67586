------------------------------ MODULE ReplyProofs ------------------------------
(***************************************************************************)
(* Proofs about one reply, for contents of any length and tokens in any     *)
(* order, objects of any shape and bios of any length: what _parse_output   *)
(* reads, that the clean-up of a bio keeps its words and leaves nothing it  *)
(* removes, and for what a repaired bio is still rejected.                  *)
(*                                                                          *)
(* Each rewrite is shown to keep an order-preserving map from the           *)
(* characters it leaves to those they stand for (Keeps, Thins); what one    *)
(* pass must have done by then is an invariant over the number of rewrites  *)
(* made (Repaired, Tidied).                                                 *)
(***************************************************************************)
EXTENDS Reply, FoldProofs, FunctionTheorems

\* Among some numbers with a bound there is a greatest one.
LEMMA GreatestNat ==
    ASSUME NEW n \in Nat, NEW S \in SUBSET (1 .. n), S # {}
    PROVE  \E m \in S : \A k \in S : k <= m
<1> DEFINE C == {n - k : k \in S}
<1>1. C \in SUBSET Nat /\ C # {}
  <2>1. \A k \in S : n - k \in Nat
    OBVIOUS
  <2> QED BY <2>1
<1>2. PICK c \in C : \A k \in C : c <= k
  <2> HIDE DEF C
  <2> QED BY <1>1, LeastNat
<1>3. PICK m \in S : c = n - m
  BY <1>2
<1>4. ASSUME NEW k \in S PROVE k <= m
  <2>1. c <= n - k
    BY <1>2
  <2> QED BY <1>3, <2>1
<1> QED BY <1>4

-----------------------------------------------------------------------------
(* _parse_output *)

\* The content without its fences: c from the token after position s on, n
\* tokens long.
Inner(c, s, n) ==
    /\ s \in {0, 1} /\ n \in Nat /\ s + n <= Len(c)
    /\ Len(Unfenced(c)) = n /\ \A k \in 1 .. n : Unfenced(c)[k] = c[s + k]
    /\ \A k \in 1 .. Len(c) : k <= s \/ k > s + n => c[k].is = "fence"

LEMMA UnfencedIs ==
    ASSUME NEW T, NEW c \in Seq(T)
    PROVE  Unfenced(c) \in Seq(T) /\ \E s, n : Inner(c, s, n)
<1>0. PICK tail : tail = IF c # <<>> /\ Is(c, 1, {"fence"}) THEN Tail(c) ELSE c
  OBVIOUS
<1>1. Unfenced(c) = IF tail # <<>> /\ Is(tail, Len(tail), {"fence"}) THEN Front(tail) ELSE tail
  BY <1>0 DEF Unfenced
<1>2. PICK s \in {0, 1} : /\ tail \in Seq(T) /\ s + Len(tail) = Len(c)
                          /\ \A k \in 1 .. Len(tail) : tail[k] = c[s + k]
                          /\ s = 1 => c[1].is = "fence"
  <2>1. CASE c # <<>> /\ Is(c, 1, {"fence"})
    <3>1. tail = Tail(c)
      BY <1>0, <2>1
    <3>2. c[1].is = "fence"
      BY <2>1 DEF Is
    <3>3. /\ Tail(c) \in Seq(T) /\ 1 + Len(Tail(c)) = Len(c)
          /\ \A k \in 1 .. Len(Tail(c)) : Tail(c)[k] = c[1 + k]
      BY <2>1
    <3> QED BY <3>1, <3>2, <3>3
  <2>2. CASE ~(c # <<>> /\ Is(c, 1, {"fence"}))
    <3>1. tail = c
      BY <1>0, <2>2
    <3>2. 0 + Len(c) = Len(c) /\ \A k \in 1 .. Len(c) : c[k] = c[0 + k]
      OBVIOUS
    <3>3. 0 + Len(tail) = Len(c) /\ \A k \in 1 .. Len(tail) : tail[k] = c[0 + k]
      BY <3>1, <3>2
    <3>4. /\ 0 \in {0, 1} /\ tail \in Seq(T) /\ 0 + Len(tail) = Len(c)
          /\ \A k \in 1 .. Len(tail) : tail[k] = c[0 + k]
          /\ 0 = 1 => c[1].is = "fence"
      BY <3>1, <3>3
    <3> QED BY <3>4
  <2> QED BY <2>1, <2>2
<1>3. CASE tail # <<>> /\ Is(tail, Len(tail), {"fence"})
  <2>1. Len(tail) \in Nat \ {0} /\ tail[Len(tail)].is = "fence"
    BY <1>2, <1>3 DEF Is
  <2>2. Unfenced(c) = SubSeq(tail, 1, Len(tail) - 1)
    BY <1>1, <1>3 DEF Front
  <2>3. PICK n \in Nat : n = Len(tail) - 1
    BY <2>1
  <2>4. /\ SubSeq(tail, 1, n) \in Seq(T) /\ Len(SubSeq(tail, 1, n)) = n
        /\ \A k \in 1 .. n : SubSeq(tail, 1, n)[k] = tail[k]
    BY <1>2, <2>1, <2>3
  <2>5. \A k \in 1 .. n : tail[k] = c[s + k]
    BY <1>2, <2>1, <2>3
  <2>6. c[Len(c)].is = "fence" /\ Len(c) = s + n + 1
    BY <1>2, <2>1, <2>3
  <2>7. \A k \in 1 .. Len(c) : k <= s \/ k > s + n => c[k].is = "fence"
    BY <1>2, <2>6
  <2>8. Inner(c, s, n)
    BY <1>2, <2>2, <2>3, <2>4, <2>5, <2>6, <2>7 DEF Inner
  <2> QED BY <2>2, <2>3, <2>4, <2>8
<1>4. CASE ~(tail # <<>> /\ Is(tail, Len(tail), {"fence"}))
  <2>1. Unfenced(c) = tail /\ Len(tail) \in Nat
    BY <1>1, <1>2, <1>4
  <2>2. \A k \in 1 .. Len(c) : k <= s \/ k > s + Len(tail) => c[k].is = "fence"
    BY <1>2
  <2>3. Inner(c, s, Len(tail))
    BY <1>2, <2>1, <2>2 DEF Inner
  <2> QED BY <1>2, <2>1, <2>3
<1> QED BY <1>3, <1>4

\* The slice between the braces: c from p to q, the first that opens and the
\* last that closes.
Between(c, p, q) ==
    /\ p \in Openings(c) /\ q \in Closings(c)
    /\ \A i \in Openings(c) : p <= i
    /\ \A i \in Closings(c) : i <= q
    /\ Braced(c) = SubSeq(c, p, q)

LEMMA BracedIs ==
    ASSUME NEW T, NEW c \in Seq(T)
    PROVE  Braced(c) = <<>> \/ \E p, q \in 1 .. Len(c) : Between(c, p, q)
<1> SUFFICES ASSUME Braced(c) # <<>>
             PROVE  \E p, q \in 1 .. Len(c) : Between(c, p, q)
  OBVIOUS
<1>1. PICK O, S : O = Openings(c) /\ S = Closings(c)
  OBVIOUS
<1>2. O # {} /\ S # {} /\ Braced(c) = SubSeq(c, Min(O), Max(S))
  BY <1>1 DEF Braced
<1>3. PICK n \in Nat : n = Len(c) /\ DOMAIN c = 1 .. n
  OBVIOUS
<1>4. O \in SUBSET (1 .. n) /\ S \in SUBSET (1 .. n)
  BY <1>1, <1>3 DEF Openings, Closings
<1>5. PICK p \in O : \A k \in O : p <= k
  <2>1. O \in SUBSET Nat
    BY <1>4
  <2> QED BY <1>2, <2>1, LeastNat
<1>6. PICK q \in S : \A k \in S : k <= q
  BY <1>2, <1>4, GreatestNat
<1>7. p \in 1 .. n /\ q \in 1 .. n
  BY <1>4, <1>5, <1>6
<1>8. Min(O) = p
  <2>1. \A x \in O : (\A y \in O : x <= y) => x = p
    BY <1>4, <1>5
  <2> QED BY <1>5, <2>1 DEF Min
<1>9. Max(S) = q
  <2>1. S \in SUBSET Nat
    BY <1>4
  <2> QED BY <1>6, <2>1, MaxIs
<1>10. Between(c, p, q)
  BY <1>1, <1>2, <1>5, <1>6, <1>8, <1>9 DEF Between
<1> QED BY <1>3, <1>7, <1>10

LEMMA TokenIs == \A k : Token(k).is = k
BY DEF Token

\* What the tokens of c can be the JSON text of.
LEMMA JsonCases ==
    ASSUME NEW T, NEW c \in Seq(T)
    PROVE  \/ Len(c) = 1 /\ c[1].is \in {"object", "scalar"} /\ Json(c) = c[1]
           \/ /\ Len(c) = 2 /\ c[1] = Token("lbrace") /\ c[2] = Token("rbrace")
              /\ Json(c) = EmptyObject
           \/ Len(c) # 1 /\ Json(c) = Token("list")
           \/ /\ Json(c) = Nothing
              /\ ~(Len(c) = 1 /\ c[1].is \in {"object", "scalar"})
<1>0. PICK L \in Nat : L = Len(c)
  OBVIOUS
<1>1. PICK two : two = <<Token("lbrace"), Token("rbrace")>>
  OBVIOUS
<1>2. Len(two) = 2 /\ two[1] = Token("lbrace") /\ two[2] = Token("rbrace")
  BY <1>1
<1>3. CASE Len(c) = 1 /\ Is(c, 1, {"object", "scalar"})
  <2>1. c # two /\ ~(Len(c) > 1)
    BY <1>0, <1>2, <1>3
  <2>2. Json(c) = c[1]
    BY <1>1, <1>3, <2>1 DEF Json
  <2> QED BY <1>3, <2>2 DEF Is
<1>4. CASE c = two
  <2>1. Len(c) = 2 /\ c[1] = Token("lbrace") /\ c[2] = Token("rbrace")
    BY <1>2, <1>4
  <2>2. ~Is(c, 1, {"lbracket"})
    BY <2>1, TokenIs DEF Is
  <2>2a. ~(Len(c) = 1)
    BY <2>1
  <2>3. Json(c) = EmptyObject
    BY <1>1, <1>4, <2>2, <2>2a DEF Json
  <2> QED BY <2>1, <2>3
<1>5. CASE /\ ~(Len(c) = 1 /\ Is(c, 1, {"object", "scalar"})) /\ c # two
  <2>1. \/ Json(c) = Token("list") /\ Len(c) > 1
        \/ Json(c) = Nothing
    BY <1>1, <1>5 DEF Json
  <2>2. Len(c) > 1 => Len(c) # 1
    BY <1>0
  <2> QED BY <1>5, <2>1, <2>2 DEF Is
<1> QED BY <1>3, <1>4, <1>5

\* What is read is the object of c's tokens it is said to be read from, or an
\* empty one between two braces of c.
LEMMA JsonObject ==
    ASSUME NEW T, NEW c \in Seq(T), Json(c).is = "object"
    PROVE  \/ Len(c) = 1 /\ Json(c) = c[1]
           \/ /\ Len(c) = 2 /\ c[1].is = "lbrace" /\ c[2].is = "rbrace"
              /\ Json(c) = EmptyObject
BY JsonCases, TokenIs DEF Nothing

\* Where what was read stands in c, and what is around it.
Stands(c, i, j, o) ==
    /\ \/ i = j /\ c[i] = o
       \/ j = i + 1 /\ c[i].is = "lbrace" /\ c[j].is = "rbrace" /\ o = EmptyObject
    /\ \A h \in 1 .. i - 1 : c[h].is \notin {"lbrace", "object"}
    /\ \A h \in j + 1 .. Len(c) : c[h].is \notin {"rbrace", "object"}

LEMMA BracedObject ==
    ASSUME NEW T, NEW c \in Seq(T), Json(Braced(c)).is = "object"
    PROVE  \E i, j \in 1 .. Len(c) : Stands(c, i, j, Json(Braced(c)))
<1>0. PICK L \in Nat : L = Len(c) /\ DOMAIN c = 1 .. L
  OBVIOUS
<1>1. PICK b : b = Braced(c)
  OBVIOUS
<1>2. b # <<>>
  <2>1. SUFFICES ASSUME b = <<>> PROVE FALSE
    OBVIOUS
  <2>2. b \in Seq(T) /\ Len(b) = 0
    BY <2>1
  <2>3. Json(b).is = "object"
    BY <1>1
  <2>4. Len(b) = 1 \/ Len(b) = 2
    BY <2>2, <2>3, JsonObject
  <2> QED BY <2>2, <2>4
<1>3. PICK p, q \in 1 .. L : Between(c, p, q)
  BY <1>0, <1>1, <1>2, BracedIs
<1>4. b = SubSeq(c, p, q)
  BY <1>1, <1>3 DEF Between
<1>5. b \in Seq(T)
  BY <1>0, <1>4
<1>6. Len(b) = (IF p <= q THEN q - p + 1 ELSE 0) /\ \A k \in 1 .. Len(b) : b[k] = c[p + k - 1]
  BY <1>0, <1>4
<1>7. \/ Len(b) = 1 /\ Json(b) = b[1]
      \/ Len(b) = 2 /\ b[1].is = "lbrace" /\ b[2].is = "rbrace" /\ Json(b) = EmptyObject
  BY <1>1, <1>5, JsonObject
<1>8. \A h \in 1 .. p - 1 : c[h].is \notin {"lbrace", "object"}
  <2> TAKE h \in 1 .. p - 1
  <2>1. h \in DOMAIN c /\ ~(p <= h)
    BY <1>0
  <2> QED BY <1>3, <2>1 DEF Between, Openings, Is
<1>9. \A h \in q + 1 .. Len(c) : c[h].is \notin {"rbrace", "object"}
  <2> TAKE h \in q + 1 .. Len(c)
  <2>1. h \in DOMAIN c /\ ~(h <= q)
    BY <1>0
  <2> QED BY <1>3, <2>1 DEF Between, Closings, Is
<1>10. CASE Len(b) = 1 /\ Json(b) = b[1]
  <2>0. p + 1 - 1 = p /\ 1 \in 1 .. 1
    OBVIOUS
  <2>1. p = q /\ b[1] = c[p]
    <3>0. 1 = IF p <= q THEN q - p + 1 ELSE 0
      BY <1>6, <1>10
    <3>1. p = q
      BY <3>0
    <3> QED BY <1>6, <1>10, <2>0, <3>1
  <2>2. Stands(c, p, q, Json(b))
    BY <1>8, <1>9, <1>10, <2>1 DEF Stands
  <2> QED BY <1>0, <1>1, <2>2
<1>11. CASE Len(b) = 2 /\ b[1].is = "lbrace" /\ b[2].is = "rbrace" /\ Json(b) = EmptyObject
  <2>0. p + 1 - 1 = p /\ p + 2 - 1 = p + 1 /\ 1 \in 1 .. 2 /\ 2 \in 1 .. 2
    OBVIOUS
  <2>1. q = p + 1 /\ b[1] = c[p] /\ b[2] = c[q]
    <3>0. 2 = IF p <= q THEN q - p + 1 ELSE 0
      BY <1>6, <1>11
    <3>1. q = p + 1
      BY <3>0
    <3> QED BY <1>6, <1>11, <2>0, <3>1
  <2>2. Stands(c, p, q, Json(b))
    BY <1>8, <1>9, <1>11, <2>1 DEF Stands
  <2> QED BY <1>0, <1>1, <2>2
<1> QED BY <1>7, <1>10, <1>11

\* What stands in the content without its fences stands in the content.
LEMMA StandsInner ==
    ASSUME NEW T, NEW c \in Seq(T), NEW s, NEW n, Inner(c, s, n), NEW o,
           NEW i \in 1 .. n, NEW j \in 1 .. n, Stands(Unfenced(c), i, j, o)
    PROVE  s + i \in 1 .. Len(c) /\ s + j \in 1 .. Len(c) /\ Stands(c, s + i, s + j, o)
<1>1. PICK L \in Nat : L = Len(c)
  OBVIOUS
<1>2. /\ s \in {0, 1} /\ n \in Nat /\ s + n <= L /\ Len(Unfenced(c)) = n
      /\ \A k \in 1 .. n : Unfenced(c)[k] = c[s + k]
      /\ \A k \in 1 .. L : k <= s \/ k > s + n => c[k].is = "fence"
  BY <1>1 DEF Inner
<1>3. s + i \in 1 .. L /\ s + j \in 1 .. L
  BY <1>2
<1>4. \/ s + i = s + j /\ c[s + i] = o
      \/ /\ s + j = (s + i) + 1 /\ o = EmptyObject
         /\ c[s + i].is = "lbrace" /\ c[s + j].is = "rbrace"
  <2>1. \/ i = j /\ Unfenced(c)[i] = o
        \/ /\ j = i + 1 /\ o = EmptyObject
           /\ Unfenced(c)[i].is = "lbrace" /\ Unfenced(c)[j].is = "rbrace"
    BY DEF Stands
  <2>2. Unfenced(c)[i] = c[s + i] /\ Unfenced(c)[j] = c[s + j]
    BY <1>2
  <2>3. j = i + 1 => s + j = (s + i) + 1
    BY <1>2
  <2> QED BY <2>1, <2>2, <2>3
<1>5. ASSUME NEW h \in 1 .. (s + i) - 1
      PROVE  c[h].is \notin {"lbrace", "object"}
  <2>1. CASE h <= s
    <3>1. c[h].is = "fence"
      BY <1>2, <1>3, <2>1
    <3> QED BY <3>1
  <2>2. CASE h > s
    <3>0. h - s \in 1 .. i - 1 /\ h = s + (h - s)
      BY <1>2, <2>2, SMTT(30)
    <3>1. PICK k \in 1 .. i - 1 : h = s + k
      BY <3>0
    <3>2. k \in 1 .. n /\ Unfenced(c)[k].is \notin {"lbrace", "object"}
      BY <1>2, <3>1 DEF Stands
    <3> QED BY <1>2, <3>1, <3>2
  <2> QED BY <1>2, <2>1, <2>2
<1>6. ASSUME NEW h \in (s + j) + 1 .. L
      PROVE  c[h].is \notin {"rbrace", "object"}
  <2>1. CASE h > s + n
    <3>1. c[h].is = "fence"
      BY <1>2, <1>3, <2>1
    <3> QED BY <3>1
  <2>2. CASE h <= s + n
    <3>0. h - s \in j + 1 .. n /\ h = s + (h - s)
      BY <1>1, <1>2, <2>2, SMTT(30)
    <3>1. PICK k \in j + 1 .. n : h = s + k
      BY <3>0
    <3>2. k \in 1 .. n /\ Unfenced(c)[k].is \notin {"rbrace", "object"}
      BY <1>2, <3>1 DEF Stands
    <3> QED BY <1>2, <3>1, <3>2
  <2> QED BY <1>2, <2>1, <2>2
<1>7. Stands(c, s + i, s + j, o)
  BY <1>1, <1>4, <1>5, <1>6 DEF Stands
<1> QED BY <1>1, <1>3, <1>7

LEMMA LoadsObject ==
    ASSUME NEW T, NEW c \in Seq(T), Loads(c).is = "object"
    PROVE  \E i, j \in 1 .. Len(c) : Stands(c, i, j, Loads(c))
<1>1. PICK u \in Seq(T) : u = Unfenced(c)
  BY UnfencedIs
<1>2. PICK s, n : Inner(c, s, n)
  BY UnfencedIs
<1>3. n \in Nat /\ Len(u) = n
  BY <1>1, <1>2 DEF Inner
<1>4. \E i, j \in 1 .. n : Stands(u, i, j, Loads(c))
  <2>1. CASE Json(u) # Nothing
    <3>1. Loads(c) = Json(u)
      BY <1>1, <2>1 DEF Loads
    <3>2. CASE Len(u) = 1 /\ Json(u) = u[1]
      <4>1. Stands(u, 1, 1, Loads(c)) /\ 1 \in 1 .. n
        BY <1>3, <3>1, <3>2 DEF Stands
      <4> QED BY <4>1
    <3>3. CASE Len(u) = 2 /\ u[1].is = "lbrace" /\ u[2].is = "rbrace" /\ Json(u) = EmptyObject
      <4>1. Stands(u, 1, 2, Loads(c)) /\ 1 \in 1 .. n /\ 2 \in 1 .. n
        BY <1>3, <3>1, <3>3 DEF Stands
      <4> QED BY <4>1
    <3> QED BY <3>1, <3>2, <3>3, JsonObject
  <2>2. CASE Json(u) = Nothing
    <3>1. Loads(c) = Json(Braced(u))
      BY <1>1, <2>2 DEF Loads
    <3> QED BY <1>3, <3>1, BracedObject
  <2> QED BY <2>1, <2>2
<1>5. PICK i, j \in 1 .. n : Stands(u, i, j, Loads(c))
  BY <1>4
<1>6. s + i \in 1 .. Len(c) /\ s + j \in 1 .. Len(c) /\ Stands(c, s + i, s + j, Loads(c))
  BY <1>1, <1>2, <1>5, StandsInner
<1> QED BY <1>6

\* The only object of a content without single braces is read, or a list of it.
LEMMA LoadsOnlyObject ==
    ASSUME NEW T, NEW c \in Seq(T), NEW p \in 1 .. Len(c), c[p].is = "object",
           \A i \in 1 .. Len(c) : c[i].is = "object" => i = p,
           \A i \in 1 .. Len(c) : c[i].is \notin {"lbrace", "rbrace"}
    PROVE  Loads(c) \in {c[p], Token("list")}
<1>1. PICK u \in Seq(T) : u = Unfenced(c)
  BY UnfencedIs
<1>2. PICK s, n : Inner(c, s, n)
  BY UnfencedIs
<1>3. PICK L \in Nat : L = Len(c)
  OBVIOUS
<1>4. /\ s \in {0, 1} /\ n \in Nat /\ s + n <= L /\ Len(u) = n
      /\ \A k \in 1 .. n : u[k] = c[s + k]
      /\ \A k \in 1 .. L : k <= s \/ k > s + n => c[k].is = "fence"
  BY <1>1, <1>2, <1>3 DEF Inner
<1>5. PICK r \in 1 .. n : s + r = p
  <2>1. ~(p <= s \/ p > s + n)
    <3>1. "object" # "fence"
      OBVIOUS
    <3> QED BY <1>3, <1>4, <3>1
  <2>2. p - s \in 1 .. n /\ s + (p - s) = p
    BY <1>3, <1>4, <2>1
  <2> QED BY <2>2
<1>6. u[r] = c[p] /\ \A k \in 1 .. n : u[k].is \notin {"lbrace", "rbrace"}
  <2>1. \A k \in 1 .. n : s + k \in 1 .. L
    BY <1>3, <1>4
  <2> QED BY <1>3, <1>4, <1>5, <2>1
<1>7. \A k \in 1 .. n : u[k].is = "object" => k = r
  <2> TAKE k \in 1 .. n
  <2> HAVE u[k].is = "object"
  <2>1. s + k \in 1 .. L /\ c[s + k].is = "object"
    BY <1>3, <1>4
  <2>2. s + k = p
    BY <1>3, <2>1
  <2> QED BY <1>4, <1>5, <2>2
<1>8. CASE Json(u) = Nothing
  <2>1. Loads(c) = Json(Braced(u))
    BY <1>1, <1>8 DEF Loads
  <2>2. DOMAIN u = 1 .. n
    BY <1>4
  <2>3. Openings(u) = {r} /\ Closings(u) = {r}
    BY <1>6, <1>7, <2>2 DEF Openings, Closings, Is
  <2>4. Min({r}) = r /\ Max({r}) = r
    <3>1. \A x \in {r} : x = r /\ r <= r /\ r >= r
      OBVIOUS
    <3> QED BY <3>1 DEF Min, Max
  <2>5. Braced(u) = SubSeq(u, r, r)
    BY <2>3, <2>4 DEF Braced
  <2>6. SubSeq(u, r, r) \in Seq(T) /\ Len(SubSeq(u, r, r)) = 1 /\ SubSeq(u, r, r)[1] = u[r]
    BY <1>4
  <2>7. PICK b \in Seq(T) : b = Braced(u) /\ Len(b) = 1 /\ b[1] = c[p]
    BY <1>6, <2>5, <2>6
  <2>8. Json(b) = b[1]
    BY <2>7, JsonCases
  <2> QED BY <2>1, <2>7, <2>8
<1>9. CASE Json(u) # Nothing
  <2>1. Loads(c) = Json(u)
    BY <1>1, <1>9 DEF Loads
  <2>2. CASE Len(u) = 1 /\ Json(u) = u[1]
    <3>1. r = 1
      BY <1>4, <2>2
    <3> QED BY <1>6, <2>1, <2>2, <3>1
  <2>3. CASE Len(u) = 2 /\ u[1] = Token("lbrace")
    <3>1. 1 \in 1 .. n /\ u[1].is = "lbrace"
      BY <1>4, <2>3, TokenIs
    <3> QED BY <1>6, <3>1
  <2>4. CASE Json(u) = Token("list")
    BY <2>1, <2>4
  <2> QED BY <1>9, <2>2, <2>3, <2>4, JsonCases
<1> QED BY <1>8, <1>9

-----------------------------------------------------------------------------
(* Where a reply is *)

Typed(o) == o.is = "object" => o = Object(o.fields, o.text) /\ o.text \in Seq(Char)

\* The output is what was parsed, with another text at most.
Shaped(o, p) ==
    /\ o.is = p.is
    /\ p.is = "object" => /\ Typed(p) /\ o = Object(p.fields, o.text)

Read ==
    /\ reply.task \in Task /\ reply.finish \in {"stop", "length"}
    /\ reply.content \in Contents[reply.task]
    /\ pc \in {"parse", "normalize", "clean", "validate", "done"}
    /\ parsed = Nothing \/ parsed = Loads(reply.content)
    /\ Shaped(output, parsed)
    /\ pc = "parse" => parsed = Nothing /\ output = Nothing /\ status = "open" /\ rewrites = 0
    /\ pc \in {"normalize", "clean", "validate"} => parsed # Nothing /\ status = "open"
    /\ pc = "normalize" => rewrites = 0 /\ output = parsed
    /\ pc = "clean" => IsBio /\ rewrites \in 0 .. 6
    /\ rewrites \in 0 .. 7
    /\ status \in {"open", "completed", "review", "provider_output_truncated",
                   "provider_output_empty", "provider_output_invalid"}
    /\ status \in {"completed", "review"} => parsed # Nothing
    /\ status = "provider_output_empty" => reply.content = <<>>
    /\ status = "provider_output_invalid" => Loads(reply.content) = Nothing

LEMMA ContentIs ==
    ASSUME NEW task \in Task, NEW content \in Contents[task]
    PROVE  /\ content \in Seq(ToSet(content))
           /\ \A i \in 1 .. Len(content) : IsToken(content[i])
<1>1. PICK T : T = ToSet(content)
  OBVIOUS
<1>2. content \in Seq(T) /\ \A i \in DOMAIN content : IsToken(content[i])
  BY <1>1, ReplyAssumption
<1>3. DOMAIN content = 1 .. Len(content)
  BY <1>2
<1> QED BY <1>1, <1>2, <1>3

LEMMA LoadsTyped ==
    ASSUME NEW T, NEW c \in Seq(T), \A i \in 1 .. Len(c) : IsToken(c[i]),
           Loads(c).is = "object"
    PROVE  Typed(Loads(c))
<1>1. PICK i, j \in 1 .. Len(c) : Stands(c, i, j, Loads(c))
  BY LoadsObject
<1>2. CASE Loads(c) = EmptyObject
  <2>1. Loads(c) = Object(<<>>, <<>>) /\ <<>> \in Seq(Char)
    BY <1>2 DEF EmptyObject
  <2>2. Loads(c).fields = <<>> /\ Loads(c).text = <<>>
    BY <2>1 DEF Object
  <2> QED BY <2>1, <2>2 DEF Typed
<1>3. CASE Loads(c) = c[i]
  <2>1. IsToken(c[i])
    OBVIOUS
  <2>2. ASSUME NEW k \in Bare, c[i] = Token(k)
        PROVE  FALSE
    <3>1. c[i].is = k
      BY <2>2, TokenIs
    <3> QED BY <1>3, <3>1 DEF Bare
  <2> QED BY <1>3, <2>1, <2>2 DEF IsToken, Typed
<1> QED BY <1>1, <1>2, <1>3 DEF Stands

LEMMA LoadsKinds ==
    ASSUME NEW T, NEW c \in Seq(T), \A i \in 1 .. Len(c) : IsToken(c[i])
    PROVE  Loads(c) = Nothing \/ Loads(c).is \in {"object", "list", "scalar"}
<1>1. ASSUME NEW b \in Seq(T)
      PROVE  Json(b) = Nothing \/ Json(b).is \in {"object", "list", "scalar"}
  <2>1. EmptyObject.is = "object" /\ Token("list").is = "list"
    BY TokenIs DEF EmptyObject, Object
  <2> QED BY <2>1, JsonCases
<1>2. Unfenced(c) \in Seq(T)
  BY UnfencedIs
<1>3. Braced(Unfenced(c)) \in Seq(T)
  <2>1. PICK u \in Seq(T) : u = Unfenced(c)
    BY <1>2
  <2>2. CASE Braced(u) = <<>>
    BY <2>1, <2>2
  <2>3. ASSUME NEW p \in 1 .. Len(u), NEW q \in 1 .. Len(u), Between(u, p, q)
        PROVE  Braced(u) \in Seq(T)
    <3>1. SubSeq(u, p, q) \in Seq(T)
      OBVIOUS
    <3> QED BY <2>3, <3>1 DEF Between
  <2> QED BY <2>1, <2>2, <2>3, BracedIs
<1> QED BY <1>1, <1>2, <1>3 DEF Loads

LEMMA ReplyLoads ==
    ASSUME reply.task \in Task, reply.content \in Contents[reply.task]
    PROVE  /\ \/ Loads(reply.content) = Nothing
              \/ Loads(reply.content).is \in {"object", "list", "scalar"}
           /\ Loads(reply.content).is = "object" => Typed(Loads(reply.content))
<1>1. PICK c, T : c = reply.content /\ T = ToSet(c)
  OBVIOUS
<1>2. c \in Seq(T) /\ \A i \in 1 .. Len(c) : IsToken(c[i])
  BY <1>1, ContentIs
<1> QED BY <1>1, <1>2, LoadsKinds, LoadsTyped

LEMMA ReadTyped == Read => TypeOK
<1> SUFFICES ASSUME Read PROVE TypeOK
  OBVIOUS
<1>1. Nothing.is = "none"
  BY TokenIs DEF Nothing
<1>2. parsed.is \in {"none", "object", "list", "scalar"} /\ output.is = parsed.is
  BY <1>1, ReplyLoads DEF Read, Shaped
<1>3. status \in {"completed", "review"} => output # Nothing
  <2>1. ASSUME parsed # Nothing PROVE output # Nothing
    <3>1. parsed = Loads(reply.content)
      BY <2>1 DEF Read
    <3>2. parsed.is # "none"
      BY <2>1, <3>1, ReplyLoads DEF Read
    <3> QED BY <1>1, <1>2, <3>2
  <2> QED BY <2>1 DEF Read
<1> QED BY <1>2, <1>3 DEF Read, TypeOK

LEMMA InitRead == Init => Read
<1> SUFFICES ASSUME Init PROVE Read
  OBVIOUS
<1>1. PICK task \in Task, finish \in {"stop", "length"} : \E content \in Contents[task] :
          reply = [task |-> task, content |-> content, finish |-> finish]
  BY DEF Init
<1>2. PICK content \in Contents[task] :
          reply = [task |-> task, content |-> content, finish |-> finish]
  BY <1>1
<1>3. reply.task \in Task /\ reply.finish \in {"stop", "length"}
      /\ reply.content \in Contents[reply.task]
  BY <1>2
<1>4. Shaped(output, parsed)
  BY TokenIs DEF Init, Nothing, Shaped
<1> QED BY <1>3, <1>4 DEF Init, Read

LEMMA CleanBioReads ==
    ASSUME Read, CleanBio
    PROVE  /\ Read'
           /\ output.is = "object" /\ output.fields = parsed.fields
           /\ output'.is = "object" /\ output'.fields = parsed.fields
           /\ output'.text = Rewrite(rewrites + 1, output.text)
<1>1. /\ pc = "clean" /\ rewrites' = rewrites + 1 /\ pc' \in {"clean", "validate"}
      /\ pc' = "clean" => rewrites' # 7
      /\ UNCHANGED <<reply, parsed, status>>
  BY DEF CleanBio
<1>2. IsBio /\ rewrites \in 0 .. 6 /\ parsed # Nothing /\ status = "open"
      /\ Shaped(output, parsed)
  BY <1>1 DEF Read
<1>3. PICK f, t, r : f = parsed.fields /\ t = output.text /\ r = Rewrite(rewrites + 1, t)
  OBVIOUS
<1>4. output.is = "object" /\ parsed.is = "object" /\ output = Object(f, t) /\ Typed(parsed)
  BY <1>2, <1>3 DEF IsBio, Shaped
<1>5. output' = [output EXCEPT !.text = r]
  BY <1>1, <1>3 DEF CleanBio
<1>6. output' = Object(f, r)
  BY <1>4, <1>5 DEF Object
<1>7. /\ output.fields = f /\ output'.fields = f /\ output'.is = "object" /\ output'.text = r
  BY <1>4, <1>6 DEF Object
<1>8. Shaped(output', parsed')
  BY <1>1, <1>3, <1>4, <1>6, <1>7 DEF Shaped
<1>9. IsBio'
  BY <1>1, <1>2, <1>7 DEF IsBio, HasKind
<1>10. rewrites' \in 0 .. 7 /\ (pc' = "clean" => rewrites' \in 0 .. 6)
  BY <1>1, <1>2
<1>11. Read'
  BY <1>1, <1>2, <1>8, <1>9, <1>10 DEF Read
<1> QED BY <1>3, <1>4, <1>7, <1>11

LEMMA NextRead == Read /\ [Next]_vars => Read'
<1> SUFFICES ASSUME Read, [Next]_vars PROVE Read'
  OBVIOUS
<1>1. CASE UNCHANGED vars
  BY <1>1 DEF vars, Read, IsBio
<1>2. CASE Parse
  <2>1. /\ pc = "parse" /\ parsed = Nothing /\ output = Nothing /\ rewrites = 0
        /\ UNCHANGED <<reply, rewrites>> /\ Shaped(output, parsed)
    BY <1>2 DEF Parse, Read
  <2>2. CASE Fail("provider_output_truncated")
    BY <2>1, <2>2 DEF Fail, Read
  <2>3. CASE reply.content = <<>> /\ Fail("provider_output_empty")
    BY <2>1, <2>3 DEF Fail, Read
  <2>4. CASE Loads(reply.content) = Nothing /\ Fail("provider_output_invalid")
    BY <2>1, <2>4 DEF Fail, Read
  <2>5. CASE /\ Loads(reply.content) # Nothing /\ parsed' = Loads(reply.content)
             /\ output' = parsed' /\ pc' = "normalize" /\ UNCHANGED status
    <3>1. Shaped(output', parsed')
      <4>1. parsed'.is = "object" => Typed(parsed')
        BY <2>5, ReplyLoads DEF Read
      <4> QED BY <2>5, <4>1 DEF Shaped, Typed
    <3> QED BY <2>1, <2>5, <3>1 DEF Read
  <2> QED BY <1>2, <2>2, <2>3, <2>4, <2>5 DEF Parse
<1>3. CASE Normalize
  <2>1. IsBio' = IsBio
    BY <1>3 DEF Normalize, IsBio
  <2> QED BY <1>3, <2>1 DEF Normalize, Read
<1>4. CASE CleanBio
  BY <1>4, CleanBioReads
<1>5. CASE Validate
  BY <1>5 DEF Validate, Read, IsBio
<1> QED BY <1>1, <1>2, <1>3, <1>4, <1>5 DEF Next, Terminating

LEMMA ReadHolds == Spec => []Read
BY InitRead, NextRead, PTL DEF Spec

\* Every variable keeps its type through the parsing, the repair and the
\* judgement of a reply; a verdict is only of something that was read.
THEOREM ReplyTypeOK == Spec => []TypeOK
BY ReadHolds, ReadTyped, PTL

LEMMA ReadNoPart == Read => ReadsNoPart
<1> SUFFICES ASSUME Read, parsed.is = "object" PROVE ReadsNoPart
  BY DEF ReadsNoPart
<1>1. parsed = Loads(reply.content)
  BY TokenIs DEF Read, Nothing
<1>2. PICK c, T : c = reply.content /\ T = ToSet(c)
  OBVIOUS
<1>3. c \in Seq(T)
  BY <1>2, ContentIs DEF Read
<1>4. DOMAIN c = 1 .. Len(c)
  BY <1>3
<1>5. PICK i, j \in 1 .. Len(c) : Stands(c, i, j, parsed)
  BY <1>1, <1>2, <1>3, LoadsObject
<1>6. /\ \/ i = j /\ c[i] = parsed
         \/ /\ j = i + 1 /\ c[i].is \in {"lbrace", "object"} /\ c[j].is \in {"rbrace", "object"}
            /\ parsed = EmptyObject
      /\ \A h \in 1 .. i - 1 : ~(c[h].is \in {"lbrace", "object"})
      /\ \A h \in j + 1 .. Len(c) : ~(c[h].is \in {"rbrace", "object"})
  BY <1>5 DEF Stands
<1> QED BY <1>2, <1>4, <1>6 DEF ReadsNoPart

\* Of a reply with two objects neither is read, nor an object that is a part of
\* a larger one, however long the reply is.  (_parse_output's slice)
THEOREM ReadsNoPartHolds == Spec => []ReadsNoPart
BY ReadHolds, ReadNoPart, PTL

LEMMA ReadWrapped == Read => WrappedIsRead
<1> SUFFICES ASSUME Read,
                    pc = "normalize" \/ status \in {"provider_output_empty", "provider_output_invalid"},
                    Cardinality(Objects(reply.content)) = 1, Braces(reply.content) = {}
             PROVE  /\ parsed # Nothing
                    /\ \/ \A i \in Objects(reply.content) : parsed = reply.content[i]
                       \/ parsed.is = "list"
  BY DEF WrappedIsRead
<1>1. PICK c, T : c = reply.content /\ T = ToSet(c)
  OBVIOUS
<1>2. c \in Seq(T)
  BY <1>1, ContentIs DEF Read
<1>3. PICK L \in Nat : L = Len(c) /\ DOMAIN c = 1 .. L
  BY <1>2
<1>4. PICK p : Objects(c) = {p}
  <2>1. PICK O : O = Objects(c)
    OBVIOUS
  <2>2. O \subseteq 1 .. L
    BY <1>3, <2>1 DEF Objects
  <2>3. IsFiniteSet(O)
    <3>1. PICK I : I = 1 .. L
      OBVIOUS
    <3>2. IsFiniteSet(I)
      BY <3>1, FS_Interval
    <3> QED BY <2>2, <3>1, <3>2, FS_Subset
  <2> QED BY <1>1, <2>1, <2>3, FS_Singleton
<1>5. /\ p \in 1 .. L /\ c[p].is = "object"
      /\ \A i \in 1 .. L : c[i].is = "object" => i = p
  BY <1>3, <1>4 DEF Objects
<1>6. \A i \in 1 .. L : c[i].is \notin {"lbrace", "rbrace"}
  BY <1>1, <1>3 DEF Braces, Is
<1>7. Loads(c) \in {c[p], Token("list")}
  BY <1>2, <1>3, <1>5, <1>6, LoadsOnlyObject
<1>8. Loads(c) # Nothing
  BY <1>5, <1>7, TokenIs DEF Nothing
<1>9. c # <<>>
  <2>1. ASSUME c = <<>> PROVE FALSE
    <3>1. L = 0
      BY <1>3, <2>1
    <3> QED BY <1>5, <3>1
  <2> QED BY <2>1
<1>10. pc = "normalize"
  BY <1>1, <1>8, <1>9 DEF Read
<1>11. parsed # Nothing /\ parsed = Loads(c)
  BY <1>1, <1>10 DEF Read
<1> QED BY <1>1, <1>4, <1>7, <1>11, TokenIs

\* The one object of a reply is read whatever surrounds it, however much there
\* is of it, unless that makes a JSON list of it or the reply was cut off.
\* (_parse_output, tests/test_provider_output.py)
THEOREM WrappedIsReadHolds == Spec => []WrappedIsRead
BY ReadHolds, ReadWrapped, PTL

-----------------------------------------------------------------------------
(* What a concatenation of pieces is made of *)

FlattensBy(f, ps, n) == f = [i \in 1 .. n |-> IF i = 1 THEN ps[i] ELSE f[i - 1] \o ps[i]]

LEMMA FlattenDef ==
    ASSUME NEW ps, Len(ps) # 0
    PROVE  FlattenSeq(ps) = (CHOOSE f : FlattensBy(f, ps, Len(ps)))[Len(ps)]
BY DEF FlattenSeq, FlattensBy

LEMMA FlattenExists ==
    ASSUME NEW ps, NEW N \in Nat
    PROVE  \E f : FlattensBy(f, ps, N)
<1> DEFINE C == {n \in 0 .. N : ~\E f : FlattensBy(f, ps, n)}
<1>1. SUFFICES ASSUME C # {} PROVE FALSE
  OBVIOUS
<1>2. PICK n \in C : \A k \in C : n <= k
  <2>1. C \in SUBSET Nat
    OBVIOUS
  <2> HIDE DEF C
  <2> QED BY <1>1, <2>1, LeastNat
<1>3. CASE n = 0
  <2>1. FlattensBy([i \in 1 .. 0 |-> 0], ps, 0)
    BY DEF FlattensBy
  <2> QED BY <1>2, <1>3, <2>1
<1>4. CASE n # 0
  <2>1. n - 1 \in 0 .. N /\ n - 1 \notin C
    BY <1>2, <1>4
  <2>2. PICK g : FlattensBy(g, ps, n - 1)
    BY <2>1
  <2> DEFINE last == IF n = 1 THEN ps[n] ELSE g[n - 1] \o ps[n]
             h == [i \in 1 .. n |-> IF i = n THEN last ELSE g[i]]
  <2>3. \A i \in 1 .. n - 1 : g[i] = IF i = 1 THEN ps[i] ELSE g[i - 1] \o ps[i]
    BY <2>2 DEF FlattensBy
  <2>4. \A i \in 1 .. n : h[i] = IF i = 1 THEN ps[i] ELSE h[i - 1] \o ps[i]
    <3> TAKE i \in 1 .. n
    <3>1. CASE i = n
      <4>1. n # 1 => n - 1 \in 1 .. n /\ n - 1 # n
        BY <1>4
      <4> QED BY <3>1, <4>1
    <3>2. CASE i # n
      <4>1. i \in 1 .. n - 1 /\ (i # 1 => i - 1 \in 1 .. n /\ i - 1 # n)
        BY <3>2
      <4> QED BY <2>3, <3>2, <4>1
    <3> QED BY <3>1, <3>2
  <2>5. h = [i \in 1 .. n |-> h[i]]
    OBVIOUS
  <2> HIDE DEF h
  <2>6. FlattensBy(h, ps, n)
    BY <2>4, <2>5 DEF FlattensBy
  <2> QED BY <1>2, <2>6
<1> QED BY <1>3, <1>4

\* Pieces of a text, each of which is a sequence.
Pieces(ps, T) == Len(ps) \in Nat /\ DOMAIN ps = 1 .. Len(ps)
                 /\ \A i \in 1 .. Len(ps) : ps[i] \in Seq(T)

LEMMA FlattenPrefixes ==
    ASSUME NEW T, NEW ps, Pieces(ps, T), Len(ps) # 0
    PROVE  \E f : /\ f[0] = <<>>
                  /\ \A n \in 1 .. Len(ps) : f[n] = f[n - 1] \o ps[n]
                  /\ f[Len(ps)] = FlattenSeq(ps)
<1>1. PICK L \in Nat : L = Len(ps) /\ L # 0
  BY DEF Pieces
<1>2. PICK g : g = CHOOSE f : FlattensBy(f, ps, L)
  OBVIOUS
<1>3. FlattensBy(g, ps, L)
  BY <1>2, FlattenExists
<1>4. \A n \in 1 .. L : g[n] = IF n = 1 THEN ps[n] ELSE g[n - 1] \o ps[n]
  BY <1>3 DEF FlattensBy
<1> DEFINE f == [n \in 0 .. L |-> IF n = 0 THEN <<>> ELSE g[n]]
<1>5. f[0] = <<>>
  OBVIOUS
<1>6. ASSUME NEW n \in 1 .. L PROVE f[n] = f[n - 1] \o ps[n]
  <2>1. n \in 0 .. L /\ n - 1 \in 0 .. L /\ n # 0
    OBVIOUS
  <2>2. CASE n = 1
    <3>1. PICK q \in Seq(T) : q = ps[n]
      BY <1>1 DEF Pieces
    <3>2. <<>> \o q = q
      OBVIOUS
    <3>3. f[n] = ps[n] /\ f[n - 1] = <<>>
      BY <1>4, <2>1, <2>2
    <3> QED BY <3>1, <3>2, <3>3
  <2>3. CASE n # 1
    <3>1. f[n] = g[n] /\ f[n - 1] = g[n - 1]
      BY <2>1, <2>3
    <3> QED BY <1>4, <2>3, <3>1
  <2> QED BY <2>2, <2>3
<1>7. f[L] = FlattenSeq(ps)
  <2>1. FlattenSeq(ps) = g[L]
    BY <1>1, <1>2, FlattenDef
  <2> QED BY <1>1, <2>1
<1> HIDE DEF f
<1> QED BY <1>1, <1>5, <1>6, <1>7

\* t is made of the first n pieces: its k-th element comes from piece e[k], in
\* the order of the pieces, none is lost, and one piece gives two only if it is
\* longer than one.
MadeOf(e, t, ps, n) ==
    /\ e \in [1 .. Len(t) -> 1 .. n]
    /\ \A k, l \in 1 .. Len(t) : k <= l => e[k] <= e[l]
    /\ \A k \in 1 .. Len(t) : \E m \in 1 .. Len(ps[e[k]]) : t[k] = ps[e[k]][m]
    /\ \A i \in 1 .. n : \A m \in 1 .. Len(ps[i]) :
          \E k \in 1 .. Len(t) : e[k] = i /\ t[k] = ps[i][m]
    /\ \A k, l \in 1 .. Len(t) : k # l /\ e[k] = e[l] => Len(ps[e[k]]) > 1

LEMMA ConcatIs ==
    ASSUME NEW T, NEW t \in Seq(T), NEW q \in Seq(T),
           NEW a \in Nat, NEW b \in Nat, a = Len(t), b = Len(q)
    PROVE  /\ t \o q \in Seq(T) /\ Len(t \o q) = a + b
           /\ \A k \in 1 .. a + b : (t \o q)[k] = IF k <= a THEN t[k] ELSE q[k - a]
<1>1. t \o q \in Seq(T) /\ Len(t \o q) = a + b
  OBVIOUS
<1>2. ASSUME NEW k \in 1 .. a + b
      PROVE  (t \o q)[k] = IF k <= a THEN t[k] ELSE q[k - a]
  OBVIOUS
<1> QED BY <1>1, <1>2

LEMMA MadeOfNext ==
    ASSUME NEW T, NEW ps, Pieces(ps, T), NEW n \in 1 .. Len(ps), NEW t \in Seq(T),
           NEW e, MadeOf(e, t, ps, n - 1)
    PROVE  t \o ps[n] \in Seq(T) /\ \E d : MadeOf(d, t \o ps[n], ps, n)
<1>1. PICK a \in Nat, q \in Seq(T) : a = Len(t) /\ q = ps[n]
  BY DEF Pieces
<1>2. PICK b \in Nat : b = Len(q)
  OBVIOUS
<1>0. PICK c \in Nat : c = a + b
  OBVIOUS
<1>3. PICK u \in Seq(T) : /\ u = t \o q /\ c = Len(u) /\ c = a + b
                         /\ \A k \in 1 .. c : u[k] = IF k <= a THEN t[k] ELSE q[k - a]
  <2>1. /\ t \o q \in Seq(T) /\ Len(t \o q) = a + b
        /\ \A k \in 1 .. a + b : (t \o q)[k] = IF k <= a THEN t[k] ELSE q[k - a]
    BY <1>1, <1>2, ConcatIs
  <2>2. PICK u : u = t \o q
    OBVIOUS
  <2>3. /\ u \in Seq(T) /\ u = t \o q /\ c = Len(u)
        /\ \A k \in 1 .. c : u[k] = IF k <= a THEN t[k] ELSE q[k - a]
    BY <1>0, <2>1, <2>2
  <2> QED BY <1>0, <2>3
<1>4. n \in Nat /\ n - 1 \in Nat
  BY DEF Pieces
<1>5. /\ e \in [1 .. a -> 1 .. n - 1]
      /\ \A k, l \in 1 .. a : k <= l => e[k] <= e[l]
      /\ \A k \in 1 .. a : \E m \in 1 .. Len(ps[e[k]]) : t[k] = ps[e[k]][m]
      /\ \A i \in 1 .. n - 1 : \A m \in 1 .. Len(ps[i]) :
            \E k \in 1 .. a : e[k] = i /\ t[k] = ps[i][m]
      /\ \A k, l \in 1 .. a : k # l /\ e[k] = e[l] => Len(ps[e[k]]) > 1
  BY <1>1 DEF MadeOf
<1> DEFINE d == [k \in 1 .. c |-> IF k <= a THEN e[k] ELSE n]
<1>6. \A k \in 1 .. a : d[k] = e[k] /\ e[k] \in 1 .. n - 1
  BY <1>3, <1>5
<1>7. \A k \in 1 .. c : k > a => d[k] = n /\ k - a \in 1 .. b /\ u[k] = q[k - a]
  <2> TAKE k \in 1 .. c
  <2> HAVE k > a
  <2>1. k - a \in 1 .. b /\ ~(k <= a)
    BY <1>3
  <2>3. u[k] = q[k - a]
    BY <1>3, <2>1
  <2> QED BY <1>3, <2>1, <2>3
<1>8. d \in [1 .. c -> 1 .. n]
  BY <1>3, <1>4, <1>5
<1> HIDE DEF d
<1>9. \A k, l \in 1 .. c : k <= l => d[k] <= d[l]
  <2> TAKE k, l \in 1 .. c
  <2> HAVE k <= l
  <2>1. CASE l <= a
    <3>1. k \in 1 .. a /\ l \in 1 .. a
      BY <1>3, <2>1
    <3> QED BY <1>5, <1>6, <3>1
  <2>2. CASE l > a
    <3>1. d[l] = n /\ d[k] \in 1 .. n
      BY <1>7, <1>8, <2>2
    <3> QED BY <1>4, <3>1
  <2> QED BY <2>1, <2>2
<1>10. \A k \in 1 .. c : \E m \in 1 .. Len(ps[d[k]]) : u[k] = ps[d[k]][m]
  <2> TAKE k \in 1 .. c
  <2>1. CASE k <= a
    <3>1. k \in 1 .. a
      BY <2>1
    <3>2. PICK m \in 1 .. Len(ps[e[k]]) : t[k] = ps[e[k]][m]
      BY <1>5, <3>1
    <3>3. u[k] = t[k] /\ d[k] = e[k]
      BY <1>3, <1>6, <2>1, <3>1
    <3> QED BY <3>2, <3>3
  <2>2. CASE k > a
    <3>1. d[k] = n /\ k - a \in 1 .. b /\ u[k] = q[k - a]
      BY <1>7, <2>2
    <3> QED BY <1>1, <1>2, <3>1
  <2> QED BY <2>1, <2>2
<1>11. \A i \in 1 .. n : \A m \in 1 .. Len(ps[i]) :
          \E k \in 1 .. c : d[k] = i /\ u[k] = ps[i][m]
  <2> TAKE i \in 1 .. n
  <2> TAKE m \in 1 .. Len(ps[i])
  <2>1. CASE i = n
    <3>1. m \in 1 .. b
      BY <1>1, <1>2, <2>1
    <3>2. PICK k \in 1 .. c : k > a /\ k - a = m
      <4>1. a + m \in 1 .. c /\ a + m > a /\ (a + m) - a = m
        BY <1>3, <3>1
      <4> QED BY <4>1
    <3>3. d[k] = n /\ u[k] = q[m]
      BY <1>7, <3>2
    <3> QED BY <1>1, <2>1, <3>3
  <2>2. CASE i # n
    <3>1. i \in 1 .. n - 1
      BY <1>4, <2>2
    <3>2. PICK k \in 1 .. a : e[k] = i /\ t[k] = ps[i][m]
      BY <1>5, <3>1
    <3>3. k \in 1 .. c /\ k <= a
      BY <1>3
    <3>4. u[k] = t[k] /\ d[k] = e[k]
      BY <1>3, <1>6, <3>3
    <3> QED BY <3>2, <3>3, <3>4
  <2> QED BY <2>1, <2>2
<1>12. \A k, l \in 1 .. c : k # l /\ d[k] = d[l] => Len(ps[d[k]]) > 1
  <2>1. ASSUME NEW k \in 1 .. c, NEW l \in 1 .. c, k < l, d[k] = d[l]
        PROVE  Len(ps[d[k]]) > 1
    <3>1. CASE l <= a
      <4>1. k \in 1 .. a /\ l \in 1 .. a /\ k # l
        BY <2>1, <3>1
      <4>2. e[k] = e[l] /\ d[k] = e[k]
        BY <1>6, <2>1, <4>1
      <4> QED BY <1>5, <4>1, <4>2
    <3>2. CASE l > a
      <4>1. d[l] = n /\ l - a \in 1 .. b
        BY <1>7, <3>2
      <4>2. k > a
        <5>1. ASSUME k <= a PROVE FALSE
          <6>1. d[k] \in 1 .. n - 1
            BY <1>6, <5>1
          <6> QED BY <1>4, <2>1, <4>1, <6>1
        <5> QED BY <5>1
      <4>3. k - a \in 1 .. b /\ k - a < l - a
        BY <1>7, <2>1, <4>2
      <4>4. b > 1
        BY <4>1, <4>3
      <4> QED BY <1>1, <1>2, <2>1, <4>1, <4>4
    <3> QED BY <3>1, <3>2
  <2> QED
    <3> TAKE k, l \in 1 .. c
    <3> HAVE k # l /\ d[k] = d[l]
    <3>1. k < l \/ l < k
      OBVIOUS
    <3> QED BY <2>1, <3>1
<1>13. MadeOf(d, u, ps, n)
  <2>1. c = Len(u)
    BY <1>3
  <2>2. d \in [1 .. Len(u) -> 1 .. n]
    BY <1>8, <2>1
  <2>3. \A k, l \in 1 .. Len(u) : k <= l => d[k] <= d[l]
    BY <1>9, <2>1
  <2>4. \A k \in 1 .. Len(u) : \E m \in 1 .. Len(ps[d[k]]) : u[k] = ps[d[k]][m]
    BY <1>10, <2>1
  <2>5. \A i \in 1 .. n : \A m \in 1 .. Len(ps[i]) :
            \E k \in 1 .. Len(u) : d[k] = i /\ u[k] = ps[i][m]
    BY <1>11, <2>1
  <2>6. \A k, l \in 1 .. Len(u) : k # l /\ d[k] = d[l] => Len(ps[d[k]]) > 1
    BY <1>12, <2>1
  <2> QED BY <2>2, <2>3, <2>4, <2>5, <2>6 DEF MadeOf
<1> QED BY <1>1, <1>3, <1>13

LEMMA FlattenMadeOf ==
    ASSUME NEW T, NEW ps, Pieces(ps, T), Len(ps) # 0
    PROVE  FlattenSeq(ps) \in Seq(T) /\ \E e : MadeOf(e, FlattenSeq(ps), ps, Len(ps))
<1>1. PICK f : /\ f[0] = <<>> /\ f[Len(ps)] = FlattenSeq(ps)
               /\ \A n \in 1 .. Len(ps) : f[n] = f[n - 1] \o ps[n]
  BY FlattenPrefixes
<1>2. PICK L \in Nat : L = Len(ps)
  BY DEF Pieces
<1> DEFINE C == {n \in 0 .. L : ~(f[n] \in Seq(T) /\ \E e : MadeOf(e, f[n], ps, n))}
<1>3. SUFFICES ASSUME C # {} PROVE FALSE
  BY <1>1, <1>2
<1>4. PICK n \in C : \A k \in C : n <= k
  <2>1. C \in SUBSET Nat
    OBVIOUS
  <2> HIDE DEF C
  <2> QED BY <1>3, <2>1, LeastNat
<1>5. n \in 0 .. L
  BY <1>4
<1>6. CASE n = 0
  <2>1. <<>> \in Seq(T) /\ Len(<<>>) = 0
    OBVIOUS
  <2>2. MadeOf([k \in 1 .. 0 |-> 0], <<>>, ps, 0)
    BY <2>1 DEF MadeOf
  <2> QED BY <1>1, <1>4, <1>6, <2>1, <2>2
<1>7. CASE n # 0
  <2>1. n \in 1 .. Len(ps) /\ n - 1 \in 0 .. L /\ n - 1 < n
    BY <1>2, <1>5, <1>7
  <2>2. n - 1 \notin C
    BY <1>4, <2>1
  <2>3. PICK t, e : t \in Seq(T) /\ t = f[n - 1] /\ MadeOf(e, t, ps, n - 1)
    <3>1. PICK m \in 0 .. L : m = n - 1 /\ m \notin C
      BY <2>1, <2>2
    <3>2. f[m] \in Seq(T) /\ \E e : MadeOf(e, f[m], ps, m)
      BY <3>1
    <3> QED BY <3>1, <3>2
  <2>4. f[n] = t \o ps[n]
    BY <1>1, <2>1, <2>3
  <2>5. t \o ps[n] \in Seq(T) /\ \E d : MadeOf(d, t \o ps[n], ps, n)
    BY <2>1, <2>3, MadeOfNext
  <2> QED BY <1>4, <2>4, <2>5
<1> QED BY <1>6, <1>7

Long(ps, n) == {i \in 1 .. n : Len(ps[i]) > 1}

LEMMA FlattenLength ==
    ASSUME NEW T, NEW ps, Pieces(ps, T), Len(ps) # 0,
           \A i \in 1 .. Len(ps) : Len(ps[i]) <= 2
    PROVE  Len(FlattenSeq(ps)) <= Len(ps) + Cardinality(Long(ps, Len(ps)))
<1>1. PICK f : /\ f[0] = <<>> /\ f[Len(ps)] = FlattenSeq(ps)
               /\ \A n \in 1 .. Len(ps) : f[n] = f[n - 1] \o ps[n]
  BY FlattenPrefixes
<1>2. PICK L \in Nat : L = Len(ps)
  BY DEF Pieces
<1>3. \A n \in 0 .. L : IsFiniteSet(Long(ps, n)) /\ Cardinality(Long(ps, n)) \in Nat
  <2> TAKE n \in 0 .. L
  <2>1. PICK I : I = 1 .. n
    OBVIOUS
  <2>2. IsFiniteSet(I) /\ Long(ps, n) \subseteq I
    BY <2>1, FS_Interval DEF Long
  <2>3. IsFiniteSet(Long(ps, n))
    BY <2>2, FS_Subset
  <2> QED BY <2>3, FS_CardinalityType
<1> DEFINE C == {n \in 0 .. L : ~(f[n] \in Seq(T) /\ Len(f[n]) <= n + Cardinality(Long(ps, n)))}
<1>4. SUFFICES ASSUME C # {} PROVE FALSE
  BY <1>1, <1>2
<1>5. PICK n \in C : \A k \in C : n <= k
  <2>1. C \in SUBSET Nat
    OBVIOUS
  <2> HIDE DEF C
  <2> QED BY <1>4, <2>1, LeastNat
<1>6. n \in 0 .. L
  BY <1>5
<1>7. CASE n = 0
  <2>1. <<>> \in Seq(T) /\ Len(<<>>) = 0
    OBVIOUS
  <2>2. PICK card \in Nat : card = Cardinality(Long(ps, n))
    BY <1>3, <1>6
  <2>3. 0 <= n + card
    BY <1>6
  <2> QED BY <1>1, <1>5, <1>7, <2>1, <2>2, <2>3
<1>8. CASE n # 0
  <2>1. n \in 1 .. L /\ n - 1 \in 0 .. L /\ n - 1 < n
    BY <1>6, <1>8
  <2>2. n - 1 \notin C
    BY <1>5, <2>1
  <2>3. PICK t \in Seq(T), q \in Seq(T) : t = f[n - 1] /\ q = ps[n]
    BY <1>2, <2>1, <2>2 DEF Pieces
  <2>4. PICK a \in Nat, b \in Nat : a = Len(t) /\ b = Len(q)
    OBVIOUS
  <2>5. f[n] \in Seq(T) /\ Len(f[n]) = a + b
    <3>1. f[n] = t \o q
      BY <1>1, <1>2, <2>1, <2>3
    <3>2. t \o q \in Seq(T) /\ Len(t \o q) = a + b
      BY <2>4, ConcatIs
    <3> QED BY <3>1, <3>2
  <2>6. PICK before \in Nat, now \in Nat :
            before = Cardinality(Long(ps, n - 1)) /\ now = Cardinality(Long(ps, n))
    BY <1>3, <1>6, <2>1
  <2>7. a <= n - 1 + before /\ b <= 2
    BY <1>2, <2>1, <2>2, <2>3, <2>4, <2>6
  <2>8. now = IF b > 1 THEN before + 1 ELSE before
    <3>1. \A i : i \in 1 .. n <=> i \in 1 .. n - 1 \/ i = n
      BY <2>1
    <3>2. CASE b > 1
      <4>1. Long(ps, n) = Long(ps, n - 1) \cup {n}
        BY <2>3, <2>4, <3>1, <3>2 DEF Long
      <4>2. n \notin Long(ps, n - 1)
        BY <2>1 DEF Long
      <4> QED BY <1>3, <2>1, <2>6, <3>2, <4>1, <4>2, FS_AddElement
    <3>3. CASE ~(b > 1)
      <4>1. Long(ps, n) = Long(ps, n - 1)
        BY <2>3, <2>4, <3>1, <3>3 DEF Long
      <4> QED BY <2>6, <3>3, <4>1
    <3> QED BY <3>2, <3>3
  <2>9. a + b <= n + now
    BY <1>6, <2>7, <2>8
  <2> QED BY <1>5, <2>5, <2>6, <2>9
<1> QED BY <1>7, <1>8

-----------------------------------------------------------------------------
(* What the rewrites of a text keep of it *)

\* t is s without the positions of S: its k-th character is the one at e[k].
Thins(e, t, s, S) ==
    /\ e \in [1 .. Len(t) -> 1 .. Len(s)]
    /\ \A k, l \in 1 .. Len(t) : k < l => e[k] < e[l]
    /\ \A k \in 1 .. Len(t) : t[k] = s[e[k]] /\ e[k] \notin S
    /\ \A i \in 1 .. Len(s) : i \notin S => \E k \in 1 .. Len(t) : e[k] = i

LEMMA WithoutIs ==
    ASSUME NEW T, NEW s \in Seq(T), NEW S
    PROVE  /\ Without(s, S) \in Seq(T) /\ Len(Without(s, S)) <= Len(s)
           /\ \E e : Thins(e, Without(s, S), s, S)
<1>1. PICK L \in Nat : L = Len(s) /\ DOMAIN s = 1 .. L
  OBVIOUS
<1>2. PICK ps : ps = [i \in 1 .. L |-> IF i \in S THEN <<>> ELSE <<s[i]>>]
  OBVIOUS
<1>3. \A i \in 1 .. L : ps[i] = (IF i \in S THEN <<>> ELSE <<s[i]>>) /\ s[i] \in T
  BY <1>1, <1>2
<1>4. \A i \in 1 .. L : ps[i] \in Seq(T) /\ (i \in S => Len(ps[i]) = 0)
                        /\ (i \notin S => Len(ps[i]) = 1 /\ ps[i][1] = s[i])
  <2> TAKE i \in 1 .. L
  <2>1. CASE i \in S
    <3>1. <<>> \in Seq(T) /\ Len(<<>>) = 0
      OBVIOUS
    <3> QED BY <1>3, <2>1, <3>1
  <2>2. CASE i \notin S
    <3>1. PICK x \in T : x = s[i]
      BY <1>3
    <3>2. <<x>> \in Seq(T) /\ Len(<<x>>) = 1 /\ <<x>>[1] = x
      OBVIOUS
    <3> QED BY <1>3, <2>2, <3>1, <3>2
  <2> QED BY <2>1, <2>2
<1>5. Len(ps) = L /\ DOMAIN ps = 1 .. L
  <2>1. ps \in Seq(Seq(T))
    <3>1. PICK X : X = Seq(T)
      OBVIOUS
    <3>2. ps \in [1 .. L -> X]
      BY <1>2, <1>4, <3>1
    <3> QED BY <3>1, <3>2
  <2> QED BY <1>2, <2>1
<1>6. Pieces(ps, T) /\ Without(s, S) = FlattenSeq(ps)
  BY <1>1, <1>2, <1>4, <1>5 DEF Pieces, Without
<1>7. CASE L = 0
  <2>1. Without(s, S) = ps
    BY <1>5, <1>6, <1>7 DEF FlattenSeq
  <2>2. ps = <<>>
    BY <1>2, <1>7
  <2>3. Thins([k \in 1 .. 0 |-> 0], <<>>, s, S)
    BY <1>1, <1>7 DEF Thins
  <2>4. <<>> \in Seq(T) /\ Len(<<>>) = 0
    OBVIOUS
  <2> QED BY <1>1, <1>7, <2>1, <2>2, <2>3, <2>4
<1>8. CASE L # 0
  <2>1. PICK t, e : t \in Seq(T) /\ t = Without(s, S) /\ MadeOf(e, t, ps, L)
    BY <1>5, <1>6, <1>8, FlattenMadeOf
  <2>2. PICK n \in Nat : n = Len(t)
    BY <2>1
  <2>3. /\ e \in [1 .. n -> 1 .. L]
        /\ \A k, l \in 1 .. n : k <= l => e[k] <= e[l]
        /\ \A k \in 1 .. n : \E m \in 1 .. Len(ps[e[k]]) : t[k] = ps[e[k]][m]
        /\ \A i \in 1 .. L : \A m \in 1 .. Len(ps[i]) :
              \E k \in 1 .. n : e[k] = i /\ t[k] = ps[i][m]
        /\ \A k, l \in 1 .. n : k # l /\ e[k] = e[l] => Len(ps[e[k]]) > 1
    BY <2>1, <2>2 DEF MadeOf
  <2>4. \A k \in 1 .. n : e[k] \in 1 .. L
    BY <2>3
  <2>5. \A k \in 1 .. n : t[k] = s[e[k]] /\ e[k] \notin S
    <3> TAKE k \in 1 .. n
    <3>1. PICK i \in 1 .. L : i = e[k]
      BY <2>4
    <3>2. PICK m \in 1 .. Len(ps[i]) : t[k] = ps[i][m]
      BY <2>3, <3>1
    <3>3. i \notin S
      BY <1>4, <3>2
    <3>4. m = 1
      BY <1>4, <3>2, <3>3
    <3> QED BY <1>4, <3>1, <3>2, <3>3, <3>4
  <2>6. \A k, l \in 1 .. n : k < l => e[k] < e[l]
    <3> TAKE k, l \in 1 .. n
    <3> HAVE k < l
    <3>1. PICK i \in 1 .. L, j \in 1 .. L : i = e[k] /\ j = e[l]
      BY <2>4
    <3>2. i <= j
      BY <2>3, <3>1
    <3>3. i # j
      <4>1. ASSUME i = j PROVE FALSE
        <5>1. Len(ps[i]) > 1
          <6>1. k # l /\ e[k] = e[l]
            BY <3>1, <4>1
          <6>2. Len(ps[e[k]]) > 1
            BY <2>3, <6>1
          <6> QED BY <3>1, <6>2
        <5>2. PICK N \in {0, 1} : N = Len(ps[i])
          BY <1>4
        <5>3. N > 1
          BY <5>1, <5>2
        <5> QED BY <5>3
      <4> QED BY <4>1
    <3> QED BY <3>1, <3>2, <3>3
  <2>7. \A i \in 1 .. L : i \notin S => \E k \in 1 .. n : e[k] = i
    <3> TAKE i \in 1 .. L
    <3> HAVE i \notin S
    <3>1. 1 \in 1 .. Len(ps[i])
      BY <1>4
    <3> QED BY <2>3, <3>1
  <2>8. Thins(e, t, s, S)
    BY <1>1, <2>2, <2>3, <2>5, <2>6, <2>7 DEF Thins
  <2>9. Len(t) <= L
    <3>0. \A i \in 1 .. L : Len(ps[i]) \in {0, 1}
      BY <1>4
    <3>1. \A i \in 1 .. Len(ps) : Len(ps[i]) <= 2
      <4> TAKE i \in 1 .. Len(ps)
      <4>1. PICK N \in {0, 1} : N = Len(ps[i])
        BY <1>5, <3>0
      <4>2. N <= 2
        OBVIOUS
      <4> QED BY <4>1, <4>2
    <3>2. Len(t) <= L + Cardinality(Long(ps, L))
      BY <1>5, <1>6, <1>8, <2>1, <3>1, FlattenLength
    <3>3. Long(ps, L) = {}
      <4>1. ASSUME NEW i \in 1 .. L, Len(ps[i]) > 1 PROVE FALSE
        <5>1. PICK N \in {0, 1} : N = Len(ps[i])
          BY <3>0
        <5>2. N > 1
          BY <4>1, <5>1
        <5> QED BY <5>2
      <4> QED BY <4>1 DEF Long
    <3> QED BY <2>2, <3>2, <3>3, FS_EmptySet
  <2> QED BY <1>1, <2>1, <2>8, <2>9
<1> QED BY <1>7, <1>8

Word == Kept \ Whitespace
Joining == Word \ Punctuation
Loose == {"comma", "space"}

\* What the clean-up keeps: the words, and the line ends between two words.
CoreAt(s, i) == /\ s[i] \in Kept
                /\ \E a \in 1 .. Len(s) : a <= i /\ s[a] \in Word
                /\ \E b \in 1 .. Len(s) : i <= b /\ s[b] \in Word

\* t is what became of s: its k-th character comes from the one at e[k], and is
\* that one, or one of those that stand for a run of dashes.
Keeps(e, t, s) ==
    /\ e \in [1 .. Len(t) -> 1 .. Len(s)]
    /\ \A k, l \in 1 .. Len(t) : k <= l => e[k] <= e[l]
    /\ \A k \in 1 .. Len(t) : t[k] \notin Loose => t[k] = s[e[k]]
    /\ \A k, l \in 1 .. Len(t) : k # l /\ e[k] = e[l] => t[k] \in Loose
    /\ \A i \in 1 .. Len(s) : CoreAt(s, i) => \E k \in 1 .. Len(t) : e[k] = i /\ t[k] = s[i]

LEMMA KeptIs ==
    /\ Word \subseteq Kept /\ Joining \subseteq Word /\ Word \cap Whitespace = {}
    /\ \A x \in Kept : x \in Word \/ x = "newline" \/ x = "return"
    /\ \A x \in Loose \cup {"comma", "space", "dash", "emoji", "joiner"} : x \notin Kept
    /\ \A x \in Joining : x \notin Punctuation /\ x \notin Whitespace
<1>1. Word \subseteq Kept /\ Joining \subseteq Word /\ Word \cap Whitespace = {}
  BY DEF Word, Joining
<1>2. \A x \in Loose \cup {"comma", "space", "dash", "emoji", "joiner"} : x \notin Kept
  BY DEF Kept, Loose, Blank, Forbidden
<1>3. \A x \in Kept : x \in Word \/ x = "newline" \/ x = "return"
  BY <1>2 DEF Word, Whitespace
<1>4. \A x \in Joining : x \notin Punctuation /\ x \notin Whitespace
  BY DEF Joining, Word
<1> QED BY <1>1, <1>2, <1>3, <1>4

LEMMA KeepsAll ==
    ASSUME NEW T, NEW s \in Seq(T)
    PROVE  Keeps([k \in 1 .. Len(s) |-> k], s, s)
BY DEF Keeps

LEMMA ThinsKeeps ==
    ASSUME NEW T, NEW s \in Seq(T), NEW t \in Seq(T), NEW S, NEW e, Thins(e, t, s, S),
           \A i \in 1 .. Len(s) : CoreAt(s, i) => i \notin S
    PROVE  Keeps(e, t, s)
<1>1. PICK n \in Nat, L \in Nat : n = Len(t) /\ L = Len(s)
  OBVIOUS
<1>2. /\ e \in [1 .. n -> 1 .. L]
      /\ \A k, l \in 1 .. n : k < l => e[k] < e[l]
      /\ \A k \in 1 .. n : t[k] = s[e[k]] /\ e[k] \notin S
      /\ \A i \in 1 .. L : i \notin S => \E k \in 1 .. n : e[k] = i
  BY <1>1 DEF Thins
<1>3. \A k, l \in 1 .. n : k <= l => e[k] <= e[l]
  <2> TAKE k, l \in 1 .. n
  <2> HAVE k <= l
  <2>1. e[k] \in 1 .. L /\ e[l] \in 1 .. L
    BY <1>2
  <2>2. CASE k < l
    BY <1>2, <2>1, <2>2
  <2>3. CASE k = l
    BY <2>1, <2>3
  <2> QED BY <2>2, <2>3
<1>4. \A k, l \in 1 .. n : ~(k # l /\ e[k] = e[l])
  <2> TAKE k, l \in 1 .. n
  <2> SUFFICES ASSUME k # l, e[k] = e[l] PROVE FALSE
    OBVIOUS
  <2>1. PICK i \in 1 .. L : i = e[k] /\ i = e[l]
    BY <1>2
  <2>2. k < l \/ l < k
    OBVIOUS
  <2>3. i < i
    BY <1>2, <2>1, <2>2
  <2> QED BY <2>3
<1>5. \A i \in 1 .. L : CoreAt(s, i) => \E k \in 1 .. n : e[k] = i /\ t[k] = s[i]
  <2> TAKE i \in 1 .. L
  <2> HAVE CoreAt(s, i)
  <2>1. i \notin S
    BY <1>1
  <2>2. PICK k \in 1 .. n : e[k] = i
    BY <1>2, <2>1
  <2> QED BY <1>2, <2>2
<1> QED BY <1>1, <1>2, <1>3, <1>4, <1>5 DEF Keeps

\* Where what is kept comes from, what is kept comes of.
LEMMA CoreKept ==
    ASSUME NEW T, NEW s \in Seq(T), NEW t \in Seq(T), NEW e, Keeps(e, t, s),
           NEW m \in 1 .. Len(t), t[m] = s[e[m]], CoreAt(s, e[m])
    PROVE  CoreAt(t, m)
<1>1. PICK n \in Nat, L \in Nat : n = Len(t) /\ L = Len(s)
  OBVIOUS
<1>2. /\ e \in [1 .. n -> 1 .. L]
      /\ \A k, l \in 1 .. n : k <= l => e[k] <= e[l]
      /\ \A i \in 1 .. L : CoreAt(s, i) => \E k \in 1 .. n : e[k] = i /\ t[k] = s[i]
  BY <1>1 DEF Keeps
<1>3. PICK i \in 1 .. L : i = e[m]
  BY <1>1, <1>2
<1>4. /\ s[i] \in Kept
      /\ \E a \in 1 .. L : a <= i /\ s[a] \in Word
      /\ \E b \in 1 .. L : i <= b /\ s[b] \in Word
  BY <1>1, <1>3 DEF CoreAt
<1>5. ASSUME NEW a \in 1 .. L, s[a] \in Word PROVE CoreAt(s, a)
  <2>1. a <= a /\ s[a] \in Kept
    BY <1>5, KeptIs
  <2> QED BY <1>1, <1>5, <2>1 DEF CoreAt
<1>6. \E c \in 1 .. n : c <= m /\ t[c] \in Word
  <2>1. PICK a \in 1 .. L : a <= i /\ s[a] \in Word
    BY <1>4
  <2>2. CASE a = i
    <3>1. m <= m /\ t[m] \in Word /\ m \in 1 .. n
      BY <1>1, <1>3, <2>1, <2>2
    <3> QED BY <3>1
  <2>3. CASE a # i
    <3>1. PICK c \in 1 .. n : e[c] = a /\ t[c] = s[a]
      BY <1>2, <1>5, <2>1
    <3>2. c <= m
      <4>1. ASSUME ~(c <= m) PROVE FALSE
        <5>1. m <= c /\ m \in 1 .. n
          BY <1>1, <4>1
        <5>2. i <= a
          BY <1>2, <1>3, <3>1, <5>1
        <5> QED BY <2>1, <2>3, <5>2
      <4> QED BY <4>1
    <3> QED BY <2>1, <3>1, <3>2
  <2> QED BY <2>2, <2>3
<1>7. \E c \in 1 .. n : m <= c /\ t[c] \in Word
  <2>1. PICK a \in 1 .. L : i <= a /\ s[a] \in Word
    BY <1>4
  <2>2. CASE a = i
    <3>1. m <= m /\ t[m] \in Word /\ m \in 1 .. n
      BY <1>1, <1>3, <2>1, <2>2
    <3> QED BY <3>1
  <2>3. CASE a # i
    <3>1. PICK c \in 1 .. n : e[c] = a /\ t[c] = s[a]
      BY <1>2, <1>5, <2>1
    <3>2. m <= c
      <4>1. ASSUME ~(m <= c) PROVE FALSE
        <5>1. c <= m /\ m \in 1 .. n
          BY <1>1, <4>1
        <5>2. a <= i
          BY <1>2, <1>3, <3>1, <5>1
        <5> QED BY <2>1, <2>3, <5>2
      <4> QED BY <4>1
    <3> QED BY <2>1, <3>1, <3>2
  <2> QED BY <2>2, <2>3
<1> QED BY <1>1, <1>3, <1>4, <1>6, <1>7 DEF CoreAt

LEMMA KeepsTrans ==
    ASSUME NEW T, NEW s \in Seq(T), NEW t \in Seq(T), NEW u \in Seq(T),
           NEW e, Keeps(e, t, s), NEW d, Keeps(d, u, t)
    PROVE  Keeps([k \in 1 .. Len(u) |-> e[d[k]]], u, s)
<1>1. PICK n \in Nat, L \in Nat, p \in Nat : n = Len(t) /\ L = Len(s) /\ p = Len(u)
  OBVIOUS
<1>2. /\ e \in [1 .. n -> 1 .. L]
      /\ \A k, l \in 1 .. n : k <= l => e[k] <= e[l]
      /\ \A k \in 1 .. n : t[k] \notin Loose => t[k] = s[e[k]]
      /\ \A k, l \in 1 .. n : k # l /\ e[k] = e[l] => t[k] \in Loose
      /\ \A i \in 1 .. L : CoreAt(s, i) => \E k \in 1 .. n : e[k] = i /\ t[k] = s[i]
  BY <1>1 DEF Keeps
<1>3. /\ d \in [1 .. p -> 1 .. n]
      /\ \A k, l \in 1 .. p : k <= l => d[k] <= d[l]
      /\ \A k \in 1 .. p : u[k] \notin Loose => u[k] = t[d[k]]
      /\ \A k, l \in 1 .. p : k # l /\ d[k] = d[l] => u[k] \in Loose
      /\ \A i \in 1 .. n : CoreAt(t, i) => \E k \in 1 .. p : d[k] = i /\ u[k] = t[i]
  BY <1>1 DEF Keeps
<1>4. PICK f : f = [k \in 1 .. p |-> e[d[k]]]
  OBVIOUS
<1>5. \A k \in 1 .. p : d[k] \in 1 .. n /\ e[d[k]] \in 1 .. L /\ f[k] = e[d[k]]
  BY <1>2, <1>3, <1>4
<1>6. f \in [1 .. p -> 1 .. L]
  BY <1>4, <1>5
<1>7. \A k, l \in 1 .. p : k <= l => f[k] <= f[l]
  BY <1>2, <1>3, <1>5
<1>8. \A k \in 1 .. p : u[k] \notin Loose => u[k] = s[f[k]]
  <2> TAKE k \in 1 .. p
  <2> HAVE u[k] \notin Loose
  <2>1. PICK m \in 1 .. n : m = d[k] /\ u[k] = t[m] /\ f[k] = e[m]
    BY <1>3, <1>5
  <2>2. t[m] = s[e[m]]
    BY <1>2, <2>1
  <2> QED BY <2>1, <2>2
<1>9. \A k, l \in 1 .. p : k # l /\ f[k] = f[l] => u[k] \in Loose
  <2> TAKE k, l \in 1 .. p
  <2> HAVE k # l /\ f[k] = f[l]
  <2>1. CASE d[k] = d[l]
    BY <1>3, <2>1
  <2>2. CASE d[k] # d[l]
    <3>1. t[d[k]] \in Loose
      BY <1>2, <1>5, <2>2, SMTT(30)
    <3> QED BY <1>3, <3>1
  <2> QED BY <2>1, <2>2
<1>10. \A i \in 1 .. L : CoreAt(s, i) => \E k \in 1 .. p : f[k] = i /\ u[k] = s[i]
  <2> TAKE i \in 1 .. L
  <2> HAVE CoreAt(s, i)
  <2>1. PICK m \in 1 .. n : e[m] = i /\ t[m] = s[i]
    BY <1>2
  <2>2. CoreAt(t, m)
    BY <1>1, <2>1, CoreKept
  <2>3. PICK k \in 1 .. p : d[k] = m /\ u[k] = t[m]
    BY <1>3, <2>2
  <2> QED BY <1>5, <2>1, <2>3
<1>11. Keeps(f, u, s)
  BY <1>1, <1>6, <1>7, <1>8, <1>9, <1>10 DEF Keeps
<1> QED BY <1>1, <1>4, <1>11

-----------------------------------------------------------------------------
(* What each rewrite takes *)

\* No rewrite but the first adds a character; what it takes is no word, and no
\* line end but at the outside of the text.
Taken(n, s) ==
    CASE n = 2 -> EmojiRuns(s)
      [] n = 3 -> RepeatedBlanks(s)
      [] n = 4 -> BlanksBeforePunctuation(s)
      [] n = 5 -> CommasBeforePunctuation(s)
      [] n = 6 -> LineEdges(s)
      [] n = 7 -> Outer(s)

LEMMA RewriteTakes ==
    ASSUME NEW n \in 2 .. 7, NEW s
    PROVE  Rewrite(n, s) = Without(s, Taken(n, s))
BY DEF Rewrite, Taken, Strip

LEMMA TakenAre ==
    ASSUME NEW T, NEW s \in Seq(T), NEW i \in 1 .. Len(s)
    PROVE  /\ i \in EmojiRuns(s) => s[i] \in {"emoji", "joiner"}
           /\ i \in RepeatedBlanks(s) => s[i] = "space"
           /\ i \in BlanksBeforePunctuation(s) => s[i] = "space"
           /\ i \in CommasBeforePunctuation(s) => s[i] \in Loose
           /\ i \in LineEdges(s) => s[i] \in Loose
           /\ i \in Outer(s) => s[i] \in Whitespace
<1>1. PICK L \in Nat : L = Len(s) /\ DOMAIN s = 1 .. L /\ i \in 1 .. L
  OBVIOUS
<1>2. i \in EmojiRuns(s) => s[i] \in {"emoji", "joiner"}
  <2> SUFFICES ASSUME i \in EmojiRuns(s) PROVE s[i] \in {"emoji", "joiner"}
    OBVIOUS
  <2>1. PICK e \in 1 .. i : \A h \in e .. i : s[h] \in {"emoji", "joiner"}
    BY DEF EmojiRuns, AllIn
  <2>2. i \in e .. i
    BY <1>1
  <2> QED BY <2>1, <2>2
<1>3. i \in RepeatedBlanks(s) => s[i] = "space"
  BY DEF RepeatedBlanks, Blank
<1>4. i \in BlanksBeforePunctuation(s) => s[i] = "space"
  <2> SUFFICES ASSUME i \in BlanksBeforePunctuation(s) PROVE s[i] = "space"
    OBVIOUS
  <2>1. PICK p \in 1 .. L : i < p /\ \A h \in i .. p - 1 : s[h] \in {"space"}
    BY <1>1 DEF BlanksBeforePunctuation, AllIn, Blank
  <2>2. i \in i .. p - 1
    BY <1>1, <2>1
  <2> QED BY <2>1, <2>2
<1>5. i \in CommasBeforePunctuation(s) => s[i] \in Loose
  <2> SUFFICES ASSUME i \in CommasBeforePunctuation(s) PROVE s[i] \in Loose
    OBVIOUS
  <2>1. PICK c \in 1 .. i : s[c] = "comma" /\ \A h \in c + 1 .. i : s[h] \in {"space"}
    BY <1>1 DEF CommasBeforePunctuation, AllIn, Blank
  <2>2. i = c \/ i \in c + 1 .. i
    BY <1>1, <2>1
  <2> QED BY <2>1, <2>2 DEF Loose
<1>6. i \in LineEdges(s) => s[i] \in Loose
  <2> SUFFICES ASSUME i \in LineEdges(s) PROVE s[i] \in Loose
    OBVIOUS
  <2>1. \/ \E l \in 1 .. i : \A h \in l .. i : s[h] \in {"comma"} \cup Blank
        \/ \E l \in i .. L : \A h \in i .. l : s[h] \in {"comma"} \cup Blank
    BY <1>1 DEF LineEdges, AllIn
  <2>2. \A l \in 1 .. i : i \in l .. i
    BY <1>1
  <2>3. \A l \in i .. L : i \in i .. l
    BY <1>1
  <2>4. s[i] \in {"comma"} \cup Blank
    BY <2>1, <2>2, <2>3
  <2> QED BY <2>4 DEF Blank, Loose
<1>7. i \in Outer(s) => s[i] \in Whitespace
  <2> SUFFICES ASSUME i \in Outer(s) PROVE s[i] \in Whitespace
    OBVIOUS
  <2>1. (\A h \in 1 .. i : s[h] \in Whitespace) \/ (\A h \in i .. L : s[h] \in Whitespace)
    BY <1>1 DEF Outer, AllIn
  <2>2. i \in 1 .. i /\ i \in i .. L
    BY <1>1
  <2> QED BY <2>1, <2>2
<1> QED BY <1>2, <1>3, <1>4, <1>5, <1>6, <1>7

LEMMA CoreNotTaken ==
    ASSUME NEW T, NEW s \in Seq(T), NEW n \in 2 .. 7, NEW i \in 1 .. Len(s), CoreAt(s, i)
    PROVE  i \notin Taken(n, s)
<1>1. PICK L \in Nat : L = Len(s) /\ DOMAIN s = 1 .. L /\ i \in 1 .. L
  OBVIOUS
<1>2. /\ s[i] \in Kept
      /\ \E a \in 1 .. L : a <= i /\ s[a] \in Word
      /\ \E b \in 1 .. L : i <= b /\ s[b] \in Word
  BY <1>1 DEF CoreAt
<1>3. i \notin Outer(s)
  <2>1. PICK a \in 1 .. L, b \in 1 .. L : a <= i /\ i <= b /\ s[a] \in Word /\ s[b] \in Word
    BY <1>2
  <2>2. a \in 1 .. i /\ b \in i .. L
    BY <1>1, <2>1
  <2>3. s[a] \notin Whitespace /\ s[b] \notin Whitespace
    BY <2>1, KeptIs
  <2> QED BY <1>1, <2>2, <2>3 DEF Outer, AllIn
<1>4. s[i] \notin {"emoji", "joiner"} /\ s[i] # "space" /\ s[i] \notin Loose
  BY <1>2, KeptIs
<1>5. /\ i \notin EmojiRuns(s) /\ i \notin RepeatedBlanks(s) /\ i \notin BlanksBeforePunctuation(s)
      /\ i \notin CommasBeforePunctuation(s) /\ i \notin LineEdges(s)
  BY <1>4, TakenAre
<1> QED BY <1>3, <1>5 DEF Taken

\* Without S, no word or mark touches another one that it did not touch before.
KeepsApart(S, s) ==
    \A a, b \in 1 .. Len(s) :
        (/\ a < b
         /\ s[a] \in Joining /\ s[b] \in Joining
         /\ \A h \in a + 1 .. b - 1 : h \in S)
        => b = a + 1

LEMMA TakesBetween ==
    ASSUME NEW T, NEW s \in Seq(T), NEW n \in 3 .. 7
    PROVE  KeepsApart(Taken(n, s), s)
<1>1. PICK L \in Nat : L = Len(s) /\ DOMAIN s = 1 .. L
  OBVIOUS
<1> SUFFICES ASSUME NEW a \in 1 .. L, NEW b \in 1 .. L, a < b, b # a + 1,
                    s[a] \in Joining, s[b] \in Joining,
                    \A h \in a + 1 .. b - 1 : h \in Taken(n, s)
             PROVE  FALSE
  BY <1>1 DEF KeepsApart
<1>2. PICK i, j : i = a + 1 /\ j = b - 1
  OBVIOUS
<1>3. /\ i \in 1 .. L /\ j \in 1 .. L /\ a < i /\ i <= j /\ j < b
      /\ \A h \in i .. j : h \in Taken(n, s) /\ h \in 1 .. L
  BY <1>1, <1>2
<1>4. i \in Taken(n, s) /\ j \in Taken(n, s)
  BY <1>3
<1>5. s[a] \notin Loose \cup Whitespace \cup Punctuation /\ s[b] \notin Loose \cup Whitespace \cup Punctuation
  BY KeptIs
<1>6. CASE n = 3
  <2>1. i \in RepeatedBlanks(s) /\ i - 1 = a
    BY <1>2, <1>4, <1>6 DEF Taken
  <2>2. s[a] \in {"space"}
    BY <2>1 DEF RepeatedBlanks, Blank
  <2> QED BY <1>5, <2>2 DEF Loose
<1>7. CASE n = 4
  <2>1. \A h \in i .. j : h \in BlanksBeforePunctuation(s)
    BY <1>3, <1>7 DEF Taken
  <2>2. PICK p \in 1 .. L : i < p /\ s[p] \in Punctuation /\ \A h \in i .. p - 1 : s[h] \in {"space"}
    BY <1>1, <1>3, <2>1 DEF BlanksBeforePunctuation, AllIn, Blank
  <2>3. CASE p > b
    <3>1. b \in i .. p - 1
      BY <1>3, <2>3
    <3> QED BY <1>5, <2>2, <3>1 DEF Loose
  <2>4. CASE p = b
    BY <1>5, <2>2, <2>4
  <2>5. CASE p < b
    <3>1. p \in i .. j
      BY <1>2, <1>3, <2>2, <2>5
    <3>2. s[p] = "space"
      BY <1>1, <2>1, <3>1, TakenAre
    <3> QED BY <2>2, <3>2 DEF Punctuation
  <2> QED BY <2>3, <2>4, <2>5
<1>8. CASE n = 5
  <2>1. j \in CommasBeforePunctuation(s)
    BY <1>4, <1>8 DEF Taken
  <2>2. PICK c \in 1 .. j :
            /\ s[c] = "comma" /\ \A h \in c + 1 .. j : s[h] \in {"space"}
            /\ \E p \in 1 .. L : c < p /\ s[p] \in Punctuation
                                 /\ \A h \in c + 1 .. p - 1 : s[h] \in {"space"}
    BY <1>1, <2>1 DEF CommasBeforePunctuation, AllIn, Blank
  <2>3. PICK p \in 1 .. L : c < p /\ s[p] \in Punctuation
                            /\ \A h \in c + 1 .. p - 1 : s[h] \in {"space"}
    BY <2>2
  <2>4. CASE p > b
    <3>1. b \in c + 1 .. p - 1
      BY <1>3, <2>2, <2>4
    <3> QED BY <1>5, <2>3, <3>1 DEF Loose
  <2>5. CASE p = b
    BY <1>5, <2>3, <2>5
  <2>6. CASE p < b
    <3>1. p \in c + 1 .. j
      BY <1>2, <1>3, <2>3, <2>6
    <3>2. s[p] = "space"
      BY <2>2, <3>1
    <3> QED BY <2>3, <3>2 DEF Punctuation
  <2> QED BY <2>4, <2>5, <2>6
<1>9. CASE n = 6
  <2>1. \A h \in i .. j : h \in LineEdges(s)
    BY <1>3, <1>9 DEF Taken
  <2>2. \/ \E l \in 1 .. i : LineStart(s, l) /\ \A h \in l .. i : s[h] \in {"comma", "space"}
        \/ \E l \in i .. L : LineEnd(s, l) /\ \A h \in i .. l : s[h] \in {"comma", "space"}
    BY <1>1, <1>3, <2>1 DEF LineEdges, AllIn, Blank
  <2>3. ASSUME NEW l \in 1 .. i, LineStart(s, l), \A h \in l .. i : s[h] \in {"comma", "space"}
        PROVE  FALSE
    <3>1. CASE l <= a
      <4>1. a \in l .. i
        BY <1>2, <3>1
      <4> QED BY <1>5, <2>3, <4>1 DEF Loose
    <3>2. CASE ~(l <= a)
      <4>1. l = a + 1 /\ l - 1 = a /\ l # 1
        BY <1>2, <3>2
      <4>2. s[a] = "newline"
        BY <2>3, <4>1 DEF LineStart
      <4> QED BY <1>5, <4>2 DEF Whitespace
    <3> QED BY <3>1, <3>2
  <2>4. ASSUME NEW l \in i .. L, LineEnd(s, l), \A h \in i .. l : s[h] \in {"comma", "space"}
        PROVE  FALSE
    <3>1. CASE b <= l
      <4>1. b \in i .. l
        BY <1>3, <3>1
      <4> QED BY <1>5, <2>4, <4>1 DEF Loose
    <3>2. CASE ~(b <= l)
      <4>1. PICK m : m = l + 1
        OBVIOUS
      <4>2. m \in i .. b /\ l # L
        BY <1>1, <1>3, <3>2, <4>1
      <4>3. s[m] = "newline"
        BY <1>1, <2>4, <4>1, <4>2 DEF LineEnd
      <4>4. m = b \/ m \in i .. j
        BY <1>2, <4>2
      <4>5. CASE m = b
        BY <1>5, <4>3, <4>5 DEF Whitespace
      <4>6. CASE m \in i .. j
        <5>1. s[m] \in Loose
          BY <1>3, <2>1, <4>6, <1>1, TakenAre
        <5> QED BY <4>3, <5>1 DEF Loose
      <4> QED BY <4>4, <4>5, <4>6
    <3> QED BY <3>1, <3>2
  <2> QED BY <2>2, <2>3, <2>4
<1>10. CASE n = 7
  <2>1. i \in Outer(s)
    BY <1>4, <1>10 DEF Taken
  <2>2. (\A h \in 1 .. i : s[h] \in Whitespace) \/ (\A h \in i .. L : s[h] \in Whitespace)
    BY <1>1, <2>1 DEF Outer, AllIn
  <2>3. a \in 1 .. i /\ b \in i .. L
    BY <1>3
  <2> QED BY <1>5, <2>2, <2>3
<1> QED BY <1>6, <1>7, <1>8, <1>9, <1>10

-----------------------------------------------------------------------------
(* The first rewrite *)

NextToDash(s, i) ==
    \E d \in DOMAIN s : /\ s[d] = "dash"
                        /\ AllIn(s, IF d < i THEN d + 1 ELSE i,
                                    IF d < i THEN i ELSE d - 1, Blank)

DashPiece(s, i) ==
    CASE s[i] = "dash" /\ i > 1 /\ s[i - 1] = "dash" -> <<>>
      [] s[i] = "dash" /\ (i = 1 \/ s[i - 1] # "dash") -> <<"comma", "space">>
      [] s[i] \in Blank /\ NextToDash(s, i) -> <<>>
      [] OTHER -> <<s[i]>>

FirstDash(s, i) == s[i] = "dash" /\ (i = 1 \/ s[i - 1] # "dash")

\* Neighbours that the rewrite left as they were, were neighbours.
Near(e, t, s) ==
    \A k, l \in 1 .. Len(t) :
        l = k + 1 /\ t[k] \notin Loose /\ t[l] \notin Loose => e[l] = e[k] + 1

LEMMA DashesDef == \A s : DashesToCommas(s) = FlattenSeq([i \in DOMAIN s |-> DashPiece(s, i)])
BY DEF DashesToCommas, DashPiece, NextToDash

LEMMA DashPieceIs ==
    ASSUME NEW s \in Seq(Char), NEW i \in 1 .. Len(s)
    PROVE  /\ DashPiece(s, i) \in Seq(Char)
           /\ Len(DashPiece(s, i)) \in {0, 1, 2}
           /\ Len(DashPiece(s, i)) = 0 =>
                 \/ s[i] = "dash" /\ i > 1 /\ s[i - 1] = "dash"
                 \/ s[i] = "space" /\ NextToDash(s, i)
           /\ Len(DashPiece(s, i)) = 1 => DashPiece(s, i)[1] = s[i] /\ s[i] # "dash"
           /\ Len(DashPiece(s, i)) = 2 => /\ FirstDash(s, i)
                                          /\ DashPiece(s, i)[1] = "comma"
                                          /\ DashPiece(s, i)[2] = "space"
<1>1. CASE s[i] = "dash" /\ i > 1 /\ s[i - 1] = "dash"
  <2>1. DashPiece(s, i) = <<>>
    BY <1>1 DEF DashPiece
  <2>2. <<>> \in Seq(Char) /\ Len(<<>>) = 0
    OBVIOUS
  <2>3. DashPiece(s, i) \in Seq(Char) /\ Len(DashPiece(s, i)) = 0
    BY <2>1, <2>2
  <2> QED BY <1>1, <2>3
<1>2. CASE s[i] = "dash" /\ (i = 1 \/ s[i - 1] # "dash")
  <2>0. ~(i > 1 /\ s[i - 1] = "dash")
    BY <1>2
  <2>1. DashPiece(s, i) = <<"comma", "space">>
    <3>1. ~(s[i] = "dash" /\ i > 1 /\ s[i - 1] = "dash")
      BY <2>0
    <3>2. s[i] = "dash" /\ (i = 1 \/ s[i - 1] # "dash")
      BY <1>2
    <3>3. ~(s[i] \in Blank /\ NextToDash(s, i))
      BY <1>2 DEF Blank
    <3> QED BY <3>1, <3>2, <3>3, Zenon DEF DashPiece
  <2>2. "comma" \in Char /\ "space" \in Char
    BY DEF Char, Whitespace, Punctuation
  <2>3. /\ <<"comma", "space">> \in Seq(Char) /\ Len(<<"comma", "space">>) = 2
        /\ <<"comma", "space">>[1] = "comma" /\ <<"comma", "space">>[2] = "space"
    BY <2>2
  <2> QED BY <1>2, <2>1, <2>3 DEF FirstDash
<1>3. CASE s[i] # "dash" /\ s[i] \in Blank /\ NextToDash(s, i)
  <2>1. DashPiece(s, i) = <<>>
    BY <1>3 DEF DashPiece
  <2>2. <<>> \in Seq(Char) /\ Len(<<>>) = 0
    OBVIOUS
  <2> QED BY <1>3, <2>1, <2>2 DEF Blank
<1>4. CASE s[i] # "dash" /\ ~(s[i] \in Blank /\ NextToDash(s, i))
  <2>1. PICK x \in Char : x = s[i]
    OBVIOUS
  <2>2. DashPiece(s, i) = <<x>>
    BY <1>4, <2>1 DEF DashPiece
  <2>3. <<x>> \in Seq(Char) /\ Len(<<x>>) = 1 /\ <<x>>[1] = x
    OBVIOUS
  <2> QED BY <1>4, <2>1, <2>2, <2>3
<1>5. i = 1 \/ i > 1
  OBVIOUS
<1> QED BY <1>1, <1>2, <1>3, <1>4, <1>5

LEMMA NextToDashIs ==
    ASSUME NEW s \in Seq(Char), NEW i \in 1 .. Len(s), NextToDash(s, i)
    PROVE  \E d \in 1 .. Len(s) :
              /\ s[d] = "dash"
              /\ \/ d < i /\ \A h \in d + 1 .. i : s[h] = "space"
                 \/ i <= d /\ \A h \in i .. d - 1 : s[h] = "space"
<1>1. PICK d \in 1 .. Len(s) :
          /\ s[d] = "dash"
          /\ \A h \in (IF d < i THEN d + 1 ELSE i) .. (IF d < i THEN i ELSE d - 1) : s[h] \in {"space"}
  BY DEF NextToDash, AllIn, Blank
<1>2. CASE d < i
  BY <1>1, <1>2
<1>3. CASE ~(d < i)
  <2>1. i <= d
    BY <1>3
  <2> QED BY <1>1, <1>3, <2>1
<1> QED BY <1>2, <1>3

\* Between two characters that are neither dash nor blank, and have a blank or a
\* dash between them, something is left.
LEMMA DashesLeave ==
    ASSUME NEW s \in Seq(Char), NEW a \in 1 .. Len(s), NEW b \in 1 .. Len(s), a + 1 < b,
           s[a] \notin {"dash", "space"}, s[b] \notin {"dash", "space"}
    PROVE  \E h \in a + 1 .. b - 1 : Len(DashPiece(s, h)) # 0
<1>1. PICK L \in Nat : L = Len(s)
  OBVIOUS
<1>2. PICK i : i = a + 1
  OBVIOUS
<1>3. i \in 1 .. L /\ i \in a + 1 .. b - 1 /\ i - 1 = a
  BY <1>1, <1>2
<1> SUFFICES ASSUME \A h \in a + 1 .. b - 1 : Len(DashPiece(s, h)) = 0
             PROVE  FALSE
  OBVIOUS
<1>4. s[i] = "space" /\ NextToDash(s, i)
  <2>1. Len(DashPiece(s, i)) = 0
    BY <1>3
  <2>2. s[i - 1] # "dash"
    BY <1>3
  <2> QED BY <1>1, <1>3, <2>1, <2>2, DashPieceIs
<1>5. PICK d \in 1 .. L : /\ s[d] = "dash"
                          /\ \/ d < i /\ \A h \in d + 1 .. i : s[h] = "space"
                             \/ i <= d /\ \A h \in i .. d - 1 : s[h] = "space"
  BY <1>1, <1>3, <1>4, NextToDashIs
<1>6. CASE d < i /\ \A h \in d + 1 .. i : s[h] = "space"
  <2>1. d = a \/ a \in d + 1 .. i
    BY <1>2, <1>6
  <2> QED BY <1>5, <1>6, <2>1
<1>7. CASE i <= d /\ \A h \in i .. d - 1 : s[h] = "space"
  <2>1. d # b /\ d # i
    BY <1>4, <1>5
  <2>2. CASE b < d
    <3>1. b \in i .. d - 1
      BY <1>1, <1>2, <2>2
    <3> QED BY <1>7, <3>1
  <2>3. CASE d < b
    <3>1. d \in a + 1 .. b - 1 /\ d - 1 \in i .. d - 1
      BY <1>1, <1>2, <1>7, <2>1, <2>3
    <3>2. s[d - 1] = "space"
      BY <1>7, <3>1
    <3>3. Len(DashPiece(s, d)) = 0
      BY <3>1
    <3> QED BY <1>1, <1>5, <3>2, <3>3, DashPieceIs
  <2> QED BY <1>1, <2>1, <2>2, <2>3
<1> QED BY <1>5, <1>6, <1>7

LEMMA DashesKeep ==
    ASSUME NEW s \in Seq(Char), s # <<>>
    PROVE  /\ DashesToCommas(s) \in Seq(Char)
           /\ \A k \in 1 .. Len(DashesToCommas(s)) : DashesToCommas(s)[k] # "dash"
           /\ Len(DashesToCommas(s)) <= Len(s) + DashRuns(s)
           /\ \E e : Keeps(e, DashesToCommas(s), s) /\ Near(e, DashesToCommas(s), s)
<1>1. PICK L \in Nat : L = Len(s) /\ DOMAIN s = 1 .. L /\ L # 0
  OBVIOUS
<1>2. PICK ps : ps = [i \in 1 .. L |-> DashPiece(s, i)]
  OBVIOUS
<1>3. \A i \in 1 .. L : ps[i] = DashPiece(s, i)
  BY <1>2
<1>4. \A i \in 1 .. L :
          /\ ps[i] \in Seq(Char)
          /\ Len(ps[i]) \in {0, 1, 2}
          /\ Len(ps[i]) = 1 => ps[i][1] = s[i] /\ s[i] # "dash"
          /\ Len(ps[i]) = 2 => FirstDash(s, i) /\ ps[i][1] = "comma" /\ ps[i][2] = "space"
  BY <1>1, <1>3, DashPieceIs
<1>5. Len(ps) = L /\ DOMAIN ps = 1 .. L
  <2>1. PICK X : X = Seq(Char)
    OBVIOUS
  <2>2. ps \in [1 .. L -> X]
    BY <1>2, <1>4, <2>1
  <2>3. ps \in Seq(X)
    BY <2>2
  <2> QED BY <1>2, <2>3
<1>6. Pieces(ps, Char) /\ DashesToCommas(s) = FlattenSeq(ps)
  BY <1>1, <1>2, <1>4, <1>5, DashesDef DEF Pieces
<1>7. PICK t, e : t \in Seq(Char) /\ t = DashesToCommas(s) /\ MadeOf(e, t, ps, L)
  BY <1>1, <1>5, <1>6, FlattenMadeOf
<1>8. PICK n \in Nat : n = Len(t)
  BY <1>7
<1>9. /\ e \in [1 .. n -> 1 .. L]
      /\ \A k, l \in 1 .. n : k <= l => e[k] <= e[l]
      /\ \A k \in 1 .. n : \E m \in 1 .. Len(ps[e[k]]) : t[k] = ps[e[k]][m]
      /\ \A i \in 1 .. L : \A m \in 1 .. Len(ps[i]) :
            \E k \in 1 .. n : e[k] = i /\ t[k] = ps[i][m]
      /\ \A k, l \in 1 .. n : k # l /\ e[k] = e[l] => Len(ps[e[k]]) > 1
  BY <1>7, <1>8 DEF MadeOf
<1>10. \A k \in 1 .. n : \/ /\ t[k] = s[e[k]] /\ s[e[k]] # "dash"
                            /\ Len(ps[e[k]]) = 1
                         \/ t[k] \in Loose /\ s[e[k]] = "dash"
  <2> TAKE k \in 1 .. n
  <2>1. PICK i \in 1 .. L : i = e[k]
    BY <1>9
  <2>2. PICK m \in 1 .. Len(ps[i]) : t[k] = ps[i][m]
    BY <1>9, <2>1
  <2>3. CASE Len(ps[i]) = 0
    <3>1. m \in 1 .. 0
      BY <2>2, <2>3
    <3> QED BY <3>1
  <2>4. CASE Len(ps[i]) = 1
    <3>1. m \in 1 .. 1
      BY <2>2, <2>4
    <3>2. m = 1
      BY <3>1
    <3> QED BY <1>4, <2>1, <2>2, <2>4, <3>2
  <2>5. CASE Len(ps[i]) = 2
    <3>1. m \in 1 .. 2
      BY <2>2, <2>5
    <3>2. m = 1 \/ m = 2
      BY <3>1
    <3>3. s[i] = "dash"
      BY <1>4, <2>5 DEF FirstDash
    <3> QED BY <1>4, <2>1, <2>2, <2>5, <3>2, <3>3 DEF Loose
  <2> QED BY <1>4, <2>3, <2>4, <2>5
<1>11. \A k \in 1 .. n : t[k] # "dash"
  BY <1>10 DEF Loose
<1>12. \A k \in 1 .. n : t[k] \notin Loose => t[k] = s[e[k]]
  BY <1>10
<1>13. \A k, l \in 1 .. n : k # l /\ e[k] = e[l] => t[k] \in Loose
  <2> TAKE k, l \in 1 .. n
  <2> HAVE k # l /\ e[k] = e[l]
  <2>1. Len(ps[e[k]]) > 1
    BY <1>9
  <2>2. Len(ps[e[k]]) # 1
    <3>1. ASSUME Len(ps[e[k]]) = 1 PROVE FALSE
      <4>1. 1 > 1
        BY <2>1, <3>1
      <4> QED BY <4>1
    <3> QED BY <3>1
  <2> QED BY <1>10, <2>2
<1>14. \A i \in 1 .. L : CoreAt(s, i) => \E k \in 1 .. n : e[k] = i /\ t[k] = s[i]
  <2> TAKE i \in 1 .. L
  <2> HAVE CoreAt(s, i)
  <2>1. s[i] # "dash" /\ s[i] # "space"
    BY KeptIs DEF CoreAt
  <2>2. Len(ps[i]) = 1 /\ ps[i][1] = s[i]
    <3>1. ~FirstDash(s, i)
      BY <2>1 DEF FirstDash
    <3>2. Len(ps[i]) # 0
      BY <1>1, <1>3, <2>1, DashPieceIs
    <3>3. Len(ps[i]) # 2
      BY <1>4, <3>1
    <3> QED BY <1>4, <3>2, <3>3
  <2>3. 1 \in 1 .. Len(ps[i])
    <3>1. 1 \in 1 .. 1
      OBVIOUS
    <3> QED BY <2>2, <3>1
  <2>4. \E k \in 1 .. n : e[k] = i /\ t[k] = ps[i][1]
    BY <1>9, <2>3
  <2> QED BY <2>2, <2>4
<1>15. Keeps(e, t, s)
  BY <1>1, <1>8, <1>9, <1>12, <1>13, <1>14 DEF Keeps
<1>16. Near(e, t, s)
  <2> SUFFICES ASSUME NEW k \in 1 .. n, NEW l \in 1 .. n, l = k + 1,
                      t[k] \notin Loose, t[l] \notin Loose
               PROVE  e[l] = e[k] + 1
    BY <1>8 DEF Near
  <2>1. PICK a \in 1 .. L, b \in 1 .. L : a = e[k] /\ b = e[l]
    BY <1>9
  <2>2. t[k] = s[a] /\ t[l] = s[b] /\ s[a] # "dash" /\ s[b] # "dash"
    BY <1>10, <2>1
  <2>3. s[a] \notin {"dash", "space"} /\ s[b] \notin {"dash", "space"}
    BY <2>2 DEF Loose
  <2>4. a <= b
    BY <1>9, <2>1
  <2>5. a # b
    BY <1>13, <2>1
  <2>6. ASSUME a + 1 < b PROVE FALSE
    <3>1. PICK h \in a + 1 .. b - 1 : Len(DashPiece(s, h)) # 0
      BY <1>1, <2>3, <2>6, DashesLeave
    <3>2. h \in 1 .. L /\ a < h /\ h < b
      OBVIOUS
    <3>3. 1 \in 1 .. Len(ps[h])
      <4>1. Len(ps[h]) = 1 \/ Len(ps[h]) = 2
        BY <1>3, <1>4, <3>1, <3>2
      <4>2. PICK N \in {1, 2} : N = Len(ps[h])
        BY <4>1
      <4>3. 1 \in 1 .. N
        OBVIOUS
      <4> QED BY <4>2, <4>3
    <3>4. PICK m \in 1 .. n : e[m] = h
      BY <1>9, <3>2, <3>3
    <3>5. m <= k \/ l <= m
      BY <2>1
    <3>6. h <= a \/ b <= h
      BY <1>9, <2>1, <3>4, <3>5
    <3> QED BY <3>2, <3>6
  <2> QED BY <2>1, <2>4, <2>5, <2>6
<1>17. Len(t) <= L + DashRuns(s)
  <2>1. \A i \in 1 .. L : Len(ps[i]) \in {0, 1, 2}
    BY <1>4
  <2>2. \A i \in 1 .. Len(ps) : Len(ps[i]) <= 2
    <3> TAKE i \in 1 .. Len(ps)
    <3>1. PICK N \in {0, 1, 2} : N = Len(ps[i])
      BY <1>5, <2>1
    <3>2. N <= 2
      OBVIOUS
    <3> QED BY <3>1, <3>2
  <2>3. Len(t) <= L + Cardinality(Long(ps, L))
    BY <1>1, <1>5, <1>6, <1>7, <2>2, FlattenLength
  <2>4. \A i \in 1 .. L : Len(ps[i]) > 1 <=> FirstDash(s, i)
    <3> TAKE i \in 1 .. L
    <3>1. PICK N \in {0, 1, 2} : N = Len(ps[i])
      BY <2>1
    <3>2. N = 2 <=> FirstDash(s, i)
      BY <1>1, <1>3, <3>1, DashPieceIs DEF FirstDash
    <3>3. N > 1 <=> N = 2
      OBVIOUS
    <3> QED BY <3>1, <3>2, <3>3
  <2>5. Long(ps, L) = {i \in 1 .. L : FirstDash(s, i)}
    BY <2>4 DEF Long
  <2>6. DashRuns(s) = Cardinality(Long(ps, L))
    BY <1>1, <2>5 DEF DashRuns, FirstDash
  <2> QED BY <2>3, <2>6
<1> QED BY <1>1, <1>7, <1>8, <1>11, <1>15, <1>16, <1>17

-----------------------------------------------------------------------------
(* One rewrite after the other *)

EmojiBetween(s, i, j) ==
    j = i + 1 \/ (s[i + 1] = "emoji" /\ \A h \in i + 1 .. j - 1 : s[h] \in {"emoji", "joiner"})

\* Of the words and marks that touch now, those that did not touch had nothing
\* but emoji between them.
Touch(e, t, s) ==
    \A k, l \in 1 .. Len(t) :
        l = k + 1 /\ t[k] \in Joining /\ t[l] \in Joining => EmojiBetween(s, e[k], e[l])

LEMMA ThinsBetween ==
    ASSUME NEW T, NEW s \in Seq(T), NEW t \in Seq(T), NEW S, NEW e, Thins(e, t, s, S),
           NEW k \in 1 .. Len(t), NEW l \in 1 .. Len(t), l = k + 1
    PROVE  /\ e[k] \in 1 .. Len(s) /\ e[l] \in 1 .. Len(s) /\ e[k] < e[l]
           /\ t[k] = s[e[k]] /\ t[l] = s[e[l]]
           /\ \A h \in e[k] + 1 .. e[l] - 1 : h \in 1 .. Len(s) /\ h \in S
<1>1. PICK n \in Nat, L \in Nat : n = Len(t) /\ L = Len(s)
  OBVIOUS
<1>2. /\ e \in [1 .. n -> 1 .. L]
      /\ \A g, h \in 1 .. n : g < h => e[g] < e[h]
      /\ \A h \in 1 .. n : t[h] = s[e[h]] /\ e[h] \notin S
      /\ \A i \in 1 .. L : i \notin S => \E h \in 1 .. n : e[h] = i
  BY <1>1 DEF Thins
<1>3. PICK a \in 1 .. L, b \in 1 .. L : a = e[k] /\ b = e[l]
  BY <1>1, <1>2
<1>4. a < b /\ t[k] = s[a] /\ t[l] = s[b]
  BY <1>1, <1>2, <1>3
<1>5. ASSUME NEW h \in a + 1 .. b - 1 PROVE h \in 1 .. L /\ h \in S
  <2>1. h \in 1 .. L /\ a < h /\ h < b
    OBVIOUS
  <2>2. ASSUME h \notin S PROVE FALSE
    <3>1. PICK m \in 1 .. n : e[m] = h
      BY <1>2, <2>1, <2>2
    <3>2. m < k \/ m = k \/ m = l \/ l < m
      BY <1>1
    <3>3. h < a \/ h = a \/ h = b \/ b < h
      BY <1>1, <1>2, <1>3, <3>1, <3>2
    <3> QED BY <2>1, <3>3
  <2> QED BY <2>1, <2>2
<1> QED BY <1>1, <1>3, <1>4, <1>5

LEMMA NearAll ==
    ASSUME NEW T, NEW s \in Seq(T), NEW t \in Seq(T), NEW e, Keeps(e, t, s), Near(e, t, s),
           NEW a \in 1 .. Len(t), NEW b \in 1 .. Len(t), a <= b,
           \A h \in a .. b : t[h] \notin Loose
    PROVE  \A h \in a .. b : e[h] = e[a] + (h - a)
<1>1. PICK n \in Nat, L \in Nat : n = Len(t) /\ L = Len(s)
  OBVIOUS
<1>2. \A h \in 1 .. n : e[h] \in 1 .. L
  BY <1>1 DEF Keeps
<1> DEFINE C == {h \in a .. b : e[h] # e[a] + (h - a)}
<1>3. SUFFICES ASSUME C # {} PROVE FALSE
  OBVIOUS
<1>4. PICK h \in C : \A g \in C : h <= g
  <2>1. C \in SUBSET Nat
    OBVIOUS
  <2> HIDE DEF C
  <2> QED BY <1>3, <2>1, LeastNat
<1>5. h \in a .. b /\ e[h] # e[a] + (h - a)
  BY <1>4
<1>6. h # a
  BY <1>1, <1>2, <1>5
<1>7. PICK g : g = h - 1
  OBVIOUS
<1>8. g \in a .. b /\ g \in 1 .. n /\ h \in 1 .. n /\ h = g + 1 /\ g < h
  BY <1>1, <1>5, <1>6, <1>7
<1>9. e[g] = e[a] + (g - a)
  <2>1. g \notin C
    BY <1>4, <1>8
  <2> QED BY <1>8, <2>1
<1>10. e[h] = e[g] + 1
  BY <1>1, <1>5, <1>8 DEF Near
<1>11. e[a] \in 1 .. L
  BY <1>1, <1>2
<1> QED BY <1>5, <1>8, <1>9, <1>10, <1>11

LEMMA EmojiTouch ==
    ASSUME NEW T, NEW s \in Seq(T), NEW t \in Seq(T), NEW u \in Seq(T),
           NEW e, Keeps(e, t, s), Near(e, t, s), NEW d, Thins(d, u, t, EmojiRuns(t))
    PROVE  Touch([k \in 1 .. Len(u) |-> e[d[k]]], u, s)
<1>1. PICK f : f = [k \in 1 .. Len(u) |-> e[d[k]]]
  OBVIOUS
<1> SUFFICES ASSUME NEW k \in 1 .. Len(u), NEW l \in 1 .. Len(u), l = k + 1,
                    u[k] \in Joining, u[l] \in Joining
             PROVE  EmojiBetween(s, f[k], f[l])
  BY <1>1 DEF Touch
<1>2. PICK n \in Nat, L \in Nat : n = Len(t) /\ L = Len(s)
  OBVIOUS
<1>3. PICK a, b : a = d[k] /\ b = d[l]
  OBVIOUS
<1>4. /\ a \in 1 .. n /\ b \in 1 .. n /\ a < b /\ t[a] \in Joining /\ t[b] \in Joining
      /\ \A h \in a + 1 .. b - 1 : h \in 1 .. n /\ h \in EmojiRuns(t)
  <2>1. PICK S : S = EmojiRuns(t) /\ Thins(d, u, t, S)
    OBVIOUS
  <2>2. /\ d[k] \in 1 .. Len(t) /\ d[l] \in 1 .. Len(t) /\ d[k] < d[l]
        /\ u[k] = t[d[k]] /\ u[l] = t[d[l]]
        /\ \A h \in d[k] + 1 .. d[l] - 1 : h \in 1 .. Len(t) /\ h \in S
    BY <2>1, ThinsBetween
  <2> QED BY <1>2, <1>3, <2>1, <2>2
<1>5. f[k] = e[a] /\ f[l] = e[b]
  BY <1>1, <1>3
<1>6. \A h \in a + 1 .. b - 1 : t[h] \in {"emoji", "joiner"}
  <2> TAKE h \in a + 1 .. b - 1
  <2>1. h \in 1 .. Len(t) /\ h \in EmojiRuns(t)
    BY <1>2, <1>4
  <2> QED BY <2>1, TakenAre
<1>7. \A h \in a .. b : t[h] \notin Loose
  <2> TAKE h \in a .. b
  <2>1. h = a \/ h = b \/ h \in a + 1 .. b - 1
    BY <1>4
  <2>2. PICK x : x = t[h]
    OBVIOUS
  <2>3. x \in Joining \/ x \in {"emoji", "joiner"}
    BY <1>4, <1>6, <2>1, <2>2
  <2>4. x \notin Loose
    BY <2>3, KeptIs DEF Loose
  <2> QED BY <2>2, <2>4
<1>8. \A h \in a .. b : e[h] = e[a] + (h - a)
  <2>1. a \in 1 .. Len(t) /\ b \in 1 .. Len(t) /\ a <= b
    BY <1>2, <1>4
  <2> QED BY <1>7, <2>1, NearAll, SMTT(30)
<1>9. PICK i \in 1 .. L, j \in 1 .. L : i = e[a] /\ j = e[b]
  BY <1>2, <1>4 DEF Keeps
<1>10. j = i + (b - a)
  BY <1>4, <1>8, <1>9
<1>11. \A h \in 1 .. n : t[h] \notin Loose => t[h] = s[e[h]]
  BY <1>2 DEF Keeps
<1>12. \A g \in i + 1 .. j - 1 : \E h \in a + 1 .. b - 1 : g = i + (h - a) /\ s[g] = t[h]
  <2> TAKE g \in i + 1 .. j - 1
  <2>1. PICK h : h = a + (g - i)
    OBVIOUS
  <2>2. h \in a + 1 .. b - 1 /\ h \in a .. b /\ g = i + (h - a) /\ h \in 1 .. n
    BY <1>4, <1>10, <2>1
  <2>3. e[h] = g
    BY <1>8, <1>9, <2>2
  <2>4. t[h] = s[g]
    BY <1>7, <1>11, <2>2, <2>3
  <2> QED BY <2>2, <2>4
<1>13. CASE b = a + 1
  <2>1. j = i + 1
    BY <1>4, <1>10, <1>13
  <2> QED BY <1>5, <1>9, <2>1 DEF EmojiBetween
<1>14. CASE b # a + 1
  <2>1. PICK c : c = a + 1
    OBVIOUS
  <2>2. c \in a + 1 .. b - 1 /\ c \in a .. b /\ c \in 1 .. n
    BY <1>4, <1>14, <2>1, SMTT(30)
  <2>3. PICK m \in 1 .. c : t[m] = "emoji" /\ \A h \in m .. c : t[h] \in {"emoji", "joiner"}
    <3>1. c \in EmojiRuns(t)
      BY <1>4, <2>2
    <3> QED BY <3>1 DEF EmojiRuns, AllIn
  <2>4. m = c
    <3>1. ASSUME m <= a PROVE FALSE
      <4>1. a \in m .. c
        BY <1>4, <2>1, <3>1
      <4>2. PICK x : x = t[a]
        OBVIOUS
      <4>3. x \in Joining /\ x \in {"emoji", "joiner"}
        BY <1>4, <2>3, <4>1, <4>2
      <4> QED BY <4>3, KeptIs
    <3> QED BY <1>4, <2>1, <3>1
  <2>5. e[c] = i + 1
    BY <1>4, <1>8, <1>9, <2>1, <2>2
  <2>6. s[i + 1] = "emoji"
    BY <1>7, <1>11, <2>2, <2>3, <2>4, <2>5
  <2>7. \A h \in i + 1 .. j - 1 : s[h] \in {"emoji", "joiner"}
    BY <1>6, <1>12
  <2> QED BY <1>5, <1>9, <2>6, <2>7 DEF EmojiBetween
<1> QED BY <1>13, <1>14

LEMMA TouchStays ==
    ASSUME NEW s \in Seq(Char), NEW t \in Seq(Char), NEW u \in Seq(Char),
           NEW e, Touch(e, t, s), NEW S, KeepsApart(S, t), NEW d, Thins(d, u, t, S)
    PROVE  Touch([k \in 1 .. Len(u) |-> e[d[k]]], u, s)
<1>1. PICK f : f = [k \in 1 .. Len(u) |-> e[d[k]]]
  OBVIOUS
<1> SUFFICES ASSUME NEW k \in 1 .. Len(u), NEW l \in 1 .. Len(u), l = k + 1,
                    u[k] \in Joining, u[l] \in Joining
             PROVE  EmojiBetween(s, f[k], f[l])
  BY <1>1 DEF Touch
<1>2. PICK a, b : a = d[k] /\ b = d[l]
  OBVIOUS
<1>3. /\ a \in 1 .. Len(t) /\ b \in 1 .. Len(t) /\ a < b /\ t[a] \in Joining /\ t[b] \in Joining
      /\ \A h \in a + 1 .. b - 1 : h \in S
  BY <1>2, ThinsBetween
<1>4. f[k] = e[a] /\ f[l] = e[b]
  BY <1>1, <1>2
<1>5. b = a + 1
  BY <1>3 DEF KeepsApart
<1> QED BY <1>3, <1>4, <1>5 DEF Touch

\* What n rewrites have made of s.
Repaired(t, s, n) ==
    /\ t \in Seq(Char)
    /\ Len(t) <= Len(s) + DashRuns(s)
    /\ n = 0 => t = s
    /\ n >= 1 => \A k \in 1 .. Len(t) : t[k] # "dash"
    /\ n >= 2 => \A k \in 1 .. Len(t) : t[k] # "emoji"
    /\ \E e : Keeps(e, t, s) /\ (n = 1 => Near(e, t, s)) /\ (n >= 2 => Touch(e, t, s))

LEMMA DashRunsNat == ASSUME NEW T, NEW s \in Seq(T) PROVE DashRuns(s) \in Nat
<1>1. PICK I, R : I = 1 .. Len(s) /\ R = {i \in I : s[i] = "dash" /\ (i = 1 \/ s[i - 1] # "dash")}
  OBVIOUS
<1>2. IsFiniteSet(I) /\ R \subseteq I
  BY <1>1, FS_Interval
<1>3. IsFiniteSet(R) /\ DashRuns(s) = Cardinality(R)
  <2>1. IsFiniteSet(R)
    BY <1>2, FS_Subset
  <2>2. DOMAIN s = I
    BY <1>1
  <2> QED BY <1>1, <2>1, <2>2 DEF DashRuns
<1> QED BY <1>3, FS_CardinalityType

LEMMA RepairsFirst ==
    ASSUME NEW s \in Seq(Char)
    PROVE  Repaired(DashesToCommas(s), s, 1)
<1>1. CASE s = <<>>
  <2>1. Len(s) = 0 /\ DOMAIN s = {}
    BY <1>1
  <2>2. PICK ps : ps = [i \in DOMAIN s |-> DashPiece(s, i)]
    OBVIOUS
  <2>3. ps = <<>>
    BY <2>1, <2>2
  <2>4. FlattenSeq(<<>>) = <<>>
    BY DEF FlattenSeq
  <2>5. DashesToCommas(s) = s
    BY <1>1, <2>2, <2>3, <2>4, DashesDef
  <2>6. PICK e : e = [k \in 1 .. 0 |-> 0]
    OBVIOUS
  <2>7. Keeps(e, s, s)
    BY <2>1, <2>6 DEF Keeps
  <2>8. Near(e, s, s)
    BY <2>1 DEF Near
  <2>9. PICK r \in Nat : r = DashRuns(s)
    BY DashRunsNat
  <2>10. Len(s) <= Len(s) + DashRuns(s)
    <3>1. 0 <= 0 + r
      OBVIOUS
    <3> QED BY <2>1, <2>9, <3>1
  <2>11. \A k \in 1 .. Len(s) : s[k] # "dash"
    BY <2>1
  <2> QED BY <2>5, <2>7, <2>8, <2>10, <2>11 DEF Repaired
<1>2. CASE s # <<>>
  BY <1>2, DashesKeep DEF Repaired
<1> QED BY <1>1, <1>2

LEMMA RepairsNext ==
    ASSUME NEW s \in Seq(Char), NEW t \in Seq(Char), NEW n \in 1 .. 6, Repaired(t, s, n)
    PROVE  Repaired(Rewrite(n + 1, t), s, n + 1)
<1>1. PICK m \in 2 .. 7 : m = n + 1
  OBVIOUS
<1>2. PICK u, S : u = Rewrite(m, t) /\ S = Taken(m, t)
  OBVIOUS
<1>3. u = Without(t, S)
  BY <1>2, RewriteTakes
<1>4. u \in Seq(Char) /\ Len(u) <= Len(t)
  BY <1>3, WithoutIs
<1>5. PICK d : Thins(d, u, t, S)
  BY <1>3, WithoutIs
<1>6. PICK e : Keeps(e, t, s) /\ (n = 1 => Near(e, t, s)) /\ (n >= 2 => Touch(e, t, s))
  BY DEF Repaired
<1>7. Keeps(d, u, t)
  BY <1>2, <1>4, <1>5, CoreNotTaken, ThinsKeeps
<1>8. PICK f : f = [k \in 1 .. Len(u) |-> e[d[k]]]
  OBVIOUS
<1>9. Keeps(f, u, s)
  BY <1>4, <1>6, <1>7, <1>8, KeepsTrans, SMTT(30)
<1>10. Touch(f, u, s)
  <2>1. CASE n = 1
    <3>1. S = EmojiRuns(t)
      BY <1>1, <1>2, <2>1 DEF Taken
    <3>2. Thins(d, u, t, EmojiRuns(t))
      BY <1>5, <3>1
    <3>3. Touch([k \in 1 .. Len(u) |-> e[d[k]]], u, s)
      BY <1>4, <1>6, <2>1, <3>2, EmojiTouch
    <3> QED BY <1>8, <3>3
  <2>2. CASE n # 1
    <3>1. Touch(e, t, s)
      BY <1>6, <2>2
    <3>2. m \in 3 .. 7
      BY <1>1, <2>2
    <3>3. KeepsApart(S, t)
      BY <1>2, <3>2, TakesBetween
    <3>4. Touch([k \in 1 .. Len(u) |-> e[d[k]]], u, s)
      BY <1>4, <1>5, <3>1, <3>3, TouchStays
    <3> QED BY <1>8, <3>4
  <2> QED BY <2>1, <2>2
<1>11. Len(u) <= Len(s) + DashRuns(s)
  <2>1. PICK a \in Nat, b \in Nat, c \in Nat, r \in Nat :
            a = Len(u) /\ b = Len(t) /\ c = Len(s) /\ r = DashRuns(s)
    BY <1>4, DashRunsNat
  <2>2. a <= b /\ b <= c + r
    BY <1>4, <2>1 DEF Repaired
  <2> QED BY <2>1, <2>2
<1>12. \A k \in 1 .. Len(u) : \E i \in 1 .. Len(t) : u[k] = t[i] /\ i \notin S
  BY <1>5 DEF Thins
<1>13. \A k \in 1 .. Len(u) : u[k] # "dash"
  <2>1. \A i \in 1 .. Len(t) : t[i] # "dash"
    BY DEF Repaired
  <2> QED BY <1>12, <2>1
<1>14. \A k \in 1 .. Len(u) : u[k] # "emoji"
  <2>1. CASE n = 1
    <3>1. S = EmojiRuns(t)
      BY <1>1, <1>2, <2>1 DEF Taken
    <3>2. ASSUME NEW i \in 1 .. Len(t), t[i] = "emoji" PROVE i \in S
      <4>1. i \in 1 .. i /\ \A h \in i .. i : t[h] \in {"emoji", "joiner"}
        BY <3>2
      <4> QED BY <3>1, <3>2, <4>1 DEF EmojiRuns, AllIn
    <3> QED BY <1>12, <3>2
  <2>2. CASE n # 1
    <3>1. \A i \in 1 .. Len(t) : t[i] # "emoji"
      BY <2>2 DEF Repaired
    <3> QED BY <1>12, <3>1
  <2> QED BY <2>1, <2>2
<1>15. Repaired(u, s, m)
  BY <1>1, <1>4, <1>9, <1>10, <1>11, <1>13, <1>14 DEF Repaired
<1> QED BY <1>1, <1>2, <1>15

\* What holds while a bio is repaired, and of every verdict.
Repair ==
    /\ Read
    /\ parsed.is = "object" => Repaired(output.text, parsed.text, rewrites)
    /\ rewrites # 0 => IsBio
    /\ status = "review" => ~ValidCandidate(reply.task, output)

LEMMA RepairedAtFirst == ASSUME NEW s \in Seq(Char) PROVE Repaired(s, s, 0)
<1>1. Keeps([k \in 1 .. Len(s) |-> k], s, s)
  BY KeepsAll
<1>2. PICK L \in Nat, r \in Nat : L = Len(s) /\ r = DashRuns(s)
  BY DashRunsNat
<1>3. L <= L + r
  OBVIOUS
<1> QED BY <1>1, <1>2, <1>3 DEF Repaired

LEMMA InitRepair == Init => Repair
<1> SUFFICES ASSUME Init PROVE Repair
  OBVIOUS
<1>1. parsed.is # "object" /\ rewrites = 0 /\ status = "open"
  BY TokenIs DEF Init, Nothing
<1> QED BY <1>1, InitRead DEF Repair

LEMMA NextRepair == Repair /\ [Next]_vars => Repair'
<1> SUFFICES ASSUME Repair, [Next]_vars PROVE Repair'
  OBVIOUS
<1>1. Read /\ Read'
  BY NextRead DEF Repair
<1>2. CASE UNCHANGED vars
  BY <1>1, <1>2 DEF vars, Repair, IsBio
<1>3. CASE Parse
  <2>1. /\ pc = "parse" /\ parsed = Nothing /\ output = Nothing /\ rewrites = 0
        /\ UNCHANGED <<reply, rewrites>>
    BY <1>1, <1>3 DEF Parse, Read
  <2>2. CASE \/ Fail("provider_output_truncated") \/ Fail("provider_output_empty")
             \/ Fail("provider_output_invalid")
    <3>1. parsed' = Nothing /\ status' # "review"
      BY <2>1, <2>2 DEF Fail
    <3>2. parsed'.is # "object"
      BY <3>1, TokenIs DEF Nothing
    <3> QED BY <1>1, <2>1, <3>1, <3>2 DEF Repair
  <2>3. CASE /\ parsed' = Loads(reply.content) /\ output' = parsed' /\ UNCHANGED status
    <3>1. status' = "open"
      BY <1>1, <2>1, <2>3 DEF Read
    <3>2. parsed'.is = "object" => Repaired(output'.text, parsed'.text, rewrites')
      <4> SUFFICES ASSUME parsed'.is = "object"
                   PROVE  Repaired(output'.text, parsed'.text, rewrites')
        OBVIOUS
      <4>1. PICK s : s = parsed'.text
        OBVIOUS
      <4>2. s \in Seq(Char)
        BY <1>1, <4>1 DEF Read, Shaped, Typed
      <4>3. output'.text = s /\ rewrites' = 0
        BY <2>1, <2>3, <4>1
      <4> QED BY <4>1, <4>2, <4>3, RepairedAtFirst
    <3> QED BY <1>1, <2>1, <3>1, <3>2 DEF Repair
  <2> QED BY <1>3, <2>2, <2>3 DEF Parse
<1>4. CASE Normalize
  <2>1. UNCHANGED <<reply, parsed, output, rewrites, status>>
    BY <1>4 DEF Normalize
  <2> QED BY <1>1, <2>1 DEF Repair, IsBio
<1>5. CASE CleanBio
  <2>1. /\ output.is = "object" /\ output'.is = "object" /\ output'.fields = output.fields
        /\ output'.text = Rewrite(rewrites + 1, output.text)
    BY <1>1, <1>5, CleanBioReads
  <2>2. /\ pc = "clean" /\ rewrites' = rewrites + 1
        /\ UNCHANGED <<reply, parsed, status>>
    BY <1>5 DEF CleanBio
  <2>3. IsBio /\ rewrites \in 0 .. 6 /\ status = "open" /\ parsed.is = "object"
    BY <1>1, <2>1, <2>2 DEF Read, Shaped
  <2>4. IsBio'
    BY <2>1, <2>2, <2>3 DEF IsBio, HasKind
  <2>5. PICK s, t : s = parsed.text /\ t = output.text
    OBVIOUS
  <2>6. PICK n \in 0 .. 6 : n = rewrites
    BY <2>3
  <2>7. s \in Seq(Char) /\ Repaired(t, s, n) /\ t \in Seq(Char)
    BY <1>1, <2>3, <2>5, <2>6 DEF Repair, Repaired, Read, Shaped, Typed
  <2>8. Repaired(Rewrite(n + 1, t), s, n + 1)
    <3>1. CASE n = 0
      <4>1. t = s
        BY <2>7, <3>1 DEF Repaired
      <4>2. Rewrite(1, s) = DashesToCommas(s)
        BY DEF Rewrite
      <4>3. n + 1 = 1
        BY <3>1
      <4> QED BY <2>7, <4>1, <4>2, <4>3, RepairsFirst
    <3>2. CASE n # 0
      <4>1. n \in 1 .. 6
        BY <3>2
      <4> QED BY <2>7, <4>1, RepairsNext
    <3> QED BY <3>1, <3>2
  <2>9. Repaired(output'.text, parsed'.text, rewrites')
    BY <2>1, <2>2, <2>5, <2>6, <2>8
  <2> QED BY <1>1, <2>2, <2>3, <2>4, <2>9 DEF Repair
<1>6. CASE Validate
  <2>1. /\ UNCHANGED <<reply, parsed, output, rewrites>>
        /\ status' = IF ValidCandidate(reply.task, output) THEN "completed" ELSE "review"
    BY <1>6 DEF Validate
  <2>2. status' = "review" => ~ValidCandidate(reply'.task, output')
    BY <2>1
  <2> QED BY <1>1, <2>1, <2>2 DEF Repair, IsBio
<1> QED BY <1>2, <1>3, <1>4, <1>5, <1>6 DEF Next, Terminating

LEMMA RepairHolds == Spec => []Repair
BY InitRepair, NextRepair, PTL DEF Spec

-----------------------------------------------------------------------------
(* The words of a text *)

NotCore(s) == {i \in 1 .. Len(s) : ~CoreAt(s, i)}

LEMMA ThinsBefore ==
    ASSUME NEW T, NEW s \in Seq(T), NEW t \in Seq(T), NEW u \in Seq(T), NEW S,
           NEW e, Thins(e, t, s, S), NEW d, Thins(d, u, s, S)
    PROVE  \A k \in 1 .. Len(t) : k <= Len(u) /\ t[k] = u[k]
<1>1. PICK n \in Nat, p \in Nat, L \in Nat : n = Len(t) /\ p = Len(u) /\ L = Len(s)
  OBVIOUS
<1>2. /\ \A k \in 1 .. n : e[k] \in 1 .. L
      /\ \A k, l \in 1 .. n : k < l => e[k] < e[l]
      /\ \A k \in 1 .. n : t[k] = s[e[k]] /\ e[k] \notin S
      /\ \A i \in 1 .. L : i \notin S => \E k \in 1 .. n : e[k] = i
  BY <1>1 DEF Thins
<1>3. /\ \A k \in 1 .. p : d[k] \in 1 .. L
      /\ \A k, l \in 1 .. p : k < l => d[k] < d[l]
      /\ \A k \in 1 .. p : u[k] = s[d[k]] /\ d[k] \notin S
      /\ \A i \in 1 .. L : i \notin S => \E k \in 1 .. p : d[k] = i
  BY <1>1 DEF Thins
<1> DEFINE C == {k \in 1 .. n : ~(k <= p /\ e[k] = d[k])}
<1>4. SUFFICES ASSUME C # {} PROVE FALSE
  <2>1. C # {} \/ \A k \in 1 .. n : k <= p /\ e[k] = d[k]
    OBVIOUS
  <2>2. ASSUME NEW k \in 1 .. n, k <= p, e[k] = d[k] PROVE t[k] = u[k]
    <3>1. k \in 1 .. p
      BY <2>2
    <3> QED BY <1>2, <1>3, <2>2, <3>1, SMTT(30)
  <2> QED BY <1>1, <2>1, <2>2
<1>5. PICK k \in C : \A h \in C : k <= h
  <2>1. C \in SUBSET Nat
    OBVIOUS
  <2> HIDE DEF C
  <2> QED BY <1>4, <2>1, LeastNat
<1>6. k \in 1 .. n /\ ~(k <= p /\ e[k] = d[k])
  BY <1>5
<1>7. \A h \in 1 .. n : h < k => h \in 1 .. p /\ e[h] = d[h]
  <2> TAKE h \in 1 .. n
  <2> HAVE h < k
  <2>1. h \notin C
    BY <1>5, <1>6
  <2> QED BY <2>1
<1>8. PICK a \in 1 .. L : a = e[k] /\ a \notin S
  BY <1>2, <1>6
<1>9. PICK m \in 1 .. p : d[m] = a
  BY <1>3, <1>8
<1>10. k <= m
  <2>1. ASSUME m < k PROVE FALSE
    <3>1. m \in 1 .. n
      BY <1>6, <2>1
    <3>2. e[m] = a
      BY <1>7, <1>9, <2>1, <3>1
    <3>3. e[m] < e[k]
      BY <1>2, <1>6, <2>1, <3>1
    <3> QED BY <1>8, <3>2, <3>3
  <2> QED BY <1>6, <2>1
<1>11. k \in 1 .. p
  BY <1>6, <1>10
<1>12. PICK b \in 1 .. L : b = d[k] /\ b \notin S
  BY <1>3, <1>11
<1>13. b <= a
  <2>1. CASE k = m
    BY <1>9, <1>12, <2>1
  <2>2. CASE k < m
    BY <1>3, <1>9, <1>11, <1>12, <2>2
  <2> QED BY <1>10, <1>11, <2>1, <2>2
<1>14. PICK g \in 1 .. n : e[g] = b
  BY <1>2, <1>12
<1>15. k <= g
  <2>1. ASSUME g < k PROVE FALSE
    <3>1. g \in 1 .. p /\ d[g] = b
      BY <1>7, <1>14, <2>1
    <3>2. d[g] < d[k]
      BY <1>3, <1>11, <2>1, <3>1
    <3> QED BY <1>12, <3>1, <3>2
  <2> QED BY <1>6, <2>1
<1>16. a <= b
  <2>1. CASE k = g
    BY <1>8, <1>14, <2>1
  <2>2. CASE k < g
    BY <1>2, <1>6, <1>8, <1>14, <2>2
  <2> QED BY <1>6, <1>15, <2>1, <2>2
<1>17. a = b
  BY <1>13, <1>16
<1> QED BY <1>6, <1>8, <1>11, <1>12, <1>17

\* There is only one way to thin a text.
LEMMA ThinsUnique ==
    ASSUME NEW T, NEW s \in Seq(T), NEW t \in Seq(T), NEW u \in Seq(T), NEW S,
           NEW e, Thins(e, t, s, S), NEW d, Thins(d, u, s, S)
    PROVE  t = u
<1>1. PICK n \in Nat, p \in Nat : n = Len(t) /\ p = Len(u)
  OBVIOUS
<1>2. \A k \in 1 .. n : k <= p /\ t[k] = u[k]
  BY <1>1, ThinsBefore
<1>3. \A k \in 1 .. p : k <= n
  BY <1>1, ThinsBefore
<1>4. n <= p
  <2>1. n = 0 \/ n \in 1 .. n
    OBVIOUS
  <2> QED BY <1>2, <2>1
<1>5. p <= n
  <2>1. p = 0 \/ p \in 1 .. p
    OBVIOUS
  <2> QED BY <1>3, <2>1
<1>6. Len(t) = Len(u) /\ \A k \in 1 .. Len(t) : t[k] = u[k]
  BY <1>1, <1>2, <1>4, <1>5
<1> QED BY <1>6

LEMMA KeptOfIs ==
    ASSUME NEW s \in Seq(Char)
    PROVE  KeptOf(s) \in Seq(Char) /\ \E e : Thins(e, KeptOf(s), s, NotCore(s))
<1>1. PICK S : S = {i \in DOMAIN s : s[i] \notin Kept}
  OBVIOUS
<1>2. PICK v, d : v = Without(s, S) /\ v \in Seq(Char) /\ Thins(d, v, s, S)
  BY WithoutIs
<1>3. PICK w, g : w = Strip(v) /\ w \in Seq(Char) /\ Thins(g, w, v, Outer(v))
  BY <1>2, WithoutIs DEF Strip
<1>4. KeptOf(s) = w
  BY <1>1, <1>2, <1>3 DEF KeptOf
<1>5. PICK L \in Nat, n \in Nat, p \in Nat :
          L = Len(s) /\ n = Len(v) /\ p = Len(w) /\ DOMAIN s = 1 .. L /\ DOMAIN v = 1 .. n
  BY <1>2, <1>3
<1>6. /\ d \in [1 .. n -> 1 .. L]
      /\ \A k, l \in 1 .. n : k < l => d[k] < d[l]
      /\ \A k \in 1 .. n : v[k] = s[d[k]] /\ d[k] \notin S
      /\ \A i \in 1 .. L : i \notin S => \E k \in 1 .. n : d[k] = i
  BY <1>2, <1>5 DEF Thins
<1>7. /\ g \in [1 .. p -> 1 .. n]
      /\ \A k, l \in 1 .. p : k < l => g[k] < g[l]
      /\ \A k \in 1 .. p : w[k] = v[g[k]] /\ g[k] \notin Outer(v)
      /\ \A i \in 1 .. n : i \notin Outer(v) => \E k \in 1 .. p : g[k] = i
  BY <1>3, <1>5 DEF Thins
<1>8. \A i \in 1 .. L : i \in S <=> s[i] \notin Kept
  BY <1>1, <1>5
<1>9. \A k \in 1 .. n : k \notin Outer(v) <=> CoreAt(s, d[k])
  <2> TAKE k \in 1 .. n
  <2>1. PICK i \in 1 .. L : i = d[k] /\ s[i] \in Kept
    BY <1>6, <1>8
  <2>2. \A h \in 1 .. n : v[h] \notin Whitespace <=> s[d[h]] \in Word
    <3> TAKE h \in 1 .. n
    <3>1. PICK x : x = v[h] /\ x = s[d[h]] /\ x \in Kept
      BY <1>6, <1>8
    <3>2. x \notin Whitespace <=> x \in Word
      BY <3>1 DEF Kept, Word, Whitespace
    <3> QED BY <3>1, <3>2
  <2>3. k \notin Outer(v) <=> /\ \E h \in 1 .. k : v[h] \notin Whitespace
                              /\ \E h \in k .. n : v[h] \notin Whitespace
    BY <1>5 DEF Outer, AllIn
  <2>4. (\E h \in 1 .. k : v[h] \notin Whitespace) <=> (\E a \in 1 .. L : a <= i /\ s[a] \in Word)
    <3>1. ASSUME NEW h \in 1 .. k, v[h] \notin Whitespace
          PROVE  d[h] \in 1 .. L /\ d[h] <= i /\ s[d[h]] \in Word
      <4>1. h \in 1 .. n /\ (h < k \/ h = k)
        OBVIOUS
      <4>2. d[h] \in 1 .. L
        BY <1>6, <4>1
      <4>3. d[h] <= i
        BY <1>6, <2>1, <4>1, <4>2
      <4> QED BY <2>2, <3>1, <4>1, <4>2, <4>3
    <3>2. ASSUME NEW a \in 1 .. L, a <= i, s[a] \in Word
          PROVE  \E h \in 1 .. k : v[h] \notin Whitespace
      <4>1. a \notin S
        BY <1>8, <3>2, KeptIs
      <4>2. PICK h \in 1 .. n : d[h] = a
        BY <1>6, <4>1
      <4>3. h <= k
        <5>1. ASSUME k < h PROVE FALSE
          <6>1. i < a
            BY <1>6, <2>1, <4>2, <5>1
          <6> QED BY <3>2, <6>1
        <5> QED BY <5>1
      <4>4. v[h] \notin Whitespace
        BY <2>2, <3>2, <4>2
      <4>5. h \in 1 .. k
        BY <4>3
      <4> QED BY <4>4, <4>5
    <3> QED BY <3>1, <3>2
  <2>5. (\E h \in k .. n : v[h] \notin Whitespace) <=> (\E b \in 1 .. L : i <= b /\ s[b] \in Word)
    <3>1. ASSUME NEW h \in k .. n, v[h] \notin Whitespace
          PROVE  d[h] \in 1 .. L /\ i <= d[h] /\ s[d[h]] \in Word
      <4>1. h \in 1 .. n /\ (k < h \/ h = k)
        OBVIOUS
      <4>2. d[h] \in 1 .. L
        BY <1>6, <4>1
      <4>3. i <= d[h]
        BY <1>6, <2>1, <4>1, <4>2
      <4> QED BY <2>2, <3>1, <4>1, <4>2, <4>3
    <3>2. ASSUME NEW b \in 1 .. L, i <= b, s[b] \in Word
          PROVE  \E h \in k .. n : v[h] \notin Whitespace
      <4>1. b \notin S
        BY <1>8, <3>2, KeptIs
      <4>2. PICK h \in 1 .. n : d[h] = b
        BY <1>6, <4>1
      <4>3. k <= h
        <5>1. ASSUME h < k PROVE FALSE
          <6>1. b < i
            BY <1>6, <2>1, <4>2, <5>1
          <6> QED BY <3>2, <6>1
        <5> QED BY <5>1
      <4>4. v[h] \notin Whitespace
        BY <2>2, <3>2, <4>2
      <4>5. h \in k .. n
        BY <4>3
      <4> QED BY <4>4, <4>5
    <3> QED BY <3>1, <3>2
  <2>6. CoreAt(s, i) <=> /\ \E a \in 1 .. L : a <= i /\ s[a] \in Word
                         /\ \E b \in 1 .. L : i <= b /\ s[b] \in Word
    BY <1>5, <2>1 DEF CoreAt
  <2>7. k \notin Outer(v) <=> CoreAt(s, i)
    BY <2>3, <2>4, <2>5, <2>6
  <2> QED BY <2>1, <2>7
<1>10. PICK f : f = [k \in 1 .. p |-> d[g[k]]]
  OBVIOUS
<1>11. \A k \in 1 .. p : g[k] \in 1 .. n /\ d[g[k]] \in 1 .. L /\ f[k] = d[g[k]]
  BY <1>6, <1>7, <1>10
<1>12. f \in [1 .. p -> 1 .. L]
  BY <1>10, <1>11
<1>13. \A k, l \in 1 .. p : k < l => f[k] < f[l]
  BY <1>6, <1>7, <1>11
<1>14. \A k \in 1 .. p : w[k] = s[f[k]] /\ f[k] \notin NotCore(s)
  <2> TAKE k \in 1 .. p
  <2>1. PICK h \in 1 .. n : h = g[k] /\ w[k] = v[h] /\ h \notin Outer(v)
    BY <1>7
  <2>2. PICK j \in 1 .. L : j = d[h] /\ v[h] = s[j]
    BY <1>6
  <2>3. f[k] = j
    BY <1>11, <2>1, <2>2
  <2>4. CoreAt(s, j)
    BY <1>9, <2>1, <2>2
  <2> QED BY <2>1, <2>2, <2>3, <2>4 DEF NotCore
<1>15. \A i \in 1 .. L : i \notin NotCore(s) => \E k \in 1 .. p : f[k] = i
  <2> TAKE i \in 1 .. L
  <2> HAVE i \notin NotCore(s)
  <2>1. CoreAt(s, i)
    BY <1>5 DEF NotCore
  <2>2. i \notin S
    BY <1>8, <2>1 DEF CoreAt
  <2>3. PICK k \in 1 .. n : d[k] = i
    BY <1>6, <2>2
  <2>4. k \notin Outer(v)
    BY <1>9, <2>1, <2>3
  <2>5. PICK m \in 1 .. p : g[m] = k
    BY <1>7, <2>4
  <2> QED BY <1>11, <2>3, <2>5
<1>16. Thins(f, w, s, NotCore(s))
  BY <1>5, <1>12, <1>13, <1>14, <1>15 DEF Thins
<1> QED BY <1>3, <1>4, <1>16

LEMMA KeepsKeptOf ==
    ASSUME NEW s \in Seq(Char), NEW t \in Seq(Char), NEW e, Keeps(e, t, s)
    PROVE  KeptOf(t) = KeptOf(s)
<1>1. PICK w, d : w = KeptOf(t) /\ w \in Seq(Char) /\ Thins(d, w, t, NotCore(t))
  BY KeptOfIs
<1>2. PICK L \in Nat, n \in Nat, p \in Nat : L = Len(s) /\ n = Len(t) /\ p = Len(w)
  BY <1>1
<1>3. /\ e \in [1 .. n -> 1 .. L]
      /\ \A k, l \in 1 .. n : k <= l => e[k] <= e[l]
      /\ \A k \in 1 .. n : t[k] \notin Loose => t[k] = s[e[k]]
      /\ \A k, l \in 1 .. n : k # l /\ e[k] = e[l] => t[k] \in Loose
      /\ \A i \in 1 .. L : CoreAt(s, i) => \E k \in 1 .. n : e[k] = i /\ t[k] = s[i]
  BY <1>2 DEF Keeps
<1>4. /\ d \in [1 .. p -> 1 .. n]
      /\ \A k, l \in 1 .. p : k < l => d[k] < d[l]
      /\ \A k \in 1 .. p : w[k] = t[d[k]] /\ d[k] \notin NotCore(t)
      /\ \A i \in 1 .. n : i \notin NotCore(t) => \E k \in 1 .. p : d[k] = i
  BY <1>1, <1>2 DEF Thins
<1>5. \A k \in 1 .. n : CoreAt(t, k) => t[k] \notin Loose /\ t[k] = s[e[k]] /\ CoreAt(s, e[k])
  <2> TAKE k \in 1 .. n
  <2> HAVE CoreAt(t, k)
  <2>1. PICK i \in 1 .. L : i = e[k]
    BY <1>3
  <2>2. t[k] \in Kept /\ t[k] \notin Loose
    BY KeptIs DEF CoreAt
  <2>3. t[k] = s[i]
    BY <1>3, <2>1, <2>2
  <2>4. \A h \in 1 .. n : t[h] \in Word => e[h] \in 1 .. L /\ s[e[h]] \in Word
    <3> TAKE h \in 1 .. n
    <3> HAVE t[h] \in Word
    <3>1. t[h] \notin Loose
      BY KeptIs
    <3> QED BY <1>3, <3>1
  <2>5. \E a \in 1 .. L : a <= i /\ s[a] \in Word
    <3>1. PICK h \in 1 .. n : h <= k /\ t[h] \in Word
      BY <1>2 DEF CoreAt
    <3>2. e[h] \in 1 .. L /\ e[h] <= i /\ s[e[h]] \in Word
      BY <1>3, <2>1, <2>4, <3>1
    <3> QED BY <3>2
  <2>6. \E b \in 1 .. L : i <= b /\ s[b] \in Word
    <3>1. PICK h \in 1 .. n : k <= h /\ t[h] \in Word
      BY <1>2 DEF CoreAt
    <3>2. e[h] \in 1 .. L /\ i <= e[h] /\ s[e[h]] \in Word
      BY <1>3, <2>1, <2>4, <3>1
    <3> QED BY <3>2
  <2> QED BY <1>2, <2>1, <2>2, <2>3, <2>5, <2>6 DEF CoreAt
<1>6. \A k \in 1 .. p : d[k] \in 1 .. n /\ CoreAt(t, d[k])
  BY <1>2, <1>4 DEF NotCore
<1>7. PICK f : f = [k \in 1 .. p |-> e[d[k]]]
  OBVIOUS
<1>8. \A k \in 1 .. p : e[d[k]] \in 1 .. L /\ f[k] = e[d[k]]
  BY <1>3, <1>6, <1>7
<1>9. f \in [1 .. p -> 1 .. L]
  BY <1>7, <1>8
<1>10. \A k, l \in 1 .. p : k < l => f[k] < f[l]
  <2> TAKE k, l \in 1 .. p
  <2> HAVE k < l
  <2>1. PICK a \in 1 .. n, b \in 1 .. n : a = d[k] /\ b = d[l]
    BY <1>6
  <2>2. a < b /\ CoreAt(t, a)
    BY <1>4, <1>6, <2>1
  <2>3. e[a] <= e[b] /\ e[a] # e[b]
    BY <1>3, <1>5, <2>2
  <2>4. f[k] = e[a] /\ f[l] = e[b] /\ e[a] \in 1 .. L /\ e[b] \in 1 .. L
    BY <1>8, <2>1
  <2> QED BY <2>3, <2>4
<1>11. \A k \in 1 .. p : w[k] = s[f[k]] /\ f[k] \notin NotCore(s)
  <2> TAKE k \in 1 .. p
  <2>1. PICK a \in 1 .. n : a = d[k] /\ CoreAt(t, a) /\ f[k] = e[a] /\ w[k] = t[a]
    BY <1>4, <1>6, <1>8
  <2> QED BY <1>5, <2>1 DEF NotCore
<1>12. \A i \in 1 .. L : i \notin NotCore(s) => \E k \in 1 .. p : f[k] = i
  <2> TAKE i \in 1 .. L
  <2> HAVE i \notin NotCore(s)
  <2>1. CoreAt(s, i)
    BY <1>2 DEF NotCore
  <2>2. PICK m \in 1 .. n : e[m] = i /\ t[m] = s[i]
    BY <1>3, <2>1
  <2>3. CoreAt(t, m)
    BY <1>2, <2>1, <2>2, CoreKept
  <2>4. PICK k \in 1 .. p : d[k] = m
    BY <1>4, <2>3 DEF NotCore
  <2> QED BY <1>8, <2>2, <2>4
<1>13. Thins(f, w, s, NotCore(s))
  BY <1>2, <1>9, <1>10, <1>11, <1>12 DEF Thins
<1>14. PICK x, c : x = KeptOf(s) /\ x \in Seq(Char) /\ Thins(c, x, s, NotCore(s))
  BY KeptOfIs
<1>15. w = x
  BY <1>1, <1>13, <1>14, ThinsUnique
<1> QED BY <1>1, <1>14, <1>15

UpTo(S, i) == {j \in S : j <= i}

LEMMA UpToIs ==
    ASSUME NEW L \in Nat, NEW S \in SUBSET (1 .. L), NEW i
    PROVE  IsFiniteSet(UpTo(S, i)) /\ Cardinality(UpTo(S, i)) \in Nat
<1>1. PICK I : I = 1 .. L
  OBVIOUS
<1>2. IsFiniteSet(I) /\ S \subseteq I
  BY <1>1, FS_Interval
<1>3. UpTo(S, i) \subseteq I
  BY <1>2 DEF UpTo
<1>4. IsFiniteSet(UpTo(S, i))
  BY <1>2, <1>3, FS_Subset
<1> QED BY <1>4, FS_CardinalityType

\* Of two places in a set the later one counts for more.
LEMMA UpToLess ==
    ASSUME NEW L \in Nat, NEW S \in SUBSET (1 .. L), NEW i \in S, NEW j \in S,
           Cardinality(UpTo(S, i)) = Cardinality(UpTo(S, j))
    PROVE  i = j
<1>1. ASSUME NEW a \in S, NEW b \in S, a < b,
             Cardinality(UpTo(S, a)) = Cardinality(UpTo(S, b))
      PROVE  FALSE
  <2>1. PICK A, B : A = UpTo(S, a) /\ B = UpTo(S, b)
    OBVIOUS
  <2>2. IsFiniteSet(B) /\ A \in SUBSET B
    <3>1. \A h \in S : h <= a => h <= b
      BY <1>1
    <3> QED BY <2>1, <3>1, UpToIs DEF UpTo
  <2>3. A = B
    BY <1>1, <2>1, <2>2, FS_Subset
  <2>4. b \in B /\ b \notin A
    BY <1>1, <2>1 DEF UpTo
  <2> QED BY <2>3, <2>4
<1>2. i < j \/ i = j \/ j < i
  OBVIOUS
<1> QED BY <1>1, <1>2

LEMMA NthOf ==
    ASSUME NEW L \in Nat, NEW S \in SUBSET (1 .. L), NEW i \in S
    PROVE  Nth(S, Cardinality(UpTo(S, i))) = i
<1>1. PICK n : n = Cardinality(UpTo(S, i))
  OBVIOUS
<1>2. Nth(S, n) = CHOOSE j \in S : Cardinality(UpTo(S, j)) = n
  BY DEF Nth, UpTo
<1>3. Nth(S, n) \in S /\ Cardinality(UpTo(S, Nth(S, n))) = n
  BY <1>1, <1>2
<1> QED BY <1>1, <1>3, UpToLess

LEMMA NthExists ==
    ASSUME NEW L \in Nat, NEW S \in SUBSET (1 .. L), NEW n \in 1 .. Cardinality(S),
           Cardinality(S) \in Nat
    PROVE  Nth(S, n) \in S /\ Cardinality(UpTo(S, Nth(S, n))) = n
<1>0. \A i : IsFiniteSet(UpTo(S, i)) /\ Cardinality(UpTo(S, i)) \in Nat
  BY UpToIs
<1> DEFINE C == {i \in 0 .. L : n <= Cardinality(UpTo(S, i))}
<1>1. C # {}
  <2>1. UpTo(S, L) = S
    <3>1. \A j \in S : j <= L
      OBVIOUS
    <3> QED BY <3>1 DEF UpTo
  <2>2. L \in C
    BY <2>1
  <2> QED BY <2>2
<1>2. PICK i \in C : \A j \in C : i <= j
  <2>1. C \in SUBSET Nat
    OBVIOUS
  <2> HIDE DEF C
  <2> QED BY <1>1, <2>1, LeastNat
<1>3. i \in 0 .. L /\ n <= Cardinality(UpTo(S, i))
  BY <1>2
<1>4. i # 0
  <2>1. ASSUME i = 0 PROVE FALSE
    <3>1. UpTo(S, i) = {}
      <4>1. \A j \in S : ~(j <= 0)
        OBVIOUS
      <4> QED BY <2>1, <4>1 DEF UpTo
    <3>2. Cardinality(UpTo(S, i)) = 0
      BY <3>1, FS_EmptySet
    <3> QED BY <1>3, <3>2
  <2> QED BY <2>1
<1>5. PICK h : h = i - 1
  OBVIOUS
<1>6. h \in 0 .. L /\ h < i /\ i = h + 1
  BY <1>3, <1>4, <1>5
<1>7. PICK before \in Nat, now \in Nat :
          before = Cardinality(UpTo(S, h)) /\ now = Cardinality(UpTo(S, i))
  BY <1>0
<1>8. before < n /\ n <= now
  <2>1. h \notin C
    BY <1>2, <1>6
  <2> QED BY <1>3, <1>6, <1>7, <2>1
<1>9. \A j \in S : j <= i <=> j <= h \/ j = i
  BY <1>6
<1>10. CASE i \notin S
  <2>1. UpTo(S, i) = UpTo(S, h)
    BY <1>9, <1>10 DEF UpTo
  <2> QED BY <1>7, <1>8, <2>1
<1>11. CASE i \in S
  <2>1. UpTo(S, i) = UpTo(S, h) \cup {i}
    BY <1>9, <1>11 DEF UpTo
  <2>2. i \notin UpTo(S, h)
    BY <1>6 DEF UpTo
  <2>3. now = before + 1
    BY <1>0, <1>7, <2>1, <2>2, FS_AddElement
  <2>4. Cardinality(UpTo(S, i)) = n
    BY <1>7, <1>8, <2>3
  <2>5. Nth(S, n) = i
    BY <1>11, <2>4, NthOf
  <2> QED BY <1>11, <2>4, <2>5
<1> QED BY <1>10, <1>11

\* A word has as many words before it as it had before the repair.
LEMMA WordsInOrder ==
    ASSUME NEW s \in Seq(Char), NEW t \in Seq(Char), NEW e, Keeps(e, t, s),
           NEW p \in WordAt(t)
    PROVE  /\ e[p] \in WordAt(s) /\ t[p] = s[e[p]]
           /\ Cardinality(UpTo(WordAt(t), p)) = Cardinality(UpTo(WordAt(s), e[p]))
<1>1. PICK L \in Nat, n \in Nat :
          L = Len(s) /\ n = Len(t) /\ DOMAIN s = 1 .. L /\ DOMAIN t = 1 .. n
  OBVIOUS
<1>2. /\ e \in [1 .. n -> 1 .. L]
      /\ \A k, l \in 1 .. n : k <= l => e[k] <= e[l]
      /\ \A k \in 1 .. n : t[k] \notin Loose => t[k] = s[e[k]]
      /\ \A k, l \in 1 .. n : k # l /\ e[k] = e[l] => t[k] \in Loose
      /\ \A i \in 1 .. L : CoreAt(s, i) => \E k \in 1 .. n : e[k] = i /\ t[k] = s[i]
  BY <1>1 DEF Keeps
<1>3. /\ \A i : i \in WordAt(s) <=> i \in 1 .. L /\ s[i] \in Word
      /\ \A i : i \in WordAt(t) <=> i \in 1 .. n /\ t[i] \in Word
  BY <1>1, KeptIs DEF WordAt, Word
<1>4. \A k \in WordAt(t) : t[k] \notin Loose /\ t[k] = s[e[k]] /\ e[k] \in WordAt(s)
  <2> TAKE k \in WordAt(t)
  <2>1. k \in 1 .. n /\ t[k] \in Word
    BY <1>3
  <2>2. t[k] \notin Loose
    BY <2>1, KeptIs
  <2> QED BY <1>2, <1>3, <2>1, <2>2
<1>5. PICK A, B : A = UpTo(WordAt(t), p) /\ B = UpTo(WordAt(s), e[p])
  OBVIOUS
<1>6. \A k : k \in A <=> k \in WordAt(t) /\ k <= p
  BY <1>5 DEF UpTo
<1>7. \A i : i \in B <=> i \in WordAt(s) /\ i <= e[p]
  BY <1>5 DEF UpTo
<1>8. PICK f : f = [k \in A |-> e[k]]
  OBVIOUS
<1>9. f \in [A -> B]
  <2>1. \A k \in A : e[k] \in B
    BY <1>2, <1>3, <1>4, <1>6, <1>7
  <2> QED BY <1>8, <2>1
<1>10. \A k, l \in A : f[k] = f[l] => k = l
  BY <1>2, <1>3, <1>4, <1>6, <1>8
<1>11. \A i \in B : \E k \in A : f[k] = i
  <2> TAKE i \in B
  <2>1. i \in 1 .. L /\ s[i] \in Word /\ i <= e[p]
    BY <1>3, <1>7
  <2>2. CoreAt(s, i)
    <3>1. i <= i /\ s[i] \in Kept
      BY <2>1, KeptIs
    <3> QED BY <1>1, <2>1, <3>1 DEF CoreAt
  <2>3. PICK k \in 1 .. n : e[k] = i /\ t[k] = s[i]
    BY <1>2, <2>1, <2>2
  <2>4. k \in WordAt(t) /\ t[k] \notin Loose
    BY <1>3, <1>4, <2>1, <2>3
  <2>5. k <= p
    <3>1. ASSUME p < k PROVE FALSE
      <4>1. p \in 1 .. n /\ e[p] <= e[k]
        BY <1>2, <1>3, <3>1
      <4>2. e[p] = e[k]
        BY <1>2, <2>1, <2>3, <4>1
      <4> QED BY <1>2, <2>4, <3>1, <4>1, <4>2
    <3>2. p \in 1 .. n
      BY <1>3
    <3> QED BY <3>1, <3>2
  <2>6. k \in A /\ f[k] = i
    BY <1>6, <1>8, <2>3, <2>4, <2>5
  <2> QED BY <2>6
<1>12. f \in Bijection(A, B)
  <2>1. f \in Injection(A, B)
    BY <1>9, <1>10, Fun_IsInj
  <2>2. f \in Surjection(A, B)
    BY <1>9, <1>11, Fun_IsSurj
  <2> QED BY <2>1, <2>2 DEF Bijection
<1>13. IsFiniteSet(A)
  <2>1. WordAt(t) \in SUBSET (1 .. n)
    BY <1>3
  <2> QED BY <1>5, <2>1, UpToIs
<1>14. Cardinality(A) = Cardinality(B)
  <2>1. ExistsBijection(A, B)
    BY <1>12 DEF ExistsBijection
  <2> QED BY <1>13, <2>1, FS_Bijection
<1> QED BY <1>4, <1>5, <1>14

LEMMA WordsTouch ==
    ASSUME NEW s \in Seq(Char), NEW t \in Seq(Char), NEW e, Keeps(e, t, s), Touch(e, t, s),
           NEW n \in 1 .. Cardinality(WordAt(t)) - 1,
           Nth(WordAt(t), n + 1) = Nth(WordAt(t), n) + 1,
           {s[Nth(WordAt(s), n)], s[Nth(WordAt(s), n + 1)]} \subseteq Kept \ Punctuation
    PROVE  EmojiBetween(s, Nth(WordAt(s), n), Nth(WordAt(s), n + 1))
<1>1. PICK L \in Nat, m \in Nat :
          L = Len(s) /\ m = Len(t) /\ DOMAIN s = 1 .. L /\ DOMAIN t = 1 .. m
  OBVIOUS
<1>2. PICK A, B : A = WordAt(t) /\ B = WordAt(s)
  OBVIOUS
<1>3. A \in SUBSET (1 .. m) /\ B \in SUBSET (1 .. L)
  BY <1>1, <1>2 DEF WordAt
<1>4. IsFiniteSet(A) /\ Cardinality(A) \in Nat
  <2>1. PICK I : I = 1 .. m
    OBVIOUS
  <2>2. IsFiniteSet(I) /\ A \subseteq I
    BY <1>3, <2>1, FS_Interval
  <2>3. IsFiniteSet(A)
    BY <2>2, FS_Subset
  <2> QED BY <2>3, FS_CardinalityType
<1>5. PICK N \in Nat : N = Cardinality(A)
  BY <1>4
<1>6. n \in 1 .. N /\ n + 1 \in 1 .. N
  BY <1>2, <1>5
<1>7. PICK p \in A, q \in A : /\ p = Nth(A, n) /\ q = Nth(A, n + 1)
                              /\ Cardinality(UpTo(A, p)) = n /\ Cardinality(UpTo(A, q)) = n + 1
  <2>1. Nth(A, n) \in A /\ Cardinality(UpTo(A, Nth(A, n))) = n
    BY <1>3, <1>4, <1>5, <1>6, NthExists
  <2>2. PICK k : k = n + 1
    OBVIOUS
  <2>3. k \in 1 .. Cardinality(A)
    BY <1>5, <1>6, <2>2
  <2>4. Nth(A, k) \in A /\ Cardinality(UpTo(A, Nth(A, k))) = k
    BY <1>3, <1>4, <2>3, NthExists
  <2> QED BY <2>1, <2>2, <2>4
<1>8. /\ e[p] \in B /\ t[p] = s[e[p]] /\ Cardinality(UpTo(B, e[p])) = n
      /\ e[q] \in B /\ t[q] = s[e[q]] /\ Cardinality(UpTo(B, e[q])) = n + 1
  BY <1>2, <1>7, WordsInOrder
<1>9. Nth(B, n) = e[p] /\ Nth(B, n + 1) = e[q]
  BY <1>3, <1>8, NthOf
<1>10. t[p] \in Joining /\ t[q] \in Joining /\ q = p + 1
  <2>1. s[e[p]] \in Word /\ s[e[q]] \in Word
    BY <1>2, <1>8 DEF WordAt, Word
  <2>2. s[e[p]] \notin Punctuation /\ s[e[q]] \notin Punctuation
    BY <1>2, <1>9
  <2>3. t[p] \in Joining /\ t[q] \in Joining
    BY <1>8, <2>1, <2>2 DEF Joining
  <2> QED BY <1>2, <1>7, <2>3
<1>11. p \in 1 .. Len(t) /\ q \in 1 .. Len(t)
  BY <1>1, <1>3
<1>12. EmojiBetween(s, e[p], e[q])
  BY <1>10, <1>11 DEF Touch
<1> QED BY <1>2, <1>9, <1>12

LEMMA RepairKeepsWords == Repair => WordsKept
<1> SUFFICES ASSUME Repair, rewrites = 7
             PROVE  /\ KeptOf(Text) = KeptOf(Raw)
                    /\ \A n \in 1 .. Cardinality(WordAt(Text)) - 1 :
                          LET i == Nth(WordAt(Raw), n)
                              j == Nth(WordAt(Raw), n + 1) IN
                          (/\ Nth(WordAt(Text), n + 1) = Nth(WordAt(Text), n) + 1
                           /\ {Raw[i], Raw[j]} \subseteq Kept \ Punctuation)
                          => \/ j = i + 1
                             \/ (/\ Raw[i + 1] = "emoji"
                                 /\ AllIn(Raw, i + 1, j - 1, {"emoji", "joiner"}))
  BY DEF WordsKept, Cleaned
<1>1. Read /\ IsBio
  BY DEF Repair
<1>2. parsed.is = "object" /\ parsed.text \in Seq(Char)
  BY <1>1 DEF IsBio, Read, Shaped, Typed
<1>3. PICK s, t : s = Raw /\ t = Text
  OBVIOUS
<1>4. s \in Seq(Char) /\ Repaired(t, s, 7)
  BY <1>2, <1>3 DEF Repair, Raw, Text
<1>5. PICK e : t \in Seq(Char) /\ Keeps(e, t, s) /\ Touch(e, t, s)
  BY <1>4 DEF Repaired
<1>6. KeptOf(t) = KeptOf(s)
  BY <1>4, <1>5, KeepsKeptOf
<1>7. ASSUME NEW n \in 1 .. Cardinality(WordAt(t)) - 1,
             Nth(WordAt(t), n + 1) = Nth(WordAt(t), n) + 1,
             {s[Nth(WordAt(s), n)], s[Nth(WordAt(s), n + 1)]} \subseteq Kept \ Punctuation
      PROVE  EmojiBetween(s, Nth(WordAt(s), n), Nth(WordAt(s), n + 1))
  BY <1>4, <1>5, <1>7, WordsTouch
<1> QED BY <1>3, <1>6, <1>7 DEF EmojiBetween, AllIn

\* The clean-up of a bio of any length keeps its words, marks and lines in their
\* order, and lets two words touch only where emoji stood between them.
\* (_clean_bio_text)
THEOREM WordsKeptHolds == Spec => []WordsKept
BY RepairHolds, RepairKeepsWords, PTL

-----------------------------------------------------------------------------
(* A rejection *)

LEMMA StripIsEmpty ==
    ASSUME NEW t \in Seq(Char), Strip(t) = <<>>
    PROVE  \A i \in 1 .. Len(t) : t[i] \in Whitespace
<1>1. PICK u, d : u = Strip(t) /\ Thins(d, u, t, Outer(t))
  BY WithoutIs DEF Strip
<1>2. Len(u) = 0
  BY <1>1
<1>3. \A i \in 1 .. Len(t) : i \in Outer(t)
  <2> TAKE i \in 1 .. Len(t)
  <2>1. ASSUME i \notin Outer(t) PROVE FALSE
    <3>1. PICK k \in 1 .. Len(u) : d[k] = i
      BY <1>1, <2>1 DEF Thins
    <3>2. k \in 1 .. 0
      BY <1>2, <3>1
    <3> QED BY <3>2
  <2> QED BY <2>1
<1> QED BY <1>3, TakenAre

\* Neighbours of which neither is taken stay neighbours.
LEMMA ThinsNext ==
    ASSUME NEW T, NEW s \in Seq(T), NEW t \in Seq(T), NEW S, NEW e, Thins(e, t, s, S),
           NEW k \in 1 .. Len(t), NEW i, i = e[k] + 1, i \in 1 .. Len(s), i \notin S
    PROVE  k + 1 \in 1 .. Len(t) /\ e[k + 1] = i /\ t[k + 1] = s[i]
<1>1. PICK n \in Nat, L \in Nat : n = Len(t) /\ L = Len(s)
  OBVIOUS
<1>2. /\ \A h \in 1 .. n : e[h] \in 1 .. L
      /\ \A h, l \in 1 .. n : h < l => e[h] < e[l]
      /\ \A h \in 1 .. n : t[h] = s[e[h]]
      /\ \A h \in 1 .. L : h \notin S => \E l \in 1 .. n : e[l] = h
  BY <1>1 DEF Thins
<1>3. PICK m \in 1 .. n : e[m] = i
  BY <1>1, <1>2
<1>4. PICK a \in 1 .. L : a = e[k] /\ i = a + 1
  BY <1>1, <1>2
<1>5. k < m
  <2>1. ASSUME m < k PROVE FALSE
    <3>1. e[m] < e[k]
      BY <1>1, <1>2, <2>1
    <3> QED BY <1>3, <1>4, <3>1
  <2>2. k # m
    BY <1>3, <1>4
  <2> QED BY <1>1, <2>1, <2>2
<1>6. PICK q : q = k + 1
  OBVIOUS
<1>7. q \in 1 .. n /\ k < q /\ q <= m
  BY <1>1, <1>5, <1>6
<1>8. q = m
  <2>1. ASSUME q < m PROVE FALSE
    <3>1. PICK x \in 1 .. L : x = e[q]
      BY <1>2, <1>7
    <3>2. a < x /\ x < i
      BY <1>1, <1>2, <1>3, <1>4, <1>7, <2>1, <3>1
    <3> QED BY <1>4, <3>2
  <2> QED BY <1>7, <2>1
<1> QED BY <1>1, <1>2, <1>3, <1>6, <1>7, <1>8

LEMMA WordIsCore ==
    ASSUME NEW T, NEW s \in Seq(T), NEW i \in 1 .. Len(s), s[i] \in Word
    PROVE  CoreAt(s, i) /\ i \notin NotCore(s)
<1>1. i <= i /\ s[i] \in Kept
  BY KeptIs
<1>2. CoreAt(s, i)
  BY <1>1 DEF CoreAt
<1> QED BY <1>2 DEF NotCore

\* What marks a text up is words.
Mark == {"letter", "digit", "hyphen", "star", "lt", "gt", "slash", "underscore", "hash",
         "lsquare", "rsquare", "lparen", "rparen", "dot", "bang"}

LEMMA MarkIsWord == Mark \subseteq Word
BY DEF Mark, Word, Kept, Char, Whitespace, Blank, Punctuation, Forbidden

\* What is before a mark in a text is before it among what is kept of the text.
LEMMA BeforeKept ==
    ASSUME NEW s \in Seq(Char), NEW w \in Seq(Char), NEW d, Thins(d, w, s, NotCore(s)),
           NEW k \in 1 .. Len(w), NEW C \in SUBSET Mark, Before(s, d[k], C)
    PROVE  /\ Before(w, k, C)
           /\ k + 1 \in 1 .. Len(w) /\ d[k + 1] = d[k] + 1
<1>1. PICK n \in Nat, L \in Nat : n = Len(w) /\ L = Len(s)
  OBVIOUS
<1>2. PICK a \in 1 .. L : a = d[k]
  BY <1>1 DEF Thins
<1>3. PICK i : i = a + 1
  OBVIOUS
<1>4. i \in 1 .. L /\ s[i] \in C
  BY <1>1, <1>2, <1>3 DEF Before
<1>5. i \notin NotCore(s)
  BY <1>1, <1>4, MarkIsWord, WordIsCore
<1>6. k + 1 \in 1 .. n /\ d[k + 1] = i /\ w[k + 1] = s[i]
  BY <1>1, <1>2, <1>3, <1>4, <1>5, ThinsNext
<1>7. k < n
  BY <1>1, <1>6
<1> QED BY <1>1, <1>2, <1>3, <1>4, <1>6, <1>7 DEF Before

LEMMA MarksAnywhereKept ==
    ASSUME NEW s \in Seq(Char), NEW w \in Seq(Char), NEW d, Thins(d, w, s, NotCore(s)),
           NEW k \in 1 .. Len(w), MarksAnywhere(s, d[k])
    PROVE  MarksAnywhere(w, k)
<1>1. PICK n \in Nat, L \in Nat : n = Len(w) /\ L = Len(s)
  OBVIOUS
<1>2. PICK i \in 1 .. L : i = d[k] /\ w[k] = s[i]
  BY <1>1 DEF Thins
<1>3. /\ {"underscore"} \in SUBSET Mark /\ {"letter", "bang"} \in SUBSET Mark
      /\ {"slash"} \in SUBSET Mark /\ {"lparen"} \in SUBSET Mark
  BY DEF Mark
<1>4. CASE s[i] = "star"
  BY <1>2, <1>4 DEF MarksAnywhere
<1>5. CASE s[i] = "underscore" /\ Before(s, i, {"underscore"})
  <2>1. Before(w, k, {"underscore"})
    BY <1>2, <1>3, <1>5, BeforeKept
  <2> QED BY <1>2, <1>5, <2>1 DEF MarksAnywhere
<1>6. CASE Tag(s, i)
  <2>1. CASE Before(s, i, {"letter", "bang"})
    <3>1. Before(w, k, {"letter", "bang"})
      BY <1>2, <1>3, <2>1, BeforeKept
    <3> QED BY <1>2, <1>6, <3>1 DEF MarksAnywhere, Tag
  <2>2. CASE Before(s, i, {"slash"}) /\ Before(s, i + 1, {"letter", "bang"})
    <3>1. Before(w, k, {"slash"}) /\ k + 1 \in 1 .. n /\ d[k + 1] = i + 1
      BY <1>1, <1>2, <1>3, <2>2, BeforeKept
    <3>2. Before(w, k + 1, {"letter", "bang"})
      BY <1>1, <1>3, <2>2, <3>1, BeforeKept
    <3> QED BY <1>2, <1>6, <3>1, <3>2 DEF MarksAnywhere, Tag
  <2> QED BY <1>6, <2>1, <2>2 DEF Tag
<1>7. CASE Link(s, i)
  <2>1. PICK j \in i + 1 .. L : /\ s[j] = "rsquare" /\ Before(s, j, {"lparen"})
                                /\ \A h \in i + 1 .. j - 1 : s[h] \notin {"rsquare", "newline"}
    BY <1>1, <1>7 DEF Link
  <2>2. j \in 1 .. L /\ i < j
    BY <1>1, <1>2, <2>1
  <2>3. j \notin NotCore(s)
    <3>1. s[j] \in Word
      BY <2>1, MarkIsWord DEF Mark
    <3> QED BY <1>1, <2>2, <3>1, WordIsCore
  <2>4. /\ \A h \in 1 .. n : d[h] \in 1 .. L /\ w[h] = s[d[h]]
        /\ \A h, l \in 1 .. n : h < l => d[h] < d[l]
    BY <1>1 DEF Thins
  <2>5. PICK m \in 1 .. n : d[m] = j /\ w[m] = "rsquare"
    <3>1. PICK m \in 1 .. n : d[m] = j
      BY <1>1, <2>2, <2>3 DEF Thins
    <3> QED BY <2>1, <2>4, <3>1
  <2>6. k < m
    <3>1. ASSUME m < k PROVE FALSE
      <4>1. d[m] < d[k]
        BY <1>1, <2>4, <3>1
      <4> QED BY <1>2, <2>2, <2>5, <4>1
    <3>2. k # m
      BY <1>2, <2>2, <2>5
    <3> QED BY <1>1, <3>1, <3>2
  <2>7. \A h \in k + 1 .. m - 1 : w[h] \notin {"rsquare", "newline"}
    <3> TAKE h \in k + 1 .. m - 1
    <3>1. h \in 1 .. n /\ k < h /\ h < m
      BY <1>1, <2>5
    <3>2. PICK x \in 1 .. L : x = d[h] /\ w[h] = s[x]
      BY <2>4, <3>1
    <3>3. i < x /\ x < j
      BY <1>1, <1>2, <2>4, <2>5, <3>1, <3>2
    <3>4. x \in i + 1 .. j - 1
      BY <2>1, <3>3
    <3> QED BY <2>1, <3>2, <3>4
  <2>8. Before(w, m, {"lparen"})
    BY <1>1, <1>3, <2>1, <2>5, BeforeKept
  <2>9. w[k] = "lsquare"
    BY <1>2, <1>7 DEF Link
  <2>10. m \in k + 1 .. n
    BY <1>1, <2>6
  <2>11. Link(w, k)
    BY <1>1, <2>5, <2>7, <2>8, <2>9, <2>10 DEF Link
  <2> QED BY <2>11 DEF MarksAnywhere
<1> QED BY <1>2, <1>4, <1>5, <1>6, <1>7 DEF MarksAnywhere

LEMMA OpensLineKept ==
    ASSUME NEW s \in Seq(Char), NEW w \in Seq(Char), NEW d, Thins(d, w, s, NotCore(s)),
           NEW k \in 1 .. Len(w), w[k] \in Word, OpensLine(s, d[k]),
           NEW q \in 1 .. k - 1, w[q] \notin Whitespace
    PROVE  \E h \in q + 1 .. k - 1 : w[h] = "newline"
<1>1. PICK n \in Nat, L \in Nat : n = Len(w) /\ L = Len(s)
  OBVIOUS
<1>2. /\ \A h \in 1 .. n : d[h] \in 1 .. L /\ w[h] = s[d[h]] /\ d[h] \notin NotCore(s)
      /\ \A h, l \in 1 .. n : h < l => d[h] < d[l]
      /\ \A h \in 1 .. L : h \notin NotCore(s) => \E l \in 1 .. n : d[l] = h
  BY <1>1 DEF Thins
<1>3. PICK i \in 1 .. L : i = d[k] /\ s[i] \in Word
  BY <1>1, <1>2
<1>4. q \in 1 .. n /\ q < k
  BY <1>1
<1>5. PICK a \in 1 .. L : a = d[q] /\ w[q] = s[a] /\ a < i
  BY <1>1, <1>2, <1>3, <1>4
<1>6. PICK l \in 1 .. i : LineStart(s, l) /\ \A h \in l .. i - 1 : s[h] \in Whitespace
  BY <1>3 DEF OpensLine, AllIn
<1>7. a < l
  <2>1. ASSUME l <= a PROVE FALSE
    <3>1. a \in l .. i - 1
      BY <1>3, <1>5, <1>6, <2>1
    <3> QED BY <1>5, <1>6, <3>1
  <2> QED BY <1>5, <1>6, <2>1
<1>8. PICK p : p = l - 1
  OBVIOUS
<1>9. p \in 1 .. L /\ a <= p /\ p < i /\ s[p] = "newline"
  BY <1>3, <1>5, <1>6, <1>7, <1>8 DEF LineStart
<1>10. s[a] \in Word
  <2>1. CoreAt(s, a)
    BY <1>1, <1>2, <1>4, <1>5 DEF NotCore
  <2> QED BY <1>5, <2>1 DEF CoreAt, Word
<1>11. p \notin NotCore(s)
  <2>1. s[p] \in Kept
    BY <1>9 DEF Kept, Char, Whitespace, Blank, Forbidden
  <2>2. p <= i
    BY <1>9
  <2>3. CoreAt(s, p)
    BY <1>1, <1>3, <1>5, <1>9, <1>10, <2>1, <2>2 DEF CoreAt
  <2> QED BY <2>3 DEF NotCore
<1>12. PICK m \in 1 .. n : d[m] = p /\ w[m] = "newline"
  BY <1>2, <1>9, <1>11
<1>13. a # p
  <2>1. "newline" \in Whitespace
    BY DEF Whitespace
  <2> QED BY <1>5, <1>9, <2>1
<1>14. q < m
  <2>1. ASSUME m < q PROVE FALSE
    <3>1. d[m] < d[q]
      BY <1>2, <1>4, <2>1
    <3> QED BY <1>5, <1>9, <1>12, <3>1
  <2>2. q # m
    BY <1>5, <1>12, <1>13
  <2> QED BY <1>4, <2>1, <2>2
<1>15. m < k
  <2>1. ASSUME k < m PROVE FALSE
    <3>1. d[k] < d[m]
      BY <1>1, <1>2, <2>1
    <3> QED BY <1>3, <1>9, <1>12, <3>1
  <2>2. k # m
    BY <1>3, <1>9, <1>12
  <2> QED BY <1>1, <2>1, <2>2
<1>16. m \in q + 1 .. k - 1
  BY <1>1, <1>4, <1>14, <1>15
<1> QED BY <1>12, <1>16

LEMMA MarksLineKept ==
    ASSUME NEW s \in Seq(Char), NEW w \in Seq(Char), NEW d, Thins(d, w, s, NotCore(s)),
           NEW k \in 1 .. Len(w), MarksLine(s, d[k])
    PROVE  \/ w[k] \in {"hash", "hyphen", "gt"}
           \/ \E j \in k .. Len(w) : /\ j < k + 2 /\ AllIn(w, k, j, {"digit"})
                                     /\ Before(w, j, {"dot", "rparen"})
<1>1. PICK n \in Nat, L \in Nat : n = Len(w) /\ L = Len(s)
  OBVIOUS
<1>2. PICK i \in 1 .. L : i = d[k] /\ w[k] = s[i]
  BY <1>1 DEF Thins
<1>3. CASE Heading(s, i)
  <2>1. PICK j \in i .. L : \A h \in i .. j : s[h] \in {"hash"}
    BY <1>1, <1>3 DEF Heading, AllIn
  <2>2. i \in i .. j
    BY <1>2, <2>1
  <2> QED BY <1>2, <2>1, <2>2
<1>4. CASE Bullet(s, i) \/ s[i] = "gt"
  BY <1>2, <1>4 DEF Bullet
<1>5. CASE Item(s, i)
  <2>1. PICK j \in i .. L : /\ j < i + 2 /\ \A h \in i .. j : s[h] \in {"digit"}
                            /\ Before(s, j, {"dot", "rparen"})
    BY <1>1, <1>5 DEF Item, AllIn
  <2>2. i \in i .. j /\ w[k] = "digit"
    BY <1>2, <2>1
  <2>3. {"dot", "rparen"} \in SUBSET Mark /\ {"digit"} \in SUBSET Mark
    BY DEF Mark
  <2>4. CASE j = i
    <3>1. Before(w, k, {"dot", "rparen"})
      BY <1>2, <2>1, <2>3, <2>4, BeforeKept
    <3>2. k \in k .. n /\ k < k + 2 /\ \A h \in k .. k : w[h] \in {"digit"}
      BY <1>1, <2>2
    <3> QED BY <1>1, <3>1, <3>2 DEF AllIn
  <2>5. CASE j = i + 1
    <3>1. i < L /\ s[i + 1] \in {"digit"}
      BY <1>2, <2>1, <2>5
    <3>2. Before(w, k, {"digit"}) /\ k + 1 \in 1 .. n /\ d[k + 1] = i + 1
      <4>1. Before(s, d[k], {"digit"})
        BY <1>1, <1>2, <3>1 DEF Before
      <4> QED BY <1>1, <1>2, <2>3, <4>1, BeforeKept
    <3>3. Before(w, k + 1, {"dot", "rparen"})
      BY <1>1, <2>1, <2>3, <2>5, <3>2, BeforeKept
    <3>4. \A h \in k .. k + 1 : w[h] \in {"digit"}
      <4> TAKE h \in k .. k + 1
      <4>1. h = k \/ h = k + 1
        OBVIOUS
      <4> QED BY <2>2, <3>2, <4>1 DEF Before
    <3>5. k + 1 \in k .. n /\ k + 1 < k + 2
      BY <1>1, <3>2
    <3> QED BY <1>1, <3>3, <3>4, <3>5 DEF AllIn
  <2>6. j = i \/ j = i + 1
    BY <1>2, <2>1
  <2> QED BY <2>4, <2>5, <2>6
<1> QED BY <1>2, <1>3, <1>4, <1>5 DEF MarksLine

\* The first character of a mark is a word.
LEMMA MarkOpens ==
    ASSUME NEW s \in Seq(Char), NEW i \in 1 .. Len(s), MarksAnywhere(s, i) \/ MarksLine(s, i)
    PROVE  s[i] \in Word
<1>1. CASE MarksAnywhere(s, i)
  BY <1>1, MarkIsWord DEF MarksAnywhere, Tag, Link, Mark
<1>2. CASE Heading(s, i) \/ Item(s, i)
  <2>1. PICK j \in i .. Len(s), c \in {"hash", "digit"} : \A h \in i .. j : s[h] \in {c}
    BY <1>2 DEF Heading, Item, AllIn
  <2>2. i \in i .. j
    BY <2>1
  <2>3. s[i] \in Mark
    BY <2>1, <2>2 DEF Mark
  <2> QED BY <2>3, MarkIsWord
<1>3. CASE Bullet(s, i) \/ s[i] = "gt"
  BY <1>3, MarkIsWord DEF Bullet, Mark
<1> QED BY <1>1, <1>2, <1>3 DEF MarksLine

\* A text that has markup shows it in what is kept of it.
LEMMA MarkupShows ==
    ASSUME NEW s \in Seq(Char), HasMarkup(s)
    PROVE  ShowsMarkup(KeptOf(s))
<1>1. PICK w, d : w = KeptOf(s) /\ w \in Seq(Char) /\ Thins(d, w, s, NotCore(s))
  BY KeptOfIs
<1>2. PICK i \in 1 .. Len(s) : MarksAnywhere(s, i) \/ (OpensLine(s, i) /\ MarksLine(s, i))
  BY DEF HasMarkup
<1>3. s[i] \in Word
  BY <1>2, MarkOpens
<1>4. PICK k \in 1 .. Len(w) : d[k] = i /\ w[k] = s[i]
  BY <1>1, <1>3, WordIsCore DEF Thins
<1>5. CASE MarksAnywhere(s, i)
  <2>1. MarksAnywhere(w, k)
    BY <1>1, <1>4, <1>5, MarksAnywhereKept
  <2> QED BY <1>1, <2>1 DEF ShowsMarkup
<1>6. CASE OpensLine(s, i) /\ MarksLine(s, i)
  <2>1. \A q \in 1 .. k - 1 :
           w[q] \notin Whitespace => \E h \in q + 1 .. k - 1 : w[h] = "newline"
    BY <1>1, <1>3, <1>4, <1>6, OpensLineKept
  <2>2. \/ w[k] \in {"hash", "hyphen", "gt"}
        \/ \E j \in k .. Len(w) : /\ j < k + 2 /\ AllIn(w, k, j, {"digit"})
                                  /\ Before(w, j, {"dot", "rparen"})
    BY <1>1, <1>4, <1>6, MarksLineKept
  <2> QED BY <1>1, <2>1, <2>2 DEF ShowsMarkup
<1> QED BY <1>2, <1>5, <1>6

LEMMA RepairedIsGood ==
    ASSUME NEW s \in Seq(Char), NEW t, Repaired(t, s, 7),
           ~ShowsMarkup(KeptOf(s)),
           \E i \in 1 .. Len(s) : s[i] \in Word,
           Len(s) + DashRuns(s) <= MaxBioChars
    PROVE  GoodBio(t)
<1>1. /\ t \in Seq(Char) /\ Len(t) <= Len(s) + DashRuns(s)
      /\ \A k \in 1 .. Len(t) : t[k] # "dash" /\ t[k] # "emoji"
  BY DEF Repaired
<1>2. PICK e : Keeps(e, t, s)
  BY DEF Repaired
<1>3. PICK n \in Nat, L \in Nat : n = Len(t) /\ DOMAIN t = 1 .. n /\ L = Len(s)
  BY <1>1
<1>4. \A i \in 1 .. L : CoreAt(s, i) => \E k \in 1 .. n : e[k] = i /\ t[k] = s[i]
  BY <1>2, <1>3 DEF Keeps
<1>5. Strip(t) # <<>>
  <2>1. PICK i \in 1 .. L : s[i] \in Word
    BY <1>3
  <2>2. CoreAt(s, i)
    BY <1>3, <2>1, WordIsCore
  <2>3. PICK k \in 1 .. n : t[k] = s[i]
    BY <1>4, <2>2
  <2>4. t[k] \notin Whitespace
    BY <2>1, <2>3, KeptIs
  <2> QED BY <1>1, <1>3, <2>4, StripIsEmpty
<1>6. Len(t) <= MaxBioChars
  <2>1. PICK r \in Nat : r = DashRuns(s)
    BY DashRunsNat
  <2>2. n <= L + r /\ L + r <= MaxBioChars
    BY <1>1, <1>3, <2>1
  <2> QED BY <1>3, <2>2, BioAssumption
<1>7. ~HasMarkup(t)
  <2>1. KeptOf(t) = KeptOf(s)
    BY <1>1, <1>2, KeepsKeptOf
  <2> QED BY <1>1, <2>1, MarkupShows
<1>8. \A i \in DOMAIN t : t[i] \notin Forbidden
  BY <1>1, <1>3 DEF Forbidden
<1> QED BY <1>5, <1>6, <1>7, <1>8 DEF GoodBio

LEMMA RepairExplains == Repair => RejectionExplained
<1> SUFFICES ASSUME Repair, rewrites = 7, status = "review", DOMAIN parsed.fields = {"text"},
                    ~ShowsMarkup(KeptOf(Raw)),
                    WordAt(Raw) # {}, ~(Len(Raw) + DashRuns(Raw) > MaxBioChars)
             PROVE  FALSE
  BY DEF RejectionExplained, Cleaned
<1>1. Read /\ IsBio /\ ~ValidCandidate(reply.task, output)
  BY DEF Repair
<1>2. /\ reply.task \in BioTask /\ output.is = "object" /\ HasKind(output, "text", String)
      /\ parsed.is = "object"
  BY <1>1 DEF IsBio, Read, Shaped
<1>3. output.fields = parsed.fields /\ parsed.text \in Seq(Char)
  <2>1. PICK f, t : f = parsed.fields /\ t = output.text
    OBVIOUS
  <2>2. output = Object(f, t)
    BY <1>1, <1>2, <2>1 DEF Read, Shaped
  <2>3. output.fields = f
    BY <2>2 DEF Object
  <2> QED BY <1>1, <1>2, <2>1, <2>3 DEF Read, Shaped, Typed
<1>4. PICK s, t : s = parsed.text /\ t = output.text
  OBVIOUS
<1>5. s \in Seq(Char) /\ DOMAIN s = 1 .. Len(s) /\ Repaired(t, s, 7)
  BY <1>2, <1>3, <1>4 DEF Repair
<1>6. ~ShowsMarkup(KeptOf(s))
  BY <1>4 DEF Raw
<1>7. \E i \in 1 .. Len(s) : s[i] \in Word
  BY <1>4, <1>5 DEF Raw, WordAt, Word
<1>8. Len(s) + DashRuns(s) <= MaxBioChars
  <2>0. DashRuns(s) \in Nat /\ Len(s) \in Nat
    BY <1>5, DashRunsNat
  <2>1. PICK L \in Nat, r \in Nat : L = Len(s) /\ r = DashRuns(s)
    BY <2>0
  <2>2. ~(L + r > MaxBioChars)
    BY <1>4, <2>1 DEF Raw
  <2> QED BY <2>1, <2>2, BioAssumption
<1>9. GoodBio(t)
  BY <1>5, <1>6, <1>7, <1>8, RepairedIsGood
<1>10. ValidBio(output)
  BY <1>2, <1>3, <1>4, <1>9 DEF ValidBio
<1>11. ~ClaimsVerified(output)
  BY <1>3 DEF ClaimsVerified, HasKind
<1> QED BY <1>1, <1>2, <1>10, <1>11 DEF ValidCandidate

\* A bio of any length is sent to review after its repair only for markup that
\* what the repair keeps of it shows too, for having no words or for too many: none
\* of the seven rewrites makes markup of anything else, whatever they take away
\* between two characters or before one.  (normalize_output, _validate_bio)
THEOREM RejectionExplainedHolds == Spec => []RejectionExplained
BY RepairHolds, RepairExplains, PTL

-----------------------------------------------------------------------------
(* A second pass *)

NoTwoBlanks(s) ==
    \A i, j \in 1 .. Len(s) : j = i + 1 /\ s[i] = "space" => s[j] # "space"

NoBlankBefore(s) ==
    \A i, j \in 1 .. Len(s) : j = i + 1 /\ s[i] = "space" => s[j] \notin Punctuation

NoLooseEdge(s) ==
    \A i \in 1 .. Len(s) : s[i] \in Loose => ~LineStart(s, i) /\ ~LineEnd(s, i)

NoOutside(s) ==
    Len(s) # 0 => s[1] \notin Whitespace /\ s[Len(s)] \notin Whitespace

\* Of the whitespace that the sixth rewrite and the seventh tell apart.
Plain(s) == \A i \in 1 .. Len(s) : s[i] # "return"

\* What each rewrite leaves nothing of, the later ones bring nothing back of: s is
\* what n of them have made of raw.
Tidied(s, raw, n) ==
    /\ n >= 3 => NoTwoBlanks(s)
    /\ n >= 4 => NoBlankBefore(s)
    /\ n >= 6 /\ Plain(raw) => NoLooseEdge(s)
    /\ n >= 7 => NoOutside(s)

\* What follows a blank that stays, stays.
LEMMA BlankStays ==
    ASSUME NEW T, NEW s \in Seq(T), NEW n \in 4 .. 7,
           NoTwoBlanks(s), n >= 5 => NoBlankBefore(s),
           NEW a \in 1 .. Len(s), NEW b \in 1 .. Len(s), b = a + 1,
           s[a] = "space", a \notin Taken(n, s)
    PROVE  b \notin Taken(n, s)
<1>1. PICK L \in Nat : L = Len(s) /\ DOMAIN s = 1 .. L /\ a \in 1 .. L /\ b \in 1 .. L
  OBVIOUS
<1>2. s[b] # "space"
  BY DEF NoTwoBlanks
<1> SUFFICES ASSUME b \in Taken(n, s) PROVE FALSE
  OBVIOUS
<1>3. CASE n = 4
  <2>1. b \in BlanksBeforePunctuation(s)
    BY <1>3 DEF Taken
  <2> QED BY <1>2, <2>1, TakenAre
<1>4. CASE n = 5
  <2>1. b \in CommasBeforePunctuation(s)
    BY <1>4 DEF Taken
  <2>2. s[b] \in Loose
    BY <2>1, TakenAre
  <2>3. s[b] \notin Punctuation
    BY <1>4 DEF NoBlankBefore
  <2> QED BY <1>2, <2>2, <2>3 DEF Loose, Punctuation
<1>5. CASE n = 6
  <2>1. b \in LineEdges(s) /\ a \notin LineEdges(s)
    BY <1>5 DEF Taken
  <2>2. \/ \E l \in 1 .. b : LineStart(s, l) /\ \A h \in l .. b : s[h] \in {"comma", "space"}
        \/ \E l \in b .. L : LineEnd(s, l) /\ \A h \in b .. l : s[h] \in {"comma", "space"}
    BY <1>1, <2>1 DEF LineEdges, AllIn, Blank
  <2>3. /\ \A l \in 1 .. a : ~(LineStart(s, l) /\ \A h \in l .. a : s[h] \in {"comma", "space"})
        /\ \A l \in a .. L : ~(LineEnd(s, l) /\ \A h \in a .. l : s[h] \in {"comma", "space"})
    BY <1>1, <2>1 DEF LineEdges, AllIn, Blank
  <2>4. ASSUME NEW l \in 1 .. b, LineStart(s, l), \A h \in l .. b : s[h] \in {"comma", "space"}
        PROVE  FALSE
    <3>1. CASE l = b
      <4>1. l # 1 /\ l - 1 = a
        BY <1>1, <3>1
      <4>2. s[a] = "newline"
        BY <2>4, <4>1 DEF LineStart
      <4> QED BY <4>2
    <3>2. CASE l # b
      <4>1. l \in 1 .. a /\ \A h \in l .. a : h \in l .. b
        BY <1>1, <3>2
      <4> QED BY <2>3, <2>4, <4>1
    <3> QED BY <3>1, <3>2
  <2>5. ASSUME NEW l \in b .. L, LineEnd(s, l), \A h \in b .. l : s[h] \in {"comma", "space"}
        PROVE  FALSE
    <3>1. l \in a .. L /\ \A h \in a .. l : h = a \/ h \in b .. l
      BY <1>1
    <3>2. \A h \in a .. l : s[h] \in {"comma", "space"}
      BY <2>5, <3>1
    <3> QED BY <2>3, <2>5, <3>1, <3>2
  <2> QED BY <2>2, <2>4, <2>5
<1>6. CASE n = 7
  <2>1. b \in Outer(s) /\ a \notin Outer(s)
    BY <1>6 DEF Taken
  <2>2. (\A h \in 1 .. b : s[h] \in Whitespace) \/ (\A h \in b .. L : s[h] \in Whitespace)
    BY <1>1, <2>1 DEF Outer, AllIn
  <2>3. ~(\A h \in 1 .. a : s[h] \in Whitespace) /\ ~(\A h \in a .. L : s[h] \in Whitespace)
    BY <1>1, <2>1 DEF Outer, AllIn
  <2>4. /\ \A h \in 1 .. a : h \in 1 .. b
        /\ \A h \in a .. L : h = a \/ h \in b .. L
    BY <1>1
  <2>5. s[a] \in Whitespace
    BY DEF Whitespace
  <2> QED BY <2>2, <2>3, <2>4, <2>5
<1> QED BY <1>3, <1>4, <1>5, <1>6

LEMMA BlankKeepsNext ==
    ASSUME NEW T, NEW s \in Seq(T), NEW t \in Seq(T), NEW n \in 4 .. 7,
           NoTwoBlanks(s), n >= 5 => NoBlankBefore(s),
           NEW e, Thins(e, t, s, Taken(n, s)),
           NEW k \in 1 .. Len(t), NEW l \in 1 .. Len(t), l = k + 1, t[k] = "space"
    PROVE  e[l] = e[k] + 1
<1>1. PICK a, b : a = e[k] /\ b = e[l]
  OBVIOUS
<1>2. /\ a \in 1 .. Len(s) /\ b \in 1 .. Len(s) /\ a < b /\ s[a] = "space"
      /\ \A h \in a + 1 .. b - 1 : h \in Taken(n, s)
  BY <1>1, ThinsBetween
<1>3. a \notin Taken(n, s)
  BY <1>1 DEF Thins
<1>4. PICK c : c = a + 1
  OBVIOUS
<1>5. ASSUME b # a + 1 PROVE FALSE
  <2>1. c \in a + 1 .. b - 1 /\ c \in 1 .. Len(s)
    BY <1>2, <1>4, <1>5
  <2>2. c \notin Taken(n, s)
    BY <1>2, <1>3, <1>4, <2>1, BlankStays
  <2> QED BY <1>2, <2>1, <2>2
<1> QED BY <1>1, <1>5

LEMMA TidiesBlanks ==
    ASSUME NEW T, NEW s \in Seq(T), NEW t \in Seq(T), NEW e,
           Thins(e, t, s, RepeatedBlanks(s))
    PROVE  NoTwoBlanks(t)
<1> SUFFICES ASSUME NEW k \in 1 .. Len(t), NEW l \in 1 .. Len(t), l = k + 1,
                    t[k] = "space", t[l] = "space"
             PROVE  FALSE
  BY DEF NoTwoBlanks
<1>1. PICK L \in Nat : L = Len(s) /\ DOMAIN s = 1 .. L
  OBVIOUS
<1>2. PICK a, b : a = e[k] /\ b = e[l]
  OBVIOUS
<1>3. /\ a \in 1 .. L /\ b \in 1 .. L /\ a < b /\ s[a] = "space" /\ s[b] = "space"
      /\ \A h \in a + 1 .. b - 1 : h \in 1 .. L /\ h \in RepeatedBlanks(s)
  BY <1>1, <1>2, ThinsBetween, SMTT(30)
<1>4. b \notin RepeatedBlanks(s)
  BY <1>2 DEF Thins
<1>5. PICK c : c = b - 1
  OBVIOUS
<1>6. s[c] # "space"
  BY <1>1, <1>3, <1>4, <1>5 DEF RepeatedBlanks, Blank
<1>7. c \in a + 1 .. b - 1
  BY <1>3, <1>5, <1>6
<1>8. c \in 1 .. L /\ c \in RepeatedBlanks(s)
  BY <1>3, <1>7
<1> QED BY <1>1, <1>6, <1>8, TakenAre

LEMMA KeepsNoTwoBlanks ==
    ASSUME NEW T, NEW s \in Seq(T), NEW t \in Seq(T), NEW n \in 4 .. 7,
           NoTwoBlanks(s), n >= 5 => NoBlankBefore(s), NEW e, Thins(e, t, s, Taken(n, s))
    PROVE  NoTwoBlanks(t) /\ NoBlankBefore(t)
<1> SUFFICES ASSUME NEW k \in 1 .. Len(t), NEW l \in 1 .. Len(t), l = k + 1, t[k] = "space"
             PROVE  t[l] # "space" /\ t[l] \notin Punctuation
  BY DEF NoTwoBlanks, NoBlankBefore
<1>1. PICK L \in Nat : L = Len(s) /\ DOMAIN s = 1 .. L
  OBVIOUS
<1>2. PICK a, b : a = e[k] /\ b = e[l]
  OBVIOUS
<1>3. a \in 1 .. L /\ b \in 1 .. L /\ s[a] = "space" /\ t[l] = s[b]
  BY <1>1, <1>2, ThinsBetween
<1>4. b = a + 1
  BY <1>2, BlankKeepsNext
<1>5. t[l] # "space"
  BY <1>1, <1>3, <1>4 DEF NoTwoBlanks
<1>6. t[l] \notin Punctuation
  <2>1. CASE n = 4
    <3>1. a \notin BlanksBeforePunctuation(s)
      BY <1>2, <2>1 DEF Thins, Taken
    <3>2. a < b /\ \A h \in a .. b - 1 : s[h] \in {"space"}
      BY <1>3, <1>4
    <3> QED BY <1>1, <1>3, <3>1, <3>2 DEF BlanksBeforePunctuation, AllIn, Blank
  <2>2. CASE n # 4
    <3>1. NoBlankBefore(s)
      BY <2>2
    <3> QED BY <1>1, <1>3, <1>4, <3>1 DEF NoBlankBefore
  <2> QED BY <2>1, <2>2
<1> QED BY <1>5, <1>6

LEMMA ThinsOutside ==
    ASSUME NEW T, NEW s \in Seq(T), NEW t \in Seq(T), NEW S, NEW e, Thins(e, t, s, S),
           NEW n \in Nat, n = Len(t), n # 0
    PROVE  /\ e[1] \in 1 .. Len(s) /\ t[1] = s[e[1]]
           /\ \A h \in 1 .. e[1] - 1 : h \in 1 .. Len(s) /\ h \in S
           /\ e[n] \in 1 .. Len(s) /\ t[n] = s[e[n]]
           /\ \A h \in e[n] + 1 .. Len(s) : h \in 1 .. Len(s) /\ h \in S
<1>1. PICK L \in Nat : L = Len(s)
  OBVIOUS
<1>2. /\ \A k \in 1 .. n : e[k] \in 1 .. L
      /\ \A k, l \in 1 .. n : k < l => e[k] < e[l]
      /\ \A k \in 1 .. n : t[k] = s[e[k]]
      /\ \A i \in 1 .. L : i \notin S => \E k \in 1 .. n : e[k] = i
  BY <1>1 DEF Thins
<1>3. 1 \in 1 .. n /\ n \in 1 .. n /\ \A k \in 1 .. n : k = 1 \/ 1 < k
  OBVIOUS
<1>4. PICK a \in 1 .. L, b \in 1 .. L : a = e[1] /\ b = e[n]
  BY <1>2, <1>3
<1>5. \A k \in 1 .. n : e[k] \in 1 .. L /\ a <= e[k] /\ e[k] <= b
  <2> TAKE k \in 1 .. n
  <2>1. e[k] \in 1 .. L /\ (k = 1 \/ 1 < k) /\ (k = n \/ k < n)
    BY <1>2
  <2>2. a <= e[k]
    BY <1>2, <1>3, <1>4, <2>1
  <2>3. e[k] <= b
    BY <1>2, <1>3, <1>4, <2>1
  <2> QED BY <2>1, <2>2, <2>3
<1>6. \A h \in 1 .. a - 1 : h \in 1 .. L /\ h \in S
  <2> TAKE h \in 1 .. a - 1
  <2>1. h \in 1 .. L /\ h < a
    OBVIOUS
  <2> QED BY <1>2, <1>5, <2>1
<1>7. \A h \in b + 1 .. L : h \in 1 .. L /\ h \in S
  <2> TAKE h \in b + 1 .. L
  <2>1. h \in 1 .. L /\ b < h
    OBVIOUS
  <2> QED BY <1>2, <1>5, <2>1
<1> QED BY <1>1, <1>2, <1>3, <1>4, <1>6, <1>7

LEMMA TidiesEdges ==
    ASSUME NEW T, NEW s \in Seq(T), NEW t \in Seq(T), NEW e, Thins(e, t, s, LineEdges(s))
    PROVE  NoLooseEdge(t)
<1>1. PICK L \in Nat, n \in Nat :
          L = Len(s) /\ DOMAIN s = 1 .. L /\ n = Len(t) /\ DOMAIN t = 1 .. n
  OBVIOUS
<1>2. \A h \in 1 .. L : h \in LineEdges(s) => s[h] \in {"comma", "space"}
  BY <1>1, TakenAre DEF Loose
<1>3. ASSUME NEW a \in 1 .. L, a \notin LineEdges(s)
      PROVE  /\ \A l \in 1 .. a : ~(LineStart(s, l) /\ \A h \in l .. a : s[h] \in {"comma", "space"})
             /\ \A l \in a .. L : ~(LineEnd(s, l) /\ \A h \in a .. l : s[h] \in {"comma", "space"})
  BY <1>1, <1>3 DEF LineEdges, AllIn, Blank
<1> SUFFICES ASSUME NEW k \in 1 .. n, t[k] \in Loose, LineStart(t, k) \/ LineEnd(t, k)
             PROVE  FALSE
  BY <1>1 DEF NoLooseEdge
<1>4. PICK a \in 1 .. L : a = e[k] /\ t[k] = s[a] /\ a \notin LineEdges(s) /\ s[a] \in {"comma", "space"}
  BY <1>1 DEF Thins, Loose
<1>5. CASE LineStart(t, k)
  <2>1. \E l \in 1 .. a : LineStart(s, l) /\ \A h \in l .. a - 1 : h \in 1 .. L /\ h \in LineEdges(s)
    <3>1. CASE k = 1
      <4>1. \A h \in 1 .. a - 1 : h \in 1 .. L /\ h \in LineEdges(s)
        BY <1>1, <1>4, <3>1, ThinsOutside
      <4>2. 1 \in 1 .. a /\ LineStart(s, 1)
        BY DEF LineStart
      <4> QED BY <4>1, <4>2
    <3>2. CASE k # 1
      <4>1. PICK j : j = k - 1
        OBVIOUS
      <4>2. j \in 1 .. n /\ k = j + 1 /\ t[j] = "newline"
        BY <1>5, <3>2, <4>1 DEF LineStart
      <4>3. PICK b : b = e[j]
        OBVIOUS
      <4>4. /\ b \in 1 .. L /\ b < a /\ s[b] = "newline"
            /\ \A h \in b + 1 .. a - 1 : h \in 1 .. L /\ h \in LineEdges(s)
        BY <1>1, <1>4, <4>2, <4>3, ThinsBetween, SMTT(30)
      <4>5. PICK c : c = b + 1
        OBVIOUS
      <4>6. c \in 1 .. a /\ LineStart(s, c)
        BY <4>4, <4>5 DEF LineStart
      <4> QED BY <4>4, <4>5, <4>6
    <3> QED BY <3>1, <3>2
  <2>2. PICK l \in 1 .. a : /\ LineStart(s, l)
                            /\ \A h \in l .. a - 1 : h \in 1 .. L /\ h \in LineEdges(s)
    BY <2>1
  <2>3. \A h \in l .. a : s[h] \in {"comma", "space"}
    <3> TAKE h \in l .. a
    <3>1. h = a \/ h \in l .. a - 1
      OBVIOUS
    <3> QED BY <1>2, <1>4, <2>2, <3>1
  <2> QED BY <1>3, <1>4, <2>2, <2>3
<1>6. CASE LineEnd(t, k)
  <2>1. \E l \in a .. L : LineEnd(s, l) /\ \A h \in a + 1 .. l : h \in 1 .. L /\ h \in LineEdges(s)
    <3>1. CASE k = n
      <4>1. \A h \in a + 1 .. L : h \in 1 .. L /\ h \in LineEdges(s)
        BY <1>1, <1>4, <3>1, ThinsOutside
      <4>2. L \in a .. L /\ LineEnd(s, L)
        BY <1>1 DEF LineEnd
      <4> QED BY <4>1, <4>2
    <3>2. CASE k # n
      <4>1. PICK j : j = k + 1
        OBVIOUS
      <4>2. j \in 1 .. n /\ t[j] = "newline"
        BY <1>1, <1>6, <3>2, <4>1 DEF LineEnd
      <4>3. PICK b : b = e[j]
        OBVIOUS
      <4>4. /\ b \in 1 .. L /\ a < b /\ s[b] = "newline"
            /\ \A h \in a + 1 .. b - 1 : h \in 1 .. L /\ h \in LineEdges(s)
        BY <1>1, <1>4, <4>1, <4>2, <4>3, ThinsBetween, SMTT(30)
      <4>5. PICK c : c = b - 1
        OBVIOUS
      <4>6. c \in a .. L /\ c + 1 = b
        BY <4>4, <4>5
      <4>7. LineEnd(s, c)
        BY <4>4, <4>6 DEF LineEnd
      <4> QED BY <4>4, <4>5, <4>6, <4>7
    <3> QED BY <3>1, <3>2
  <2>2. PICK l \in a .. L : /\ LineEnd(s, l)
                            /\ \A h \in a + 1 .. l : h \in 1 .. L /\ h \in LineEdges(s)
    BY <2>1
  <2>3. \A h \in a .. l : s[h] \in {"comma", "space"}
    <3> TAKE h \in a .. l
    <3>1. h = a \/ h \in a + 1 .. l
      OBVIOUS
    <3> QED BY <1>2, <1>4, <2>2, <3>1
  <2> QED BY <1>3, <1>4, <2>2, <2>3
<1> QED BY <1>5, <1>6

LEMMA OuterIs ==
    ASSUME NEW T, NEW s \in Seq(T), NEW a \in 1 .. Len(s), a \notin Outer(s)
    PROVE  /\ \E h \in 1 .. a : s[h] \notin Whitespace
           /\ \E h \in a .. Len(s) : s[h] \notin Whitespace
BY DEF Outer, AllIn

LEMMA TidiesOutside ==
    ASSUME NEW T, NEW s \in Seq(T), NEW t \in Seq(T), NEW e, Thins(e, t, s, Outer(s))
    PROVE  NoOutside(t)
<1>1. PICK L \in Nat, n \in Nat :
          L = Len(s) /\ DOMAIN s = 1 .. L /\ n = Len(t) /\ DOMAIN t = 1 .. n
  OBVIOUS
<1> SUFFICES ASSUME n # 0 PROVE t[1] \notin Whitespace /\ t[n] \notin Whitespace
  BY <1>1 DEF NoOutside
<1>2. 1 \in 1 .. n /\ n \in 1 .. n
  OBVIOUS
<1>3. PICK a, b : a = e[1] /\ b = e[n]
  OBVIOUS
<1>4. /\ a \in 1 .. L /\ t[1] = s[a] /\ \A h \in 1 .. a - 1 : h \in 1 .. L /\ h \in Outer(s)
      /\ b \in 1 .. L /\ t[n] = s[b] /\ \A h \in b + 1 .. L : h \in 1 .. L /\ h \in Outer(s)
  BY <1>1, <1>3, ThinsOutside
<1>5. a \notin Outer(s) /\ b \notin Outer(s)
  BY <1>1, <1>2, <1>3 DEF Thins
<1>6. ASSUME s[a] \in Whitespace PROVE FALSE
  <2>1. PICK h \in 1 .. a : s[h] \notin Whitespace
    BY <1>1, <1>4, <1>5, OuterIs
  <2>2. h = a \/ h \in 1 .. a - 1
    BY <1>4
  <2> QED BY <1>1, <1>4, <1>6, <2>1, <2>2, TakenAre
<1>7. ASSUME s[b] \in Whitespace PROVE FALSE
  <2>1. PICK h \in b .. L : s[h] \notin Whitespace
    BY <1>1, <1>4, <1>5, OuterIs
  <2>2. h = b \/ h \in b + 1 .. L
    BY <1>4
  <2> QED BY <1>1, <1>4, <1>7, <2>1, <2>2, TakenAre
<1> QED BY <1>4, <1>6, <1>7

LEMMA OuterKeepsNext ==
    ASSUME NEW T, NEW s \in Seq(T), NEW t \in Seq(T), NEW e, Thins(e, t, s, Outer(s)),
           NEW k \in 1 .. Len(t), NEW l \in 1 .. Len(t), l = k + 1
    PROVE  e[l] = e[k] + 1
<1>1. PICK L \in Nat : L = Len(s) /\ DOMAIN s = 1 .. L
  OBVIOUS
<1>2. PICK a, b : a = e[k] /\ b = e[l]
  OBVIOUS
<1>3. /\ a \in 1 .. L /\ b \in 1 .. L /\ a < b
      /\ \A h \in a + 1 .. b - 1 : h \in Outer(s)
  BY <1>1, <1>2, ThinsBetween
<1>4. a \notin Outer(s) /\ b \notin Outer(s)
  BY <1>2 DEF Thins
<1>5. ASSUME b # a + 1 PROVE FALSE
  <2>1. PICK c : c = a + 1
    OBVIOUS
  <2>2. c \in a + 1 .. b - 1 /\ c \in 1 .. L
    BY <1>3, <1>5, <2>1
  <2>3. (\A h \in 1 .. c : s[h] \in Whitespace) \/ (\A h \in c .. L : s[h] \in Whitespace)
    <3>1. c \in Outer(s)
      BY <1>3, <2>2
    <3> QED BY <1>1, <3>1 DEF Outer, AllIn
  <2>4. PICK g \in 1 .. a, h \in b .. L : s[g] \notin Whitespace /\ s[h] \notin Whitespace
    BY <1>1, <1>3, <1>4, OuterIs
  <2>5. g \in 1 .. c /\ h \in c .. L
    BY <1>3, <2>1, <2>2
  <2> QED BY <2>3, <2>4, <2>5
<1> QED BY <1>2, <1>5

LEMMA KeepsNoLooseEdge ==
    ASSUME NEW T, NEW s \in Seq(T), NEW t \in Seq(T), NEW e, Thins(e, t, s, Outer(s)),
           NoTwoBlanks(s), NoBlankBefore(s), NoLooseEdge(s), Plain(s)
    PROVE  NoLooseEdge(t)
<1>1. PICK L \in Nat, n \in Nat :
          L = Len(s) /\ DOMAIN s = 1 .. L /\ n = Len(t) /\ DOMAIN t = 1 .. n
  OBVIOUS
<1> SUFFICES ASSUME NEW k \in 1 .. n, t[k] \in Loose, LineStart(t, k) \/ LineEnd(t, k)
             PROVE  FALSE
  BY <1>1 DEF NoLooseEdge
<1>2. PICK a \in 1 .. L : a = e[k] /\ t[k] = s[a] /\ s[a] \in Loose
  BY <1>1 DEF Thins
<1>3. ~LineStart(s, a) /\ ~LineEnd(s, a)
  BY <1>1, <1>2 DEF NoLooseEdge
<1>4. \A h \in 1 .. L : h \in Outer(s) => s[h] = "newline" \/ s[h] = "space"
  BY <1>1, TakenAre DEF Whitespace, Plain
<1>5. CASE LineStart(t, k)
  <2>1. CASE k = 1
    <3>1. PICK c : c = a - 1
      OBVIOUS
    <3>2. a # 1 /\ s[c] # "newline"
      BY <1>3, <3>1 DEF LineStart
    <3>3. c \in 1 .. L /\ a = c + 1 /\ c \in 1 .. a - 1
      BY <1>2, <3>1, <3>2
    <3>4. c \in Outer(s)
      BY <1>1, <1>2, <2>1, <3>3, ThinsOutside
    <3>5. s[c] = "space"
      BY <1>4, <3>2, <3>3, <3>4
    <3>6. s[a] # "space" /\ s[a] \notin Punctuation
      BY <1>1, <3>3, <3>5 DEF NoTwoBlanks, NoBlankBefore
    <3> QED BY <1>2, <3>6 DEF Loose, Punctuation
  <2>2. CASE k # 1
    <3>1. PICK j : j = k - 1
      OBVIOUS
    <3>2. j \in 1 .. n /\ k = j + 1 /\ t[j] = "newline"
      BY <1>5, <2>2, <3>1 DEF LineStart
    <3>3. a = e[j] + 1
      BY <1>1, <1>2, <3>2, OuterKeepsNext
    <3>4. e[j] \in 1 .. L /\ s[e[j]] = "newline"
      BY <1>1, <3>2 DEF Thins
    <3>5. s[a - 1] = "newline"
      BY <3>3, <3>4
    <3> QED BY <1>3, <3>5 DEF LineStart
  <2> QED BY <2>1, <2>2
<1>6. CASE LineEnd(t, k)
  <2>1. CASE k = n
    <3>1. PICK c : c = a + 1
      OBVIOUS
    <3>2. a # L /\ s[c] # "newline"
      BY <1>1, <1>3, <3>1 DEF LineEnd
    <3>3. c \in 1 .. L /\ c \in a + 1 .. L
      BY <1>2, <3>1, <3>2
    <3>4. \A h \in a + 1 .. L : h \in 1 .. L /\ h \in Outer(s)
      BY <1>1, <1>2, <2>1, ThinsOutside
    <3>5. s[c] = "space"
      BY <1>4, <3>2, <3>3, <3>4
    <3>6. LineEnd(s, c)
      <4>1. CASE c = L
        BY <1>1, <4>1 DEF LineEnd
      <4>2. CASE c # L
        <5>1. PICK d : d = c + 1
          OBVIOUS
        <5>2. d \in a + 1 .. L /\ d \in 1 .. L
          BY <3>1, <3>3, <4>2, <5>1
        <5>3. s[d] # "space"
          BY <1>1, <3>3, <3>5, <5>1, <5>2 DEF NoTwoBlanks
        <5>4. s[d] = "newline"
          BY <1>4, <3>4, <5>2, <5>3
        <5> QED BY <5>1, <5>4 DEF LineEnd
      <4> QED BY <4>1, <4>2
    <3>7. s[c] \in Loose
      BY <3>5 DEF Loose
    <3> QED BY <1>1, <3>3, <3>6, <3>7 DEF NoLooseEdge
  <2>2. CASE k # n
    <3>1. PICK j : j = k + 1
      OBVIOUS
    <3>2. j \in 1 .. n /\ t[j] = "newline"
      BY <1>1, <1>6, <2>2, <3>1 DEF LineEnd
    <3>3. e[j] = a + 1
      BY <1>1, <1>2, <3>1, <3>2, OuterKeepsNext
    <3>4. s[a + 1] = "newline"
      BY <1>1, <3>2, <3>3 DEF Thins
    <3> QED BY <1>3, <3>4 DEF LineEnd
  <2> QED BY <2>1, <2>2
<1> QED BY <1>5, <1>6

LEMMA TidiesNext ==
    ASSUME NEW s \in Seq(Char), NEW raw, Plain(raw) => Plain(s),
           NEW n \in 0 .. 6, Tidied(s, raw, n)
    PROVE  Tidied(Rewrite(n + 1, s), raw, n + 1)
<1>1. CASE n \in {0, 1}
  BY <1>1 DEF Tidied
<1>2. CASE n \in 2 .. 6
  <2>1. PICK m \in 3 .. 7 : m = n + 1
    BY <1>2
  <2>2. PICK t, S : t = Rewrite(m, s) /\ S = Taken(m, s)
    OBVIOUS
  <2>3. t = Without(s, S)
    BY <2>2, RewriteTakes
  <2>4. PICK e : t \in Seq(Char) /\ Thins(e, t, s, S)
    BY <2>3, WithoutIs
  <2>5. NoTwoBlanks(t) /\ (m >= 4 => NoBlankBefore(t))
    <3>1. CASE m = 3
      <4>1. S = RepeatedBlanks(s)
        BY <2>2, <3>1 DEF Taken
      <4>2. NoTwoBlanks(t)
        BY <2>4, <4>1, TidiesBlanks
      <4> QED BY <3>1, <4>2
    <3>2. CASE m \in 4 .. 7
      <4>1. NoTwoBlanks(s) /\ (m >= 5 => NoBlankBefore(s))
        BY <2>1, <3>2 DEF Tidied
      <4>2. Thins(e, t, s, Taken(m, s))
        BY <2>2, <2>4
      <4> QED BY <2>4, <3>2, <4>1, <4>2, KeepsNoTwoBlanks
    <3> QED BY <3>1, <3>2
  <2>6. m >= 6 /\ Plain(raw) => NoLooseEdge(t)
    <3>1. CASE m = 6
      <4>1. S = LineEdges(s)
        BY <2>2, <3>1 DEF Taken
      <4> QED BY <2>4, <4>1, TidiesEdges
    <3>2. CASE m = 7
      <4>1. S = Outer(s)
        BY <2>2, <3>2 DEF Taken
      <4>2. /\ NoTwoBlanks(s) /\ NoBlankBefore(s)
            /\ Plain(raw) => Plain(s) /\ NoLooseEdge(s)
        BY <2>1, <3>2 DEF Tidied
      <4> QED BY <2>4, <4>1, <4>2, KeepsNoLooseEdge
    <3> QED BY <3>1, <3>2
  <2>7. m >= 7 => NoOutside(t)
    <3>1. CASE m = 7
      <4>1. S = Outer(s)
        BY <2>2, <3>1 DEF Taken
      <4> QED BY <2>4, <4>1, TidiesOutside
    <3> QED BY <3>1
  <2>8. Tidied(t, raw, m)
    BY <2>5, <2>6, <2>7 DEF Tidied
  <2> QED BY <2>1, <2>2, <2>8
<1> QED BY <1>1, <1>2

LEMMA WithoutNothing ==
    ASSUME NEW T, NEW s \in Seq(T), NEW S, \A i \in 1 .. Len(s) : i \notin S
    PROVE  Without(s, S) = s
<1>1. PICK t, e : t = Without(s, S) /\ t \in Seq(T) /\ Thins(e, t, s, S)
  BY WithoutIs
<1>2. Thins([k \in 1 .. Len(s) |-> k], s, s, S)
  BY DEF Thins
<1> QED BY <1>1, <1>2, ThinsUnique

LEMMA TidyStays ==
    ASSUME NEW s \in Seq(Char), NEW raw, Tidied(s, raw, 7),
           \A i \in 1 .. Len(s) : s[i] # "dash" /\ s[i] # "emoji",
           NEW n \in 1 .. 7 \ {5}, n = 6 => Plain(raw)
    PROVE  Rewrite(n, s) = s
<1>1. PICK L \in Nat : L = Len(s) /\ DOMAIN s = 1 .. L
  OBVIOUS
<1>2. NoTwoBlanks(s) /\ NoBlankBefore(s) /\ NoOutside(s) /\ (n = 6 => NoLooseEdge(s))
  BY DEF Tidied
<1>3. CASE n = 1
  <2>1. \A i \in 1 .. L : DashPiece(s, i) = <<s[i]>>
    <3> TAKE i \in 1 .. L
    <3>1. s[i] # "dash" /\ ~NextToDash(s, i)
      BY <1>1 DEF NextToDash
    <3> QED BY <3>1, Zenon DEF DashPiece
  <2>2. [i \in DOMAIN s |-> DashPiece(s, i)]
            = [i \in DOMAIN s |-> IF i \in {} THEN <<>> ELSE <<s[i]>>]
    BY <1>1, <2>1
  <2>3. DashesToCommas(s) = Without(s, {})
    BY <2>2, DashesDef DEF Without
  <2>4. Without(s, {}) = s
    BY WithoutNothing
  <2> QED BY <1>3, <2>3, <2>4 DEF Rewrite
<1>4. CASE n = 2
  <2>1. \A i \in 1 .. L : i \notin EmojiRuns(s)
    BY <1>1 DEF EmojiRuns
  <2> QED BY <1>1, <1>4, <2>1, WithoutNothing DEF Rewrite
<1>5. CASE n = 3
  <2>1. ASSUME NEW i \in 1 .. L, i \in RepeatedBlanks(s) PROVE FALSE
    <3>1. PICK j : j = i - 1
      OBVIOUS
    <3>2. j \in 1 .. L /\ i = j + 1 /\ s[i] = "space" /\ s[j] = "space"
      BY <2>1, <3>1 DEF RepeatedBlanks, Blank
    <3> QED BY <1>1, <1>2, <3>2 DEF NoTwoBlanks
  <2> QED BY <1>1, <1>5, <2>1, WithoutNothing DEF Rewrite
<1>6. CASE n = 4
  <2>1. ASSUME NEW i \in 1 .. L, i \in BlanksBeforePunctuation(s) PROVE FALSE
    <3>1. PICK p \in 1 .. L : /\ i < p /\ s[p] \in Punctuation
                              /\ \A h \in i .. p - 1 : s[h] \in {"space"}
      BY <1>1, <2>1 DEF BlanksBeforePunctuation, AllIn, Blank
    <3>2. PICK j : j = p - 1
      OBVIOUS
    <3>3. j \in 1 .. L /\ p = j + 1 /\ j \in i .. p - 1
      BY <3>1, <3>2
    <3>4. s[j] = "space"
      BY <3>1, <3>3
    <3> QED BY <1>1, <1>2, <3>1, <3>3, <3>4 DEF NoBlankBefore
  <2> QED BY <1>1, <1>6, <2>1, WithoutNothing DEF Rewrite
<1>7. CASE n = 6
  <2>1. ASSUME NEW i \in 1 .. L, i \in LineEdges(s) PROVE FALSE
    <3>1. \/ \E l \in 1 .. i : LineStart(s, l) /\ \A h \in l .. i : s[h] \in {"comma", "space"}
          \/ \E l \in i .. L : LineEnd(s, l) /\ \A h \in i .. l : s[h] \in {"comma", "space"}
      BY <1>1, <2>1 DEF LineEdges, AllIn, Blank
    <3>2. ASSUME NEW l \in 1 .. i, LineStart(s, l), \A h \in l .. i : s[h] \in {"comma", "space"}
          PROVE  FALSE
      <4>1. l \in l .. i /\ l \in 1 .. L
        OBVIOUS
      <4>2. s[l] \in Loose
        BY <3>2, <4>1 DEF Loose
      <4> QED BY <1>1, <1>2, <1>7, <3>2, <4>1, <4>2 DEF NoLooseEdge
    <3>3. ASSUME NEW l \in i .. L, LineEnd(s, l), \A h \in i .. l : s[h] \in {"comma", "space"}
          PROVE  FALSE
      <4>1. l \in i .. l /\ l \in 1 .. L
        OBVIOUS
      <4>2. s[l] \in Loose
        BY <3>3, <4>1 DEF Loose
      <4> QED BY <1>1, <1>2, <1>7, <3>3, <4>1, <4>2 DEF NoLooseEdge
    <3> QED BY <3>1, <3>2, <3>3
  <2> QED BY <1>1, <1>7, <2>1, WithoutNothing DEF Rewrite
<1>8. CASE n = 7
  <2>1. ASSUME NEW i \in 1 .. L, i \in Outer(s) PROVE FALSE
    <3>1. (\A h \in 1 .. i : s[h] \in Whitespace) \/ (\A h \in i .. L : s[h] \in Whitespace)
      BY <1>1, <2>1 DEF Outer, AllIn
    <3>2. 1 \in 1 .. i /\ L \in i .. L /\ L # 0
      OBVIOUS
    <3>3. s[1] \notin Whitespace /\ s[L] \notin Whitespace
      BY <1>1, <1>2, <3>2 DEF NoOutside
    <3> QED BY <3>1, <3>2, <3>3
  <2>2. Strip(s) = s
    BY <1>1, <2>1, WithoutNothing DEF Strip
  <2> QED BY <1>8, <2>2 DEF Rewrite
<1> QED BY <1>3, <1>4, <1>5, <1>6, <1>7, <1>8

\* The clean-up brings no such whitespace in.
LEMMA PlainStays ==
    ASSUME NEW s, NEW t, NEW n, Repaired(t, s, n), Plain(s)
    PROVE  Plain(t)
<1>1. PICK e : Keeps(e, t, s)
  BY DEF Repaired
<1> SUFFICES ASSUME NEW k \in 1 .. Len(t), t[k] = "return" PROVE FALSE
  BY DEF Plain
<1>2. e[k] \in 1 .. Len(s) /\ s[e[k]] = "return"
  BY <1>1 DEF Keeps, Loose
<1> QED BY <1>2 DEF Plain

Tidy == Repair /\ (rewrites # 0 => Tidied(output.text, parsed.text, rewrites))

LEMMA NextTidy == Tidy /\ [Next]_vars => Tidy'
<1> SUFFICES ASSUME Tidy, [Next]_vars PROVE Tidy'
  OBVIOUS
<1>1. Repair /\ Repair' /\ Read
  BY NextRepair DEF Tidy, Repair
<1>2. CASE UNCHANGED <<parsed, output, rewrites>>
  BY <1>1, <1>2 DEF Tidy
<1>3. CASE Parse
  <2>1. rewrites' = 0
    BY <1>1, <1>3 DEF Parse, Read
  <2> QED BY <1>1, <2>1 DEF Tidy
<1>4. CASE CleanBio
  <2>1. output'.text = Rewrite(rewrites + 1, output.text) /\ output.is = "object"
    BY <1>1, <1>4, CleanBioReads
  <2>2. rewrites' = rewrites + 1 /\ rewrites \in 0 .. 6 /\ parsed.is = "object"
    BY <1>1, <1>4, <2>1 DEF CleanBio, Read, Shaped
  <2>3. PICK s, raw : s = output.text /\ raw = parsed.text
    OBVIOUS
  <2>4. PICK n \in 0 .. 6 : n = rewrites
    BY <2>2
  <2>5. s \in Seq(Char) /\ Tidied(s, raw, n) /\ (Plain(raw) => Plain(s))
    <3>1. Repaired(s, raw, n)
      BY <1>1, <2>2, <2>3, <2>4 DEF Repair
    <3>2. n = 0 => Tidied(s, raw, n)
      BY DEF Tidied
    <3>3. s \in Seq(Char)
      BY <3>1 DEF Repaired
    <3> QED BY <2>3, <2>4, <3>1, <3>2, <3>3, PlainStays DEF Tidy
  <2>6. Tidied(Rewrite(n + 1, s), raw, n + 1)
    BY <2>5, TidiesNext
  <2>7. parsed' = parsed
    BY <1>4 DEF CleanBio
  <2> QED BY <1>1, <2>1, <2>2, <2>3, <2>4, <2>6, <2>7 DEF Tidy
<1> QED BY <1>2, <1>3, <1>4 DEF Next, Normalize, Validate, Terminating, vars

LEMMA TidyHolds == Spec => []Tidy
<1>1. Init => Tidy
  BY InitRepair DEF Init, Tidy
<1> QED BY <1>1, NextTidy, PTL DEF Spec

LEMMA TidyIsTidy == Tidy => TidyAfterOnePass
<1> SUFFICES ASSUME Tidy, rewrites = 7, NEW n \in 1 .. 7 \ {5},
                    n = 6 => \A i \in DOMAIN Raw : Raw[i] # "return"
             PROVE  Rewrite(n, Text) = Text
  BY DEF TidyAfterOnePass, Cleaned
<1>1. parsed.is = "object"
  BY DEF Tidy, Repair, IsBio, Read, Shaped
<1>2. PICK s, t : s = parsed.text /\ t = Text
  OBVIOUS
<1>3. Repaired(t, s, 7) /\ Tidied(t, s, 7)
  BY <1>1, <1>2 DEF Tidy, Repair, Text
<1>4. t \in Seq(Char) /\ \A k \in 1 .. Len(t) : t[k] # "dash" /\ t[k] # "emoji"
  BY <1>3 DEF Repaired
<1>5. s \in Seq(Char)
  BY <1>1, <1>2 DEF Tidy, Repair, Read, Shaped, Typed
<1>6. n = 6 => Plain(s)
  BY <1>2, <1>5 DEF Raw, Plain
<1> QED BY <1>2, <1>3, <1>4, <1>6, TidyStays

\* However long a bio is, no rewrite leaves what an earlier one removes, but for
\* the commas of a run and the one that the strip exposes before whitespace of
\* another kind than the rewrites before it know.  (_clean_bio_text)
THEOREM TidyAfterOnePassHolds == Spec => []TidyAfterOnePass
BY TidyHolds, TidyIsTidy, PTL
=============================================================================
