-------------------------- MODULE ResponseStreamProofs --------------------------
(* Machine-checked proofs about ResponseStream, for every set of tokens, every *)
(* choice of stops and every capacity: the filter never takes back what it has *)
(* shown, and what the client has not read is exactly what is on its way to it.*)
(*                                                                             *)
(* First what Decode and Said compute, which are recursions over a sequence:   *)
(* that the recursion has a table, and what each entry adds to the one before. *)
(* Then the filter (FilterInv), and then the stream around it (ResponseInv).   *)
EXTENDS ResponseStream, SequenceTheorems, FiniteSetTheorems, TLAPS

-----------------------------------------------------------------------------
(* Numbers, recursion and sequences.                                           *)

(* Every non-empty set of naturals has a least element: of the sets 0..x, the  *)
(* smallest by inclusion is that of the least x.                               *)
LEMMA LeastOfNaturals ==
  ASSUME NEW S, S \subseteq Nat, S # {}
  PROVE  \E x \in S : \A y \in S : x <= y
  <1> DEFINE Initials == {0..x : x \in S}
  <1>1. Initials \subseteq FiniteSubsetsOf(Nat)
    <2> SUFFICES ASSUME NEW x \in S PROVE 0..x \in FiniteSubsetsOf(Nat)
      OBVIOUS
    <2>1. IsFiniteSet(0..x)
      BY FS_Interval
    <2> QED BY <2>1 DEF FiniteSubsetsOf
  <1>2. Initials # {}
    OBVIOUS
  <1>3. \E I \in Initials : \A J \in Initials : ~ (<<J, I>> \in StrictSubsetOrdering(Nat))
    <2> HIDE DEF Initials
    <2> QED BY <1>1, <1>2, WFMin, FS_StrictSubsetOrderingWellFounded
  <1>4. PICK x \in S : \A y \in S : ~ (<<0..y, 0..x>> \in StrictSubsetOrdering(Nat))
    BY <1>3
  <1>5. ASSUME NEW y \in S, y < x PROVE FALSE
    <2>1. 0..y \subseteq 0..x /\ 0..y # 0..x /\ 0..y \in SUBSET Nat /\ 0..x \in SUBSET Nat
      BY <1>5
    <2>2. <<0..y, 0..x>> \in StrictSubsetOrdering(Nat)
      BY <2>1 DEF StrictSubsetOrdering
    <2> QED BY <1>4, <2>2
  <1> QED BY <1>5

(* Induction up to a bound, as a fact about the set where a formula holds.     *)
LEMMA Reaches ==
  ASSUME NEW bound \in Nat, NEW S,
         0 \in S, \A n \in 1 .. bound : n - 1 \in S => n \in S
  PROVE  \A n \in 0 .. bound : n \in S
  <1> DEFINE Missed == {n \in 0 .. bound : n \notin S}
  <1> SUFFICES ASSUME Missed # {} PROVE FALSE
    OBVIOUS
  <1>1. PICK n \in Missed : \A k \in Missed : n <= k
    <2>1. Missed \subseteq Nat
      OBVIOUS
    <2> HIDE DEF Missed
    <2> QED BY <2>1, LeastOfNaturals
  <1>2. n \in 1 .. bound /\ n - 1 \in 0 .. bound /\ ~(n <= n - 1)
    OBVIOUS
  <1>3. n - 1 \in S
    BY <1>1, <1>2
  <1> QED BY <1>2, <1>3

LEMMA MinOfNaturals ==
  ASSUME NEW S, S \subseteq Nat, S # {}
  PROVE  Min(S) \in S /\ \A y \in S : Min(S) <= y
  BY LeastOfNaturals DEF Min

LEMMA MaxOfNaturals ==
  ASSUME NEW bound \in Nat, NEW S, S \subseteq 0 .. bound, S # {}
  PROVE  Max(S) \in S /\ \A y \in S : y <= Max(S)
  <1> DEFINE Below == {bound - x : x \in S}
  <1>0. \A x \in S : x \in Nat /\ x <= bound /\ bound - x \in Nat
    <2> SUFFICES ASSUME NEW x \in S PROVE x \in Nat /\ x <= bound /\ bound - x \in Nat
      OBVIOUS
    <2>1. x \in 0 .. bound
      OBVIOUS
    <2> QED BY <2>1
  <1>1. Below \subseteq Nat /\ Below # {}
    <2>1. PICK x : x \in S
      OBVIOUS
    <2>2. bound - x \in Below
      BY <2>1
    <2> QED BY <1>0, <2>2
  <1>2. PICK m \in Below : \A k \in Below : m <= k
    <2> HIDE DEF Below
    <2> QED BY <1>1, LeastOfNaturals
  <1>3. PICK x \in S : m = bound - x
    OBVIOUS
  <1>4. \A y \in S : x >= y
    <2> SUFFICES ASSUME NEW y \in S PROVE x >= y
      OBVIOUS
    <2>1. bound - x <= bound - y
      BY <1>2, <1>3
    <2>2. x \in Nat /\ y \in Nat
      BY <1>0
    <2> QED BY <2>1, <2>2
  <1>5. \E z \in S : \A y \in S : z >= y
    BY <1>4
  <1>6. Max(S) \in S /\ \A y \in S : Max(S) >= y
    BY <1>5 DEF Max
  <1> DEFINE most == Max(S)
  <1>7. most \in Nat /\ \A y \in S : y \in Nat
    BY <1>0, <1>6
  <1> HIDE DEF most
  <1>8. \A y \in S : most >= y
    BY <1>6 DEF most
  <1>9. \A y \in S : y <= most
    BY <1>7, <1>8
  <1> QED BY <1>6, <1>9 DEF most

(* What is defined by its value at 0 and a step has values everywhere.         *)
IsStep(step, bound, V) == step \in [1 .. bound -> [V -> V]]

Follows(f, bound, start, step) ==
  f[0] = start /\ \A n \in 1 .. bound : f[n] = step[n][f[n - 1]]

LEMMA RecursionExists ==
  ASSUME NEW bound \in Nat, NEW V, NEW start \in V, NEW step, IsStep(step, bound, V)
  PROVE  \E f \in [0 .. bound -> V] : Follows(f, bound, start, step)
  <1> USE DEF IsStep
  <1> DEFINE Good(m, f) == f[0] = start /\ \A n \in 1 .. m : f[n] = step[n][f[n - 1]]
             S == {m \in 0 .. bound : \E f \in [0 .. m -> V] : Good(m, f)}
  <1>1. 0 \in S
    <2> DEFINE f == [n \in 0 .. 0 |-> start]
    <2>1. f \in [0 .. 0 -> V] /\ f[0] = start
      OBVIOUS
    <2>2. Good(0, f)
      BY <2>1
    <2>3. 0 \in 0 .. bound
      OBVIOUS
    <2> HIDE DEF f, Good
    <2> QED BY <2>1, <2>2, <2>3
  <1>2. ASSUME NEW m \in 1 .. bound, m - 1 \in S PROVE m \in S
    <2>1. m \in Nat /\ m - 1 \in Nat /\ m # 0
      OBVIOUS
    <2>2. PICK f \in [0 .. m - 1 -> V] : Good(m - 1, f)
      BY <1>2
    <2> DEFINE g == [n \in 0 .. m |-> IF n = m THEN step[m][f[m - 1]] ELSE f[n]]
    <2>3. f[m - 1] \in V /\ step[m] \in [V -> V]
      BY <2>1
    <2>4. step[m][f[m - 1]] \in V
      BY <2>3
    <2>5. ASSUME NEW n \in 0 .. m PROVE g[n] \in V
      <3>1. CASE n = m
        BY <2>4, <3>1
      <3>2. CASE n # m
        <4>1. n \in 0 .. m - 1
          BY <2>1, <3>2
        <4> QED BY <3>2, <4>1
      <3> QED BY <3>1, <3>2
    <2>6. g \in [0 .. m -> V]
      BY <2>5
    <2>7. g[0] = start
      <3>1. 0 \in 0 .. m /\ 0 # m
        BY <2>1
      <3> QED BY <2>2, <3>1
    <2>8. ASSUME NEW n \in 1 .. m PROVE g[n] = step[n][g[n - 1]]
      <3>1. n \in 0 .. m /\ n - 1 \in 0 .. m /\ n - 1 # m
        BY <2>1
      <3>2. g[n - 1] = f[n - 1]
        BY <3>1
      <3>3. CASE n = m
        BY <3>1, <3>2, <3>3
      <3>4. CASE n # m
        <4>1. n \in 1 .. m - 1
          BY <2>1, <3>4
        <4>2. g[n] = f[n]
          BY <3>1, <3>4
        <4> QED BY <2>2, <3>2, <4>1, <4>2
      <3> QED BY <3>3, <3>4
    <2>9. Good(m, g)
      BY <2>7, <2>8
    <2> HIDE DEF g, Good
    <2> QED BY <2>6, <2>9
  <1>3. bound \in S
    <2>1. \A n \in 1 .. bound : n - 1 \in S => n \in S
      BY <1>2
    <2> HIDE DEF S
    <2>2. \A n \in 0 .. bound : n \in S
      BY <1>1, <2>1, Reaches
    <2> QED BY <2>2
  <1> QED BY <1>3 DEF Follows

LEMMA PrefixMeans ==
  ASSUME NEW S, NEW s \in Seq(S), NEW t \in Seq(S)
  PROVE  IsPrefix(s, t) <=> Len(s) <= Len(t) /\ \A i \in 1 .. Len(s) : s[i] = t[i]
  <1>1. Len(s) \in Nat /\ Len(t) \in Nat /\ SubSeq(s, 1, Len(s)) = s
    BY LenProperties, SubSeqFull
  <1>2. ASSUME Len(s) <= Len(t)
        PROVE  /\ SubSeq(t, 1, Len(s)) \in Seq(S) /\ Len(SubSeq(t, 1, Len(s))) = Len(s)
               /\ \A i \in 1 .. Len(s) : SubSeq(t, 1, Len(s))[i] = t[i]
    <2>1. \A i \in 1 .. Len(s) : t[i] \in S
      BY <1>1, <1>2, ElementOfSeq
    <2>2. 1 \in Int /\ Len(s) \in Int
      BY <1>1
    <2> QED BY <1>1, <2>1, <2>2, SubSeqProperties
  <1>3. ASSUME Len(s) <= Len(t), \A i \in 1 .. Len(s) : s[i] = t[i]
        PROVE  s = SubSeq(t, 1, Len(s))
    BY <1>2, <1>3, SeqEqual
  <1> QED BY <1>1, <1>2, <1>3 DEF IsPrefix

(* The first part of a sequence and the rest.                                  *)
LEMMA CutAt ==
  ASSUME NEW S, NEW s \in Seq(S), NEW n \in 0 .. Len(s)
  PROVE  /\ SubSeq(s, 1, n) \in Seq(S) /\ Len(SubSeq(s, 1, n)) = n
         /\ \A i \in 1 .. n : SubSeq(s, 1, n)[i] = s[i]
         /\ SubSeq(s, n + 1, Len(s)) \in Seq(S) /\ Len(SubSeq(s, n + 1, Len(s))) = Len(s) - n
         /\ \A i \in 1 .. Len(s) - n : SubSeq(s, n + 1, Len(s))[i] = s[n + i]
         /\ SubSeq(s, 1, n) \o SubSeq(s, n + 1, Len(s)) = s
  <1> DEFINE a == SubSeq(s, 1, n)
             b == SubSeq(s, n + 1, Len(s))
  <1>1. Len(s) \in Nat /\ n \in Nat /\ n <= Len(s) /\ \A i \in 1 .. Len(s) : s[i] \in S
    BY LenProperties, ElementOfSeq
  <1>2. a \in Seq(S) /\ Len(a) = n /\ \A i \in 1 .. n : a[i] = s[i]
    <2>1. \A i \in 1 .. n : s[i] \in S
      BY <1>1
    <2>2. 1 \in Int /\ n \in Int
      BY <1>1
    <2>3. /\ a \in Seq(S) /\ Len(a) = IF 1 <= n THEN n - 1 + 1 ELSE 0
          /\ \A i \in 1 .. n - 1 + 1 : a[i] = s[1 + i - 1]
      BY <2>1, <2>2, SubSeqProperties
    <2> HIDE DEF a
    <2> QED BY <1>1, <2>3
  <1>3. b \in Seq(S) /\ Len(b) = Len(s) - n /\ \A i \in 1 .. Len(s) - n : b[i] = s[n + i]
    <2>1. \A i \in n + 1 .. Len(s) : s[i] \in S
      BY <1>1
    <2>2. n + 1 \in Int /\ Len(s) \in Int
      BY <1>1
    <2>3. /\ b \in Seq(S) /\ Len(b) = IF n + 1 <= Len(s) THEN Len(s) - (n + 1) + 1 ELSE 0
          /\ \A i \in 1 .. Len(s) - (n + 1) + 1 : b[i] = s[(n + 1) + i - 1]
      BY <2>1, <2>2, SubSeqProperties
    <2> HIDE DEF b
    <2>4. Len(b) = Len(s) - n
      BY <1>1, <2>3
    <2>5. ASSUME NEW i \in 1 .. Len(s) - n PROVE b[i] = s[n + i]
      <3>1. i \in 1 .. Len(s) - (n + 1) + 1 /\ (n + 1) + i - 1 = n + i
        BY <1>1
      <3> QED BY <2>3, <3>1
    <2> QED BY <2>3, <2>4, <2>5
  <1> HIDE DEF a, b
  <1>4. /\ a \o b \in Seq(S) /\ Len(a \o b) = n + (Len(s) - n)
        /\ \A i \in 1 .. n + (Len(s) - n) : (a \o b)[i] = IF i <= n THEN a[i] ELSE b[i - n]
    BY <1>2, <1>3, ConcatProperties
  <1>5. ASSUME NEW i \in 1 .. Len(a \o b) PROVE (a \o b)[i] = s[i]
    <2>1. i \in 1 .. n + (Len(s) - n)
      BY <1>4
    <2>2. CASE i <= n
      <3>1. i \in 1 .. n
        BY <1>1, <2>1, <2>2
      <3> QED BY <1>2, <1>4, <2>1, <2>2, <3>1
    <2>3. CASE ~(i <= n)
      <3>1. i - n \in 1 .. Len(s) - n /\ n + (i - n) = i
        BY <1>1, <2>1, <2>3
      <3> QED BY <1>3, <1>4, <2>1, <2>3, <3>1
    <2> QED BY <2>2, <2>3
  <1>6. Len(a \o b) = Len(s)
    BY <1>1, <1>4
  <1>7. a \o b = s
    BY <1>4, <1>5, <1>6, SeqEqual
  <1> QED BY <1>2, <1>3, <1>7 DEF a, b

-----------------------------------------------------------------------------
(* Decoding.                                                                   *)

Characters == STRING \cup {TwoByte, Replacement}

LEMMA CharacterIsOne ==
  ASSUME NEW b \in Seq(Characters), NEW i \in 1 .. Len(b)
  PROVE  CharacterAt(b, i) \in Characters
  <1>1. b[i] \in Characters
    BY ElementOfSeq
  <1>2. TwoByte \in Characters /\ Replacement \in Characters
    BY DEF Characters
  <1>3. CASE b[i] = Lead
    <2>1. CASE i < Len(b)
      BY <1>2, <1>3, <2>1 DEF CharacterAt
    <2>2. CASE i = Len(b)
      <3>1. ~(i < Len(b))
        BY <2>2
      <3> QED BY <1>2, <1>3, <2>2, <3>1 DEF CharacterAt, Lead, Continuation
    <2> QED BY <2>1, <2>2
  <1>4. CASE b[i] # Lead
    BY <1>1, <1>2, <1>4 DEF CharacterAt
  <1> QED BY <1>3, <1>4

(* The recursion over the bytes defines what it says.                          *)
LEMMA DecodedByByte ==
  ASSUME NEW b \in Seq(Characters)
  PROVE  /\ Decoding(b) \in [0 .. Len(b) -> Seq(Characters)]
         /\ Decoding(b)[0] = <<>>
         /\ \A n \in 1 .. Len(b) :
              Decoding(b)[n] = IF StartsCharacter(b, n)
                               THEN Append(Decoding(b)[n - 1], CharacterAt(b, n))
                               ELSE Decoding(b)[n - 1]
  <1> DEFINE V == Seq(Characters)
             Next1(n, text) == IF StartsCharacter(b, n) THEN Append(text, CharacterAt(b, n)) ELSE text
             step == [n \in 1 .. Len(b) |-> [text \in V |-> Next1(n, text)]]
  <1>1. Len(b) \in Nat
    BY LenProperties
  <1>2. <<>> \in V
    BY EmptySeq
  <1>3. step \in [1 .. Len(b) -> [V -> V]]
    <2>1. ASSUME NEW n \in 1 .. Len(b), NEW text \in V PROVE Next1(n, text) \in V
      BY CharacterIsOne, AppendProperties
    <2> HIDE DEF Next1, V
    <2> QED BY <2>1
  <1>4. PICK f \in [0 .. Len(b) -> V] :
          f[0] = <<>> /\ \A n \in 1 .. Len(b) : f[n] = step[n][f[n - 1]]
    <2>1. IsStep(step, Len(b), V)
      BY <1>3 DEF IsStep
    <2> HIDE DEF step, V
    <2>2. \E f \in [0 .. Len(b) -> V] : Follows(f, Len(b), <<>>, step)
      BY <1>1, <1>2, <2>1, RecursionExists
    <2> QED BY <2>2 DEF Follows
  <1>5. ASSUME NEW n \in 1 .. Len(b) PROVE f[n] = Next1(n, f[n - 1])
    <2>1. n - 1 \in 0 .. Len(b)
      BY <1>1
    <2>2. f[n - 1] \in V
      BY <2>1
    <2>3. f[n] = step[n][f[n - 1]]
      BY <1>4
    <2> HIDE DEF Next1, V
    <2> QED BY <2>2, <2>3
  <1> DEFINE Table(g) == g = [n \in 0 .. Len(b) |-> IF n = 0 THEN <<>> ELSE Next1(n, g[n - 1])]
  <1>6. Table(f)
    <2> DEFINE h == [n \in 0 .. Len(b) |-> IF n = 0 THEN <<>> ELSE Next1(n, f[n - 1])]
    <2>1. ASSUME NEW n \in 0 .. Len(b) PROVE f[n] = h[n]
      <3>1. n = 0 \/ n \in 1 .. Len(b)
        BY <1>1
      <3> HIDE DEF Next1
      <3> QED BY <1>4, <1>5, <3>1
    <2>2. DOMAIN f = 0 .. Len(b) /\ DOMAIN h = 0 .. Len(b)
      OBVIOUS
    <2>3. f = [n \in 0 .. Len(b) |-> f[n]] /\ h = [n \in 0 .. Len(b) |-> h[n]]
      OBVIOUS
    <2> HIDE DEF h
    <2>4. f = h
      BY <2>1, <2>3
    <2> QED BY <2>4 DEF h
  <1>7. Table(Decoding(b))
    BY <1>6 DEF Decoding
  <1> DEFINE g == Decoding(b)
  <1>8. /\ g[0] = <<>>
        /\ \A n \in 1 .. Len(b) : g[n] = Next1(n, g[n - 1])
        /\ g = [n \in 0 .. Len(b) |-> g[n]]
    <2>1. Table(g)
      BY <1>7
    <2> HIDE DEF g, Next1
    <2>2. 0 \in 0 .. Len(b) /\ \A n \in 1 .. Len(b) : n \in 0 .. Len(b) /\ n # 0
      BY <1>1
    <2> QED BY <2>1, <2>2
  <1> HIDE DEF g
  <1>9. \A n \in 0 .. Len(b) : g[n] \in V
    <2> DEFINE S == {n \in 0 .. Len(b) : g[n] \in V}
    <2>1. 0 \in S
      <3>1. 0 \in 0 .. Len(b)
        BY <1>1
      <3> HIDE DEF V, Next1
      <3> QED BY <1>2, <1>8, <3>1
    <2>2. ASSUME NEW n \in 1 .. Len(b), n - 1 \in S PROVE n \in S
      <3>1. Next1(n, g[n - 1]) \in V
        <4>1. g[n - 1] \in V
          BY <2>2
        <4> QED BY <4>1, CharacterIsOne, AppendProperties
      <3>2. n \in 0 .. Len(b)
        BY <1>1
      <3> HIDE DEF Next1, V
      <3> QED BY <1>8, <3>1, <3>2
    <2>3. \A n \in 1 .. Len(b) : n - 1 \in S => n \in S
      BY <2>2
    <2> HIDE DEF S
    <2>4. \A n \in 0 .. Len(b) : n \in S
      BY <1>1, <2>1, <2>3, Reaches
    <2> QED BY <2>4 DEF S
  <1>10. g \in [0 .. Len(b) -> V]
    <2> HIDE DEF V
    <2> QED BY <1>8, <1>9
  <1> QED BY <1>8, <1>10 DEF g

LEMMA DecodeIsText ==
  ASSUME NEW b \in Seq(Characters)
  PROVE  Decode(b) \in Seq(Characters)
  <1>1. Len(b) \in Nat /\ Len(b) \in 0 .. Len(b)
    BY LenProperties
  <1> QED BY <1>1, DecodedByByte DEF Decode

(* A byte more takes nothing back of what was decoded before it.               *)
LEMMA DecodingGrows ==
  ASSUME NEW b \in Seq(Characters), NEW m \in 0 .. Len(b), NEW n \in m .. Len(b)
  PROVE  /\ Len(Decoding(b)[m]) <= Len(Decoding(b)[n])
         /\ \A i \in 1 .. Len(Decoding(b)[m]) : Decoding(b)[n][i] = Decoding(b)[m][i]
  <1> DEFINE g == Decoding(b)
             Grown(k) == /\ Len(g[m]) <= Len(g[k])
                         /\ \A i \in 1 .. Len(g[m]) : g[k][i] = g[m][i]
             S == {k \in 0 .. Len(b) : m <= k => Grown(k)}
  <1>1. Len(b) \in Nat /\ m \in Nat /\ m <= Len(b)
    BY LenProperties
  <1>2. \A k \in 0 .. Len(b) : g[k] \in Seq(Characters) /\ Len(g[k]) \in Nat
    BY DecodedByByte, LenProperties
  <1>3. Grown(m)
    BY <1>2
  <1>4. 0 \in S
    <2>1. m <= 0 => m = 0
      BY <1>1
    <2> HIDE DEF Grown, g
    <2> QED BY <1>1, <1>3, <2>1
  <1>5. ASSUME NEW k \in 1 .. Len(b), k - 1 \in S PROVE k \in S
    <2>1. k \in 0 .. Len(b) /\ k - 1 \in 0 .. Len(b)
      BY <1>1
    <2>2. CASE k <= m
      <3>1. m <= k => k = m
        BY <1>1, <2>2
      <3> HIDE DEF Grown, g
      <3> QED BY <1>3, <2>1, <3>1
    <2>3. CASE m < k
      <3>1. Grown(k - 1)
        <4>1. m <= k - 1
          BY <1>1, <2>3
        <4> HIDE DEF Grown
        <4> QED BY <1>5, <4>1
      <3>2. PICK old \in Seq(Characters) : old = g[k - 1]
        BY <1>2, <2>1
      <3>3. PICK new \in Seq(Characters) : new = g[k]
        BY <1>2, <2>1
      <3>4. Len(old) \in Nat /\ Len(new) \in Nat /\ Len(g[m]) \in Nat
        BY <1>1, <1>2, LenProperties
      <3>5. Len(old) <= Len(new) /\ \A i \in 1 .. Len(old) : new[i] = old[i]
        <4>1. new = old \/ new = Append(old, CharacterAt(b, k))
          BY <3>2, <3>3, DecodedByByte
        <4>2. CASE new = old
          BY <3>4, <4>2
        <4>3. CASE new = Append(old, CharacterAt(b, k))
          <5>1. CharacterAt(b, k) \in Characters
            BY CharacterIsOne
          <5>2. Len(new) = Len(old) + 1 /\ \A i \in 1 .. Len(old) : new[i] = old[i]
            BY <4>3, <5>1, AppendProperties
          <5> QED BY <3>4, <5>2
        <4> QED BY <4>1, <4>2, <4>3
      <3>6. Len(g[m]) <= Len(old) /\ \A i \in 1 .. Len(g[m]) : old[i] = g[m][i]
        BY <3>1, <3>2
      <3> HIDE DEF g
      <3>7. Grown(k)
        <4>1. Len(g[m]) <= Len(new)
          BY <3>4, <3>5, <3>6
        <4>2. ASSUME NEW i \in 1 .. Len(g[m]) PROVE new[i] = g[m][i]
          <5>1. i \in 1 .. Len(old)
            BY <3>4, <3>6
          <5> QED BY <3>5, <3>6, <5>1
        <4> QED BY <3>3, <4>1, <4>2
      <3> HIDE DEF Grown
      <3> QED BY <2>1, <3>7
    <2> QED BY <1>1, <2>2, <2>3
  <1>6. \A k \in 0 .. Len(b) : k \in S
    <2>1. \A k \in 1 .. Len(b) : k - 1 \in S => k \in S
      BY <1>5
    <2> HIDE DEF S
    <2> QED BY <1>1, <1>4, <2>1, Reaches
  <1>7. n \in 0 .. Len(b) /\ m <= n
    BY <1>1
  <1>8. Grown(n)
    <2> HIDE DEF Grown
    <2> QED BY <1>6, <1>7
  <1> QED BY <1>8

(* More bytes leave the text of those before them as it was, but for a last    *)
(* character that was only begun.                                              *)
LEMMA DecodingContinues ==
  ASSUME NEW b \in Seq(Characters), NEW t \in Seq(Characters)
  PROVE  /\ Len(Decode(b)) <= Len(Decode(b \o t))
         /\ \A i \in 1 .. Len(Decode(b)) :
              Decode(b \o t)[i] = Decode(b)[i] \/ (i = Len(Decode(b)) /\ Decode(b)[i] = Replacement)
  <1> DEFINE c == b \o t
             size == Len(b)
             f == Decoding(b)
             g == Decoding(c)
  <1>1. /\ c \in Seq(Characters) /\ size \in Nat /\ Len(c) \in Nat /\ size <= Len(c)
        /\ \A i \in 1 .. size : c[i] = b[i] /\ i \in 1 .. Len(c)
    <2>1. /\ c \in Seq(Characters) /\ Len(c) = size + Len(t)
          /\ \A i \in 1 .. size + Len(t) : c[i] = IF i <= size THEN b[i] ELSE t[i - size]
      BY ConcatProperties
    <2>2. size \in Nat /\ Len(t) \in Nat
      BY LenProperties
    <2> HIDE DEF c, size
    <2> QED BY <2>1, <2>2
  <1> HIDE DEF c
  <1>2. /\ \A n \in 0 .. size : f[n] \in Seq(Characters)
        /\ \A n \in 0 .. size : g[n] \in Seq(Characters) /\ n \in 0 .. Len(c)
        /\ f[0] = <<>> /\ g[0] = <<>>
        /\ \A n \in 1 .. size :
             f[n] = IF StartsCharacter(b, n) THEN Append(f[n - 1], CharacterAt(b, n)) ELSE f[n - 1]
        /\ \A n \in 1 .. size :
             g[n] = IF StartsCharacter(c, n) THEN Append(g[n - 1], CharacterAt(c, n)) ELSE g[n - 1]
    <2>1. f \in [0 .. size -> Seq(Characters)] /\ g \in [0 .. Len(c) -> Seq(Characters)]
      BY <1>1, DecodedByByte
    <2>2. \A n \in 0 .. size : n \in 0 .. Len(c)
      BY <1>1
    <2>3. \A n \in 1 .. size : n \in 1 .. Len(c)
      BY <1>1
    <2>4. /\ f[0] = <<>>
          /\ \A n \in 1 .. size :
             f[n] = IF StartsCharacter(b, n) THEN Append(f[n - 1], CharacterAt(b, n)) ELSE f[n - 1]
      BY DecodedByByte
    <2>5. /\ g[0] = <<>>
          /\ \A n \in 1 .. Len(c) :
             g[n] = IF StartsCharacter(c, n) THEN Append(g[n - 1], CharacterAt(c, n)) ELSE g[n - 1]
      BY <1>1, DecodedByByte
    <2> HIDE DEF f, g
    <2> QED BY <2>1, <2>2, <2>3, <2>4, <2>5
  <1>3. ASSUME NEW n \in 1 .. size
        PROVE  StartsCharacter(b, n) <=> StartsCharacter(c, n)
    <2>1. c[n] = b[n] /\ (n # 1 => c[n - 1] = b[n - 1])
      <3>1. n # 1 => n - 1 \in 1 .. size
        BY <1>1
      <3> QED BY <1>1, <3>1
    <2> QED BY <2>1 DEF StartsCharacter
  <1>4. ASSUME NEW n \in 1 .. size
        PROVE  CharacterAt(b, n) = CharacterAt(c, n)
               \/ (n = size /\ b[n] = Lead /\ CharacterAt(b, n) = Replacement)
    <2>1. c[n] = b[n] /\ n \in Nat /\ n <= size /\ n <= Len(c)
      BY <1>1
    <2>2. CASE n < size
      <3>1. n < Len(c) /\ n < Len(b) /\ c[n + 1] = b[n + 1]
        <4>1. n + 1 \in 1 .. size
          BY <1>1, <2>2
        <4> QED BY <1>1, <2>2, <4>1
      <3>2. n # Len(b) /\ n # Len(c)
        BY <1>1, <3>1
      <3> QED BY <2>1, <3>1, <3>2 DEF CharacterAt
    <2>3. CASE n = size
      <3>1. n = Len(b) /\ ~(n < Len(b))
        BY <1>1, <2>3
      <3>2. CASE b[n] = Lead
        <4>1. CharacterAt(b, n) = Replacement
          BY <3>1, <3>2 DEF CharacterAt, Lead, Continuation
        <4> QED BY <2>3, <3>2, <4>1
      <3>3. CASE b[n] # Lead
        BY <2>1, <3>3 DEF CharacterAt
      <3> QED BY <3>2, <3>3
    <2> QED BY <1>1, <2>1, <2>2, <2>3
  <1>5. ASSUME NEW n \in 0 .. size, n < size PROVE f[n] = g[n]
    <2> DEFINE S == {k \in 0 .. size : k < size => f[k] = g[k]}
    <2>1. 0 \in S
      <3>1. 0 \in 0 .. size
        BY <1>1
      <3> HIDE DEF f, g, size
      <3> QED BY <1>2, <3>1
    <2>2. ASSUME NEW k \in 1 .. size, k - 1 \in S PROVE k \in S
      <3>1. k \in 0 .. size /\ k - 1 < size
        BY <1>1
      <3>2. k < size => CharacterAt(b, k) = CharacterAt(c, k)
        <4>1. k < size => k # size
          BY <1>1
        <4> QED BY <1>4, <4>1
      <3>3. f[k - 1] = g[k - 1]
        <4> HIDE DEF f, g, size
        <4> QED BY <2>2, <3>1
      <3>4. StartsCharacter(b, k) <=> StartsCharacter(c, k)
        BY <1>3
      <3> HIDE DEF f, g, size
      <3> QED BY <1>2, <3>1, <3>2, <3>3, <3>4
    <2>3. \A k \in 1 .. size : k - 1 \in S => k \in S
      BY <2>2
    <2>4. \A k \in 0 .. size : k \in S
      <3> HIDE DEF S, size
      <3> QED BY <1>1, <2>1, <2>3, Reaches
    <2> HIDE DEF f, g, size
    <2> QED BY <1>5, <2>4
  <1> DEFINE early == f[size]
             late == g[size]
  <1>6. /\ early \in Seq(Characters) /\ late \in Seq(Characters)
        /\ Len(early) \in Nat /\ Len(early) = Len(late)
        /\ \A i \in 1 .. Len(early) :
             late[i] = early[i] \/ (i = Len(early) /\ early[i] = Replacement)
    <2>1. early \in Seq(Characters) /\ late \in Seq(Characters)
      <3>1. size \in 0 .. size
        BY <1>1
      <3> HIDE DEF f, g, size
      <3> QED BY <1>2, <3>1
    <2>2. CASE size = 0
      <3>1. early = late
        <4> HIDE DEF f, g, size
        <4> QED BY <1>2, <2>2
      <3> HIDE DEF early, late
      <3> QED BY <2>1, <3>1, LenProperties
    <2>3. CASE size # 0
      <3>1. size \in 1 .. size /\ size - 1 \in 0 .. size /\ size - 1 < size
        BY <1>1, <2>3
      <3>2. PICK before \in Seq(Characters) : before = f[size - 1] /\ before = g[size - 1]
        <4>1. f[size - 1] = g[size - 1]
          <5> HIDE DEF f, g, size
          <5> QED BY <1>5, <3>1
        <4>2. f[size - 1] \in Seq(Characters)
          <5> HIDE DEF f, g, size
          <5> QED BY <1>2, <3>1
        <4> QED BY <4>1, <4>2
      <3>3. early = IF StartsCharacter(b, size) THEN Append(before, CharacterAt(b, size)) ELSE before
        <4> HIDE DEF f, g, size
        <4> QED BY <1>2, <3>1, <3>2
      <3>4. late = IF StartsCharacter(b, size) THEN Append(before, CharacterAt(c, size)) ELSE before
        <4>1. late = IF StartsCharacter(c, size) THEN Append(before, CharacterAt(c, size)) ELSE before
          <5> HIDE DEF f, g, size
          <5> QED BY <1>2, <3>1, <3>2
        <4> QED BY <1>3, <3>1, <4>1
      <3>5. PICK one \in Characters : one = CharacterAt(b, size)
        BY <3>1, CharacterIsOne
      <3>6. PICK two \in Characters : two = CharacterAt(c, size)
        <4>1. size \in 1 .. Len(c)
          BY <1>1, <3>1
        <4> QED BY <1>1, <4>1, CharacterIsOne
      <3>7. one = two \/ one = Replacement
        BY <1>4, <3>1, <3>5, <3>6
      <3>8. Len(before) \in Nat
        BY LenProperties
      <3>9. /\ Len(Append(before, one)) = Len(before) + 1 /\ Append(before, one)[Len(before) + 1] = one
            /\ \A i \in 1 .. Len(before) : Append(before, one)[i] = before[i]
        BY AppendProperties
      <3>10. /\ Len(Append(before, two)) = Len(before) + 1 /\ Append(before, two)[Len(before) + 1] = two
             /\ \A i \in 1 .. Len(before) : Append(before, two)[i] = before[i]
        BY AppendProperties
      <3>11. CASE StartsCharacter(b, size)
        <4>1. early = Append(before, one) /\ late = Append(before, two)
          BY <3>3, <3>4, <3>5, <3>6, <3>11
        <4> HIDE DEF early, late
        <4>2. ASSUME NEW i \in 1 .. Len(early)
              PROVE  late[i] = early[i] \/ (i = Len(early) /\ early[i] = Replacement)
          <5>1. i \in 1 .. Len(before) \/ i = Len(before) + 1
            BY <3>8, <3>9, <4>1
          <5> QED BY <3>7, <3>9, <3>10, <4>1, <5>1
        <4> QED BY <2>1, <3>8, <3>9, <3>10, <4>1, <4>2
      <3>12. CASE ~StartsCharacter(b, size)
        <4>1. early = before /\ late = before
          BY <3>3, <3>4, <3>12
        <4> HIDE DEF early, late
        <4> QED BY <2>1, <3>8, <4>1
      <3> QED BY <3>11, <3>12
    <2> QED BY <2>2, <2>3
  <1>7. PICK whole \in Seq(Characters) : whole = Decode(c)
    BY <1>1, DecodeIsText
  <1>8. Len(late) <= Len(whole) /\ \A i \in 1 .. Len(late) : whole[i] = late[i]
    <2>1. size \in 0 .. Len(c) /\ Len(c) \in size .. Len(c)
      BY <1>1
    <2> QED BY <1>1, <1>7, <2>1, DecodingGrows DEF Decode
  <1>9. early = Decode(b)
    BY DEF Decode
  <1> HIDE DEF early, late
  <1>10. Len(early) <= Len(whole)
    BY <1>6, <1>8
  <1>11. \A i \in 1 .. Len(early) :
           whole[i] = early[i] \/ (i = Len(early) /\ early[i] = Replacement)
    BY <1>6, <1>8
  <1> QED BY <1>7, <1>9, <1>10, <1>11 DEF c

LEMMA StableMeans ==
  ASSUME NEW text \in Seq(Characters)
  PROVE  /\ Stable(text) \in Seq(Characters) /\ Len(Stable(text)) \in 0 .. Len(text)
         /\ \A i \in 1 .. Len(Stable(text)) : Stable(text)[i] = text[i]
         /\ Len(Stable(text)) = 0 \/ text[Len(Stable(text))] # Replacement
         /\ \A i \in 1 .. Len(text) :
              i > Len(Stable(text)) => text[i] = Replacement
  <1> DEFINE kept == {n \in 0 .. Len(text) : n = 0 \/ text[n] # Replacement}
  <1>1. Len(text) \in Nat
    BY LenProperties
  <1>2. kept \subseteq 0 .. Len(text) /\ kept # {}
    <2>1. 0 \in kept
      BY <1>1
    <2> QED BY <2>1
  <1>3. Max(kept) \in kept /\ \A y \in kept : y <= Max(kept)
    <2> HIDE DEF kept
    <2> QED BY <1>1, <1>2, MaxOfNaturals
  <1>4. PICK m \in kept : m = Max(kept) /\ \A y \in kept : y <= m
    BY <1>3
  <1>5. m \in 0 .. Len(text) /\ (m = 0 \/ text[m] # Replacement)
    OBVIOUS
  <1>6. Stable(text) = SubSeq(text, 1, m)
    BY <1>4 DEF Stable
  <1>7. ASSUME NEW i \in 1 .. Len(text), i > m PROVE text[i] = Replacement
    <2>1. i \notin kept
      <3>1. ~(i <= m)
        BY <1>1, <1>5, <1>7
      <3> QED BY <1>4, <3>1
    <2>2. i \in 0 .. Len(text)
      BY <1>1
    <2> QED BY <2>1, <2>2
  <1> HIDE DEF kept
  <1>8. /\ SubSeq(text, 1, m) \in Seq(Characters) /\ Len(SubSeq(text, 1, m)) = m
        /\ \A i \in 1 .. m : SubSeq(text, 1, m)[i] = text[i]
    BY <1>5, CutAt
  <1> QED BY <1>5, <1>6, <1>7, <1>8

(* What was stable is the beginning of what is stable later, and of the whole. *)
LEMMA StableGrows ==
  ASSUME NEW b \in Seq(Characters), NEW t \in Seq(Characters)
  PROVE  /\ Len(Stable(Decode(b))) <= Len(Stable(Decode(b \o t)))
         /\ \A i \in 1 .. Len(Stable(Decode(b))) :
              Stable(Decode(b \o t))[i] = Stable(Decode(b))[i]
  <1>1. PICK early \in Seq(Characters) : early = Decode(b)
    BY DecodeIsText
  <1>2. b \o t \in Seq(Characters)
    BY ConcatProperties
  <1>3. PICK late \in Seq(Characters) : late = Decode(b \o t)
    BY <1>2, DecodeIsText
  <1>4. /\ Len(early) <= Len(late)
        /\ \A i \in 1 .. Len(early) :
             late[i] = early[i] \/ (i = Len(early) /\ early[i] = Replacement)
    BY <1>1, <1>3, DecodingContinues
  <1>5. PICK m \in 0 .. Len(early) :
          /\ m = Len(Stable(early))
          /\ m = 0 \/ early[m] # Replacement
          /\ \A i \in 1 .. m : Stable(early)[i] = early[i]
    BY StableMeans
  <1>6. PICK n \in 0 .. Len(late) :
          /\ n = Len(Stable(late))
          /\ \A i \in 1 .. n : Stable(late)[i] = late[i]
          /\ \A i \in 1 .. Len(late) : i > n => late[i] = Replacement
    BY StableMeans
  <1>7. Len(early) \in Nat /\ Len(late) \in Nat /\ m \in Nat /\ n \in Nat
    BY LenProperties
  <1>8. ASSUME NEW i \in 1 .. m PROVE late[i] = early[i]
    <2>1. i \in 1 .. Len(early)
      BY <1>7
    <2>2. i = Len(early) => i = m
      BY <1>7
    <2> QED BY <1>4, <1>5, <2>1, <2>2
  <1>9. m <= n
    <2>1. SUFFICES ASSUME n < m PROVE FALSE
      BY <1>7
    <2>2. m \in 1 .. m /\ m \in 1 .. Len(late) /\ m > n /\ m # 0
      BY <1>4, <1>7, <2>1
    <2> QED BY <1>5, <1>6, <1>8, <2>2
  <1>10. ASSUME NEW i \in 1 .. m PROVE Stable(late)[i] = Stable(early)[i]
    <2>1. i \in 1 .. n
      BY <1>7, <1>9
    <2> QED BY <1>5, <1>6, <1>8, <2>1
  <1>11. Len(Stable(early)) = m /\ Len(Stable(late)) = n
    BY <1>5, <1>6
  <1>12. /\ Len(Stable(early)) <= Len(Stable(late))
         /\ \A i \in 1 .. Len(Stable(early)) : Stable(late)[i] = Stable(early)[i]
    BY <1>9, <1>10, <1>11
  <1> QED BY <1>1, <1>3, <1>12

-----------------------------------------------------------------------------
(* Stops in a text, for any set of stops.                                      *)

Offsets(choice, text) ==
  {n \in 0 .. Len(text) : \E s \in choice :
     /\ s # <<>> /\ n + Len(s) <= Len(text)
     /\ \A i \in 1 .. Len(s) : text[n + i] = s[i]}

Pending(choice, text) ==
  {n \in 0 .. Len(text) : n = 0 \/ \E s \in choice :
     /\ s # <<>> /\ n <= Len(s)
     /\ \A i \in 1 .. n : text[(Len(text) - n) + i] = s[i]}

LEMMA StopsByChoice ==
  ASSUME stops \subseteq Seq(STRING), NEW text \in Seq(Characters)
  PROVE  StopOffsets(text) = Offsets(stops, text) /\ Held(text) = Max(Pending(stops, text))
  <1>1. Len(text) \in Nat
    BY LenProperties
  <1>2. ASSUME NEW s \in stops
        PROVE  /\ DOMAIN s = 1 .. Len(s) /\ Len(s) \in Nat
               /\ \A n \in 0 .. Len(s) : /\ Len(SubSeq(s, 1, n)) = n /\ DOMAIN SubSeq(s, 1, n) = 1 .. n
                                         /\ \A i \in 1 .. n : SubSeq(s, 1, n)[i] = s[i]
    <2>1. s \in Seq(STRING)
      BY <1>2
    <2>2. ASSUME NEW n \in 0 .. Len(s)
          PROVE  /\ Len(SubSeq(s, 1, n)) = n /\ DOMAIN SubSeq(s, 1, n) = 1 .. n
                 /\ \A i \in 1 .. n : SubSeq(s, 1, n)[i] = s[i]
      <3>1. /\ SubSeq(s, 1, n) \in Seq(STRING) /\ Len(SubSeq(s, 1, n)) = n
            /\ \A i \in 1 .. n : SubSeq(s, 1, n)[i] = s[i]
        BY <2>1, CutAt
      <3> QED BY <3>1, LenProperties
    <2> QED BY <2>1, <2>2, LenProperties
  <1>3. ASSUME NEW s \in stops, NEW n \in 0 .. Len(text)
        PROVE  OccursAt(s, text, n)
               <=> n + Len(s) <= Len(text) /\ \A i \in 1 .. Len(s) : text[n + i] = s[i]
    BY <1>2 DEF OccursAt
  <1>4. ASSUME NEW s \in stops, NEW n \in 0 .. Len(text), n <= Len(s)
        PROVE  OccursAt(SubSeq(s, 1, n), text, Len(text) - n)
               <=> \A i \in 1 .. n : text[(Len(text) - n) + i] = s[i]
    <2>1. n \in 0 .. Len(s) /\ (Len(text) - n) + n <= Len(text)
      BY <1>1, <1>2, <1>4
    <2> QED BY <1>2, <2>1 DEF OccursAt
  <1>5. StopOffsets(text) = Offsets(stops, text)
    BY <1>3 DEF StopOffsets, Offsets, NonEmptyStops
  <1>6. Held(text) = Max(Pending(stops, text))
    <2>1. ASSUME NEW n \in 0 .. Len(text)
          PROVE  (\E s \in NonEmptyStops : n <= Len(s) /\ OccursAt(SubSeq(s, 1, n), text, Len(text) - n))
                 <=> \E s \in stops : /\ s # <<>> /\ n <= Len(s)
                                      /\ \A i \in 1 .. n : text[(Len(text) - n) + i] = s[i]
      BY <1>4 DEF NonEmptyStops
    <2> DEFINE tails == {n \in 0 .. Len(text) : n = 0
                   \/ \E s \in NonEmptyStops : n <= Len(s) /\ OccursAt(SubSeq(s, 1, n), text, Len(text) - n)}
    <2>2. tails = Pending(stops, text)
      BY <2>1 DEF Pending
    <2> QED BY <2>2 DEF Held
  <1> QED BY <1>5, <1>6

LEMMA PendingIsBounded ==
  ASSUME NEW choice, NEW text \in Seq(Characters)
  PROVE  /\ Max(Pending(choice, text)) \in Pending(choice, text)
         /\ Max(Pending(choice, text)) \in 0 .. Len(text)
         /\ \A n \in Pending(choice, text) : n <= Max(Pending(choice, text))
  <1>1. Len(text) \in Nat
    BY LenProperties
  <1>2. Pending(choice, text) \subseteq 0 .. Len(text) /\ 0 \in Pending(choice, text)
    BY <1>1 DEF Pending
  <1> QED BY <1>1, <1>2, MaxOfNaturals

(* Nothing that was exposed is taken back: a stop, or the beginning of one,    *)
(* that starts in the exposed part of a longer text would have been pending    *)
(* when that part was exposed.                                                 *)
LEMMA ExposedForGood ==
  ASSUME NEW choice, choice \subseteq Seq(STRING),
         NEW early \in Seq(Characters), NEW late \in Seq(Characters),
         Len(early) <= Len(late), \A i \in 1 .. Len(early) : late[i] = early[i],
         Offsets(choice, early) = {}
  PROVE  /\ \A n \in Offsets(choice, late) : Len(early) - Max(Pending(choice, early)) <= n
         /\ Len(early) - Max(Pending(choice, early)) <= Len(late) - Max(Pending(choice, late))
  <1>1. PICK held : held = Max(Pending(choice, early))
    OBVIOUS
  <1>2. PICK later : later = Max(Pending(choice, late))
    OBVIOUS
  <1>3. held \in 0 .. Len(early) /\ \A n \in Pending(choice, early) : n <= held
    BY <1>1, PendingIsBounded
  <1>4. later \in 0 .. Len(late) /\ later \in Pending(choice, late)
    BY <1>2, PendingIsBounded
  <1>5. PICK a \in Nat, b \in Nat : a = Len(early) /\ b = Len(late)
    BY LenProperties
  <1>6. a <= b /\ \A i \in 1 .. a : late[i] = early[i]
    BY <1>5
  <1>7. held \in 0 .. a /\ later \in 0 .. b
    BY <1>3, <1>4, <1>5
  (* A beginning of a stop that starts early in the longer text was pending. *)
  <1>8. ASSUME NEW k \in Nat, k < a - held, NEW s \in choice, s # <<>>,
               NEW size \in Nat, size <= Len(s), a - k <= size,
               \A i \in 1 .. size : k + i <= b => late[k + i] = s[i]
        PROVE  FALSE
    <2>1. a - k \in 0 .. a /\ a - k > held /\ a - k <= Len(s) /\ a - (a - k) = k
      <3>1. s \in Seq(STRING)
        BY <1>8
      <3>2. Len(s) \in Nat
        BY <3>1, LenProperties
      <3> QED BY <1>7, <1>8, <3>2
    <2>2. ASSUME NEW i \in 1 .. a - k PROVE early[(a - (a - k)) + i] = s[i]
      <3>1. i \in 1 .. size /\ k + i \in 1 .. a /\ k + i <= b
        BY <1>6, <1>8, <2>1
      <3> QED BY <1>6, <1>8, <2>1, <3>1
    <2>3. a - k \in Pending(choice, early)
      <3>1. a - k \in 0 .. Len(early)
        BY <1>5, <2>1
      <3> QED BY <1>5, <1>8, <2>1, <2>2, <3>1 DEF Pending
    <2>4. a - k <= held
      BY <1>3, <2>3
    <2> QED BY <1>7, <2>1, <2>4
  <1>9. ASSUME NEW n \in Offsets(choice, late) PROVE a - held <= n
    <2>1. n \in 0 .. b
      BY <1>5 DEF Offsets
    <2>2. PICK s \in choice : /\ s # <<>> /\ n + Len(s) <= b
                              /\ \A i \in 1 .. Len(s) : late[n + i] = s[i]
      BY <1>5 DEF Offsets
    <2>3. s \in Seq(STRING)
      OBVIOUS
    <2>4. Len(s) \in Nat
      BY <2>3, LenProperties
    <2> SUFFICES ASSUME n < a - held PROVE FALSE
      BY <1>7, <2>1
    <2>5. a - n <= Len(s)
      <3>1. SUFFICES ASSUME n + Len(s) <= a PROVE FALSE
        BY <1>7, <2>1, <2>4
      <3>2. \A i \in 1 .. Len(s) : early[n + i] = s[i]
        <4>1. \A i \in 1 .. Len(s) : n + i \in 1 .. a
          BY <2>1, <2>4, <3>1
        <4> QED BY <1>6, <2>2, <4>1
      <3>3. n \in 0 .. Len(early) /\ n + Len(s) <= Len(early)
        BY <1>5, <1>7, <2>1, <2>4, <3>1
      <3>4. n \in Offsets(choice, early)
        BY <2>2, <3>2, <3>3 DEF Offsets
      <3> QED BY <3>4
    <2>6. Len(s) <= Len(s) /\ n \in Nat
      BY <2>1, <2>4
    <2> QED BY <1>8, <2>2, <2>4, <2>5, <2>6
  <1>10. a - held <= b - later
    <2> SUFFICES ASSUME b - later < a - held PROVE FALSE
      BY <1>7
    <2>1. later # 0
      BY <1>6, <1>7
    <2>2. PICK s \in choice : /\ s # <<>> /\ later <= Len(s)
                              /\ \A i \in 1 .. later : late[(b - later) + i] = s[i]
      BY <1>4, <1>5, <2>1 DEF Pending
    <2>3. b - later \in Nat /\ later \in Nat /\ a - (b - later) <= later
      BY <1>6, <1>7
    <2> QED BY <1>8, <2>2, <2>3
  <1> QED BY <1>1, <1>2, <1>5, <1>9, <1>10

-----------------------------------------------------------------------------
(* The filter.  What it has exposed depends on the bytes and the stops alone.  *)

Exposed(choice, b, given, how) ==
  \E text \in {Stable(Decode(b))} :
    /\ how \in {"open", "failed"} =>
         /\ Offsets(choice, text) = {}
         /\ given = SubSeq(text, 1, Len(text) - Max(Pending(choice, text)))
    /\ how = "stop" =>
         /\ Offsets(choice, text) # {}
         /\ given = SubSeq(text, 1, Min(Offsets(choice, text)))
    /\ how = "finished" => Offsets(choice, text) = {} /\ given = Decode(b)

FilterTypes ==
  /\ stops \in StopChoices
  /\ bytes \in Seq(Characters)
  /\ received \in 0 .. MaxTokens
  /\ emitted \in Seq(Characters)
  /\ status \in {"open", "stop", "finished", "failed"}

FilterInv == FilterTypes /\ Exposed(stops, bytes, emitted, status)

LEMMA ChosenStops ==
  ASSUME NEW choice \in StopChoices
  PROVE  choice \subseteq Seq(STRING)
  BY TextOutputFilterAssumption

LEMMA StartsExposed ==
  ASSUME Init
  PROVE  FilterInv
  <1>1. <<>> \in Seq(Characters) /\ Len(<<>>) = 0 /\ 0 .. 0 = {0}
    BY EmptySeq
  <1>2. Decode(<<>>) = <<>>
    BY <1>1, DecodedByByte DEF Decode
  <1>3. Stable(<<>>) \in Seq(Characters) /\ Len(Stable(<<>>)) = 0
    <2>1. Stable(<<>>) \in Seq(Characters) /\ Len(Stable(<<>>)) \in 0 .. Len(<<>>)
      BY <1>1, StableMeans
    <2> QED BY <1>1, <2>1
  <1>4. PICK text \in Seq(Characters) : text = Stable(<<>>) /\ Len(text) = 0
    BY <1>3
  <1>5. Offsets(stops, text) = {}
    <2> SUFFICES ASSUME NEW n \in 0 .. 0, NEW s \in stops, s # <<>>, n + Len(s) <= 0 PROVE FALSE
      BY <1>4 DEF Offsets
    <2>1. s \in Seq(STRING)
      BY ChosenStops DEF Init
    <2>2. Len(s) \in Nat \ {0}
      BY <2>1, EmptySeq
    <2> QED BY <2>2
  <1>6. Max(Pending(stops, text)) = 0
    <2>1. Max(Pending(stops, text)) \in 0 .. 0
      BY <1>4, PendingIsBounded
    <2> QED BY <2>1
  <1>7. SubSeq(text, 1, Len(text) - Max(Pending(stops, text))) = <<>>
    <2>1. Len(text) - Max(Pending(stops, text)) = 0
      BY <1>4, <1>6
    <2>2. SubSeq(text, 1, 0) = <<>>
      BY SubSeqEmpty
    <2> QED BY <2>1, <2>2
  <1>8. Exposed(stops, <<>>, <<>>, "open")
    <2>1. text = Stable(Decode(<<>>))
      BY <1>2, <1>4
    <2> QED BY <1>5, <1>7, <2>1 DEF Exposed
  <1>9. 0 \in 0 .. MaxTokens
    BY TextOutputFilterAssumption
  <1> QED BY <1>1, <1>8, <1>9 DEF Init, FilterInv, FilterTypes

(* While the response goes on, what was exposed is the stable text without the *)
(* tail that is held; both are beginnings of the decoded text.                 *)
LEMMA OpenExposed ==
  ASSUME FilterInv, status \in {"open", "failed"}
  PROVE  \E text \in Seq(Characters), held \in Nat :
           /\ held <= Len(text)
           /\ text = Stable(Decode(bytes))
           /\ Offsets(stops, text) = {}
           /\ held = Max(Pending(stops, text))
           /\ emitted = SubSeq(text, 1, Len(text) - held)
           /\ Len(emitted) = Len(text) - held
           /\ \A i \in 1 .. Len(emitted) : emitted[i] = text[i]
  <1>1. Decode(bytes) \in Seq(Characters)
    BY DecodeIsText DEF FilterInv, FilterTypes
  <1>2. PICK text \in Seq(Characters) : text = Stable(Decode(bytes))
    BY <1>1, StableMeans
  <1>3. /\ Offsets(stops, text) = {}
        /\ emitted = SubSeq(text, 1, Len(text) - Max(Pending(stops, text)))
    BY <1>2 DEF FilterInv, Exposed
  <1>4. PICK held \in 0 .. Len(text) : held = Max(Pending(stops, text))
    BY PendingIsBounded
  <1>5. Len(text) - held \in 0 .. Len(text)
    BY LenProperties
  <1>6. /\ Len(SubSeq(text, 1, Len(text) - held)) = Len(text) - held
        /\ \A i \in 1 .. Len(text) - held : SubSeq(text, 1, Len(text) - held)[i] = text[i]
    BY <1>5, CutAt
  <1>7. held \in Nat /\ held <= Len(text)
    BY LenProperties
  <1> QED BY <1>2, <1>3, <1>4, <1>6, <1>7

LEMMA PushExposes ==
  ASSUME FilterInv, NEW token \in Tokens, PushToken(token)
  PROVE  /\ FilterInv' /\ IsPrefix(emitted, emitted')
         /\ received' = received + 1 /\ status' \in {"open", "stop"}
  <1>1. /\ status = "open" /\ received < MaxTokens
        /\ bytes' = bytes \o token /\ received' = received + 1 /\ stops' = stops
        /\ PushText(Stable(Decode(bytes \o token)))
    BY DEF PushToken
  <1>2. /\ stops \in StopChoices /\ stops \subseteq Seq(STRING) /\ bytes \in Seq(Characters)
        /\ received \in 0 .. MaxTokens /\ emitted \in Seq(Characters)
    BY ChosenStops DEF FilterInv, FilterTypes
  <1>3. token \in Seq(Characters)
    <2>1. token \in Seq(STRING) /\ STRING \subseteq Characters
      BY TextOutputFilterAssumption DEF Characters
    <2> QED BY <2>1, SeqMonotonic
  <1>4. PICK early \in Seq(Characters), held \in Nat :
          /\ held <= Len(early)
          /\ early = Stable(Decode(bytes))
          /\ Offsets(stops, early) = {}
          /\ held = Max(Pending(stops, early))
          /\ emitted = SubSeq(early, 1, Len(early) - held)
          /\ Len(emitted) = Len(early) - held
          /\ \A i \in 1 .. Len(emitted) : emitted[i] = early[i]
    BY <1>1, OpenExposed
  <1>5. bytes \o token \in Seq(Characters)
    BY <1>2, <1>3, ConcatProperties
  <1>6. PICK late \in Seq(Characters) : late = Stable(Decode(bytes \o token))
    <2>1. Decode(bytes \o token) \in Seq(Characters)
      BY <1>5, DecodeIsText
    <2> QED BY <2>1, StableMeans
  <1>7. Len(early) <= Len(late) /\ \A i \in 1 .. Len(early) : late[i] = early[i]
    <2>1. /\ Len(Stable(Decode(bytes))) <= Len(Stable(Decode(bytes \o token)))
          /\ \A i \in 1 .. Len(Stable(Decode(bytes))) :
               Stable(Decode(bytes \o token))[i] = Stable(Decode(bytes))[i]
      BY <1>2, <1>3, StableGrows
    <2> QED BY <1>4, <1>6, <2>1
  <1>8. StopOffsets(late) = Offsets(stops, late) /\ Held(late) = Max(Pending(stops, late))
    BY <1>2, StopsByChoice
  <1>9. PICK later \in 0 .. Len(late) : later = Max(Pending(stops, late))
    BY PendingIsBounded
  <1>10. PICK a \in Nat, b \in Nat : a = Len(early) /\ b = Len(late)
    BY LenProperties
  <1>11. /\ \A n \in Offsets(stops, late) : a - held <= n
         /\ a - held <= b - later
    BY <1>2, <1>4, <1>7, <1>9, <1>10, ExposedForGood
  <1>12. Len(emitted) = a - held /\ held \in 0 .. a /\ a <= b /\ later \in 0 .. b
    BY <1>4, <1>7, <1>9, <1>10
  <1>13. ASSUME NEW n \in 0 .. Len(late), Len(emitted) <= n
         PROVE  SubSeq(late, 1, n) \in Seq(Characters) /\ IsPrefix(emitted, SubSeq(late, 1, n))
    <2>1. /\ SubSeq(late, 1, n) \in Seq(Characters) /\ Len(SubSeq(late, 1, n)) = n
          /\ \A i \in 1 .. n : SubSeq(late, 1, n)[i] = late[i]
      BY CutAt
    <2>2. \A i \in 1 .. Len(emitted) : i \in 1 .. n /\ i \in 1 .. Len(early)
      BY <1>10, <1>12, <1>13
    <2>3. \A i \in 1 .. Len(emitted) : emitted[i] = SubSeq(late, 1, n)[i]
      BY <1>4, <1>7, <2>1, <2>2
    <2> QED BY <1>2, <1>13, <2>1, <2>3, PrefixMeans
  <1>14. IsPrefix(emitted, late)
    <2>1. \A i \in 1 .. Len(emitted) : i \in 1 .. Len(early)
      BY <1>10, <1>12
    <2>2. Len(emitted) <= Len(late)
      BY <1>10, <1>12
    <2>3. \A i \in 1 .. Len(emitted) : emitted[i] = late[i]
      BY <1>4, <1>7, <2>1
    <2> QED BY <1>2, <2>2, <2>3, PrefixMeans
  <1>15. PushText(late)
    BY <1>1, <1>6
  <1>16. received' \in 0 .. MaxTokens
    BY <1>1, <1>2, TextOutputFilterAssumption
  <1>17. CASE StopOffsets(late) # {}
    <2>1. PICK n \in Offsets(stops, late) : n = Min(Offsets(stops, late))
      <3>1. Offsets(stops, late) \subseteq Nat
        BY <1>10 DEF Offsets
      <3> QED BY <1>8, <1>17, <3>1, MinOfNaturals
    <2>2. n \in 0 .. Len(late) /\ Len(emitted) <= n /\ ~(n < Len(emitted))
      <3>1. n \in 0 .. Len(late)
        BY DEF Offsets
      <3> QED BY <1>10, <1>11, <1>12, <3>1
    <2>3. StopAt(late) = n
      BY <1>8, <2>1 DEF StopAt
    <2>4. emitted' = SubSeq(late, 1, n) /\ status' = "stop"
      BY <1>14, <1>15, <1>17, <2>2, <2>3 DEF PushText, Expose
    <2>5. emitted' \in Seq(Characters) /\ IsPrefix(emitted, emitted')
      BY <1>13, <2>2, <2>4
    <2>6. Exposed(stops', bytes', emitted', status')
      BY <1>1, <1>6, <1>8, <1>17, <2>1, <2>4 DEF Exposed
    <2>7. FilterTypes'
      BY <1>1, <1>2, <1>5, <1>16, <2>4, <2>5 DEF FilterTypes
    <2> QED BY <1>1, <2>4, <2>5, <2>6, <2>7 DEF FilterInv
  <1>18. CASE StopOffsets(late) = {}
    <2>1. /\ Len(late) - later \in 0 .. Len(late) /\ Len(emitted) <= Len(late) - later
          /\ ~(Len(late) - later < Len(emitted))
      BY <1>10, <1>11, <1>12
    <2>2. Held(late) = later
      BY <1>8, <1>9
    <2>3. emitted' = SubSeq(late, 1, Len(late) - later) /\ status' = "open"
      BY <1>1, <1>14, <1>15, <1>18, <2>1, <2>2 DEF PushText, Expose
    <2>4. emitted' \in Seq(Characters) /\ IsPrefix(emitted, emitted')
      BY <1>13, <2>1, <2>3
    <2>5. Exposed(stops', bytes', emitted', status')
      BY <1>1, <1>6, <1>8, <1>9, <1>18, <2>3 DEF Exposed
    <2>6. FilterTypes'
      BY <1>1, <1>2, <1>5, <1>16, <2>3, <2>4 DEF FilterTypes
    <2> QED BY <1>1, <2>3, <2>4, <2>5, <2>6 DEF FilterInv
  <1> QED BY <1>17, <1>18

LEMMA FinishExposes ==
  ASSUME FilterInv, Finish
  PROVE  /\ FilterInv' /\ IsPrefix(emitted, emitted')
         /\ received' = received /\ status' = "finished"
  <1>1. /\ status = "open" /\ bytes' = bytes /\ received' = received /\ stops' = stops
        /\ FinishText(Decode(bytes))
    BY DEF Finish
  <1>2. bytes \in Seq(Characters) /\ emitted \in Seq(Characters)
    BY DEF FilterInv, FilterTypes
  <1>3. PICK whole \in Seq(Characters) : whole = Decode(bytes)
    BY <1>2, DecodeIsText
  <1>4. PICK text \in Seq(Characters), held \in Nat :
          /\ held <= Len(text)
          /\ text = Stable(Decode(bytes))
          /\ Offsets(stops, text) = {}
          /\ Len(emitted) = Len(text) - held
          /\ \A i \in 1 .. Len(emitted) : emitted[i] = text[i]
    BY <1>1, OpenExposed
  <1>5. Len(text) \in 0 .. Len(whole) /\ \A i \in 1 .. Len(text) : text[i] = whole[i]
    BY <1>3, <1>4, StableMeans
  <1>6. Len(text) \in Nat /\ Len(whole) \in Nat
    BY LenProperties
  <1>7. IsPrefix(emitted, whole)
    <2>1. \A i \in 1 .. Len(emitted) : i \in 1 .. Len(text)
      BY <1>4, <1>6
    <2>2. Len(emitted) <= Len(whole)
      BY <1>4, <1>5, <1>6
    <2> QED BY <1>2, <1>4, <1>5, <2>1, <2>2, PrefixMeans
  <1>8. status' = "finished" /\ emitted' = whole
    BY <1>1, <1>3, <1>7 DEF FinishText
  <1>9. Exposed(stops', bytes', emitted', status')
    BY <1>1, <1>3, <1>4, <1>8 DEF Exposed
  <1>10. FilterTypes'
    BY <1>1, <1>8 DEF FilterInv, FilterTypes
  <1> QED BY <1>1, <1>7, <1>8, <1>9, <1>10 DEF FilterInv

LEMMA ExposedMeans ==
  ASSUME FilterInv
  PROVE  HeldForAReason
  <1> SUFFICES ASSUME status = "open" PROVE HeldForAReason
    BY DEF HeldForAReason
  <1>1. PICK text \in Seq(Characters), size \in Nat :
          /\ size <= Len(text)
          /\ text = Stable(Decode(bytes))
          /\ Offsets(stops, text) = {}
          /\ size = Max(Pending(stops, text))
          /\ Len(emitted) = Len(text) - size
    BY OpenExposed
  <1> DEFINE held == SubSeq(text, Len(emitted) + 1, Len(text))
  <1>2. PICK b \in Nat : b = Len(text)
    BY LenProperties
  <1>3. SUFFICES held = <<>> \/ \E s \in NonEmptyStops : IsPrefix(held, s) /\ held # s
    BY <1>1 DEF HeldForAReason, Text
  <1>4. CASE size = 0
    <2>1. Len(emitted) + 1 \in Int /\ Len(text) \in Int /\ Len(text) < Len(emitted) + 1
      BY <1>1, <1>2, <1>4
    <2>2. held = <<>>
      <3> HIDE <1>3
      <3> QED BY <2>1, SubSeqEmpty
    <2> HIDE DEF held
    <2> QED BY <2>2
  <1>5. CASE size # 0
    <2>1. size \in Pending(stops, text)
      BY <1>1, PendingIsBounded
    <2>2. PICK s \in stops : /\ s # <<>> /\ size <= Len(s)
                             /\ \A i \in 1 .. size : text[(b - size) + i] = s[i]
      BY <1>2, <1>5, <2>1 DEF Pending
    <2>3. s \in Seq(STRING) /\ s \in Seq(Characters)
      <3>1. s \in Seq(STRING)
        BY ChosenStops DEF FilterInv, FilterTypes
      <3>2. STRING \subseteq Characters
        BY DEF Characters
      <3> QED BY <3>1, <3>2, SeqMonotonic
    <2>4. b - size \in 0 .. Len(text) /\ Len(emitted) = b - size /\ Len(text) - (b - size) = size
      BY <1>1, <1>2
    <2>5. /\ held \in Seq(Characters) /\ Len(held) = size
          /\ \A i \in 1 .. size : held[i] = text[(b - size) + i]
      <3>1. held = SubSeq(text, (b - size) + 1, Len(text))
        BY <2>4
      <3> HIDE DEF held
      <3> QED BY <2>4, <3>1, CutAt
    <2> HIDE DEF held
    <2>6. IsPrefix(held, s)
      <3>1. \A i \in 1 .. Len(held) : held[i] = s[i]
        BY <2>2, <2>5
      <3>2. Len(held) <= Len(s)
        BY <2>2, <2>5
      <3> QED BY <2>3, <2>5, <3>1, <3>2, PrefixMeans
    <2>7. held # s
      <3> SUFFICES ASSUME held = s PROVE FALSE
        OBVIOUS
      <3>1. Len(s) = size /\ (b - size) + Len(s) <= Len(text)
        BY <1>1, <1>2, <2>5
      <3>2. b - size \in Offsets(stops, text)
        BY <2>2, <2>4, <3>1 DEF Offsets
      <3> QED BY <1>1, <3>2
    <2>8. s \in NonEmptyStops
      BY <2>2 DEF NonEmptyStops
    <2> QED BY <2>6, <2>7, <2>8
  <1> QED BY <1>4, <1>5

(* A stop that ends in a character is in the text when it is in the stable     *)
(* text: it cannot end in the remains that were set aside.                     *)
EndInCharacters(choice) == \A s \in choice : s # <<>> => s[Len(s)] # Replacement

LEMMA StableHasTheStops ==
  ASSUME NEW choice, choice \subseteq Seq(STRING), EndInCharacters(choice),
         NEW text \in Seq(Characters)
  PROVE  Offsets(choice, text) = Offsets(choice, Stable(text))
  <1>1. PICK m \in 0 .. Len(text) :
          /\ m = Len(Stable(text))
          /\ \A i \in 1 .. m : Stable(text)[i] = text[i]
          /\ \A i \in 1 .. Len(text) : i > m => text[i] = Replacement
    BY StableMeans
  <1>2. PICK b \in Nat : b = Len(text)
    BY LenProperties
  <1>3. ASSUME NEW n \in Nat, NEW s \in choice, s # <<>>
        PROVE  (n + Len(s) <= b /\ \A i \in 1 .. Len(s) : text[n + i] = s[i])
               <=> (n + Len(s) <= m /\ \A i \in 1 .. Len(s) : Stable(text)[n + i] = s[i])
    <2>1. s \in Seq(STRING)
      OBVIOUS
    <2>2. Len(s) \in Nat \ {0} /\ m \in Nat /\ m <= b
      BY <1>2, <1>3, <2>1, EmptySeq
    <2>3. s[Len(s)] # Replacement
      BY <1>3 DEF EndInCharacters
    <2>4. ASSUME n + Len(s) <= m
          PROVE  \A i \in 1 .. Len(s) : Stable(text)[n + i] = text[n + i]
      <3>1. \A i \in 1 .. Len(s) : n + i \in 1 .. m
        BY <2>2, <2>4
      <3> QED BY <1>1, <3>1
    <2>5. ASSUME n + Len(s) <= b, text[n + Len(s)] = s[Len(s)]
          PROVE  n + Len(s) <= m
      <3>1. n + Len(s) \in 1 .. Len(text)
        BY <1>2, <2>2, <2>5
      <3>2. ~(n + Len(s) > m)
        BY <1>1, <2>3, <2>5, <3>1
      <3> QED BY <2>2, <3>2
    <2>6. Len(s) \in 1 .. Len(s)
      BY <2>2
    <2>7. n + Len(s) <= m => n + Len(s) <= b
      BY <2>2
    <2> QED BY <2>4, <2>5, <2>6, <2>7
  <1>4. \A n \in Offsets(choice, text) : n \in Nat
    BY <1>2 DEF Offsets
  <1>5. ASSUME NEW n \in Nat, NEW s \in choice, s # <<>>, n + Len(s) <= m
        PROVE  n \in 0 .. m /\ n \in 0 .. b
    <2>1. s \in Seq(STRING)
      OBVIOUS
    <2>2. Len(s) \in Nat /\ m \in Nat /\ m <= b
      BY <1>2, <2>1, LenProperties
    <2> QED BY <1>5, <2>2
  <1>6. ASSUME NEW n \in Offsets(choice, text) PROVE n \in Offsets(choice, Stable(text))
    <2>1. PICK s \in choice : /\ s # <<>> /\ n + Len(s) <= b
                              /\ \A i \in 1 .. Len(s) : text[n + i] = s[i]
      BY <1>2 DEF Offsets
    <2>2. n \in Nat /\ n + Len(s) <= m /\ \A i \in 1 .. Len(s) : Stable(text)[n + i] = s[i]
      BY <1>3, <1>4, <2>1
    <2>3. n \in 0 .. m
      BY <1>5, <2>1, <2>2
    <2> QED BY <1>1, <2>1, <2>2, <2>3 DEF Offsets
  <1>7. ASSUME NEW n \in Offsets(choice, Stable(text)) PROVE n \in Offsets(choice, text)
    <2>1. PICK s \in choice : /\ s # <<>> /\ n + Len(s) <= m
                              /\ \A i \in 1 .. Len(s) : Stable(text)[n + i] = s[i]
      BY <1>1 DEF Offsets
    <2>2. n \in Nat
      BY <1>1 DEF Offsets
    <2>3. n + Len(s) <= b /\ \A i \in 1 .. Len(s) : text[n + i] = s[i]
      BY <1>3, <2>1, <2>2
    <2>4. n \in 0 .. b
      BY <1>5, <2>1, <2>2
    <2> QED BY <1>2, <2>1, <2>3, <2>4 DEF Offsets
  <1> QED BY <1>6, <1>7

(* Then what is exposed is a beginning of the text up to its first stop, and   *)
(* all of it in the end.                                                       *)
LEMMA ExposedIsCut ==
  ASSUME FilterInv, EndInCharacters(stops)
  PROVE  /\ Cut(Text) \in Seq(Characters) /\ IsPrefix(emitted, Cut(Text))
         /\ status \in {"stop", "finished"} => emitted = Cut(Text)
  <1>1. stops \subseteq Seq(STRING) /\ bytes \in Seq(Characters) /\ emitted \in Seq(Characters)
    BY ChosenStops DEF FilterInv, FilterTypes
  <1>2. PICK whole \in Seq(Characters) : whole = Text
    BY <1>1, DecodeIsText DEF Text
  <1>3. PICK text \in Seq(Characters) : text = Stable(whole)
    BY StableMeans
  <1>4. StopOffsets(whole) = Offsets(stops, text)
    BY <1>1, <1>3, StopsByChoice, StableHasTheStops
  <1>5. Exposed(stops, bytes, emitted, status) /\ text = Stable(Decode(bytes)) /\ whole = Decode(bytes)
    BY <1>2, <1>3 DEF FilterInv, Text
  <1>6. /\ Len(text) \in 0 .. Len(whole) /\ \A i \in 1 .. Len(text) : text[i] = whole[i]
        /\ Len(text) \in Nat /\ Len(whole) \in Nat
    <2>1. Len(text) \in 0 .. Len(whole) /\ \A i \in 1 .. Len(text) : text[i] = whole[i]
      BY <1>3, StableMeans
    <2> QED BY <2>1, LenProperties
  <1>7. \A s \in Seq(Characters) : IsPrefix(s, s)
    BY PrefixMeans, LenProperties
  <1>8. CASE status \in {"open", "failed"}
    <2>1. PICK open \in Seq(Characters), size \in Nat :
            /\ size <= Len(open)
            /\ open = Stable(Decode(bytes))
            /\ Offsets(stops, open) = {}
            /\ Len(emitted) = Len(open) - size
            /\ \A i \in 1 .. Len(emitted) : emitted[i] = open[i]
      BY <1>8, OpenExposed
    <2>2. open = text
      BY <1>5, <2>1
    <2>3. Cut(whole) = whole
      BY <1>4, <2>1, <2>2 DEF Cut
    <2>4. \A i \in 1 .. Len(emitted) : i \in 1 .. Len(text)
      BY <1>6, <2>1, <2>2
    <2>5. Len(emitted) <= Len(whole)
      BY <1>6, <2>1, <2>2
    <2>6. \A i \in 1 .. Len(emitted) : emitted[i] = whole[i]
      BY <1>6, <2>1, <2>2, <2>4
    <2>7. IsPrefix(emitted, whole)
      BY <1>1, <2>5, <2>6, PrefixMeans
    <2> QED BY <1>2, <1>8, <2>3, <2>7
  <1>9. CASE status = "stop"
    <2>1. Offsets(stops, text) # {} /\ emitted = SubSeq(text, 1, Min(Offsets(stops, text)))
      BY <1>5, <1>9 DEF Exposed
    <2>2. PICK n \in 0 .. Len(text) : n = Min(Offsets(stops, text))
      <3>1. Offsets(stops, text) \subseteq 0 .. Len(text) /\ 0 .. Len(text) \subseteq Nat
        BY <1>6 DEF Offsets
      <3> QED BY <2>1, <3>1, MinOfNaturals
    <2>3. /\ SubSeq(text, 1, n) \in Seq(Characters) /\ Len(SubSeq(text, 1, n)) = n
          /\ \A i \in 1 .. n : SubSeq(text, 1, n)[i] = text[i]
      BY CutAt
    <2>4. n \in 0 .. Len(whole)
      BY <1>6
    <2>5. /\ SubSeq(whole, 1, n) \in Seq(Characters) /\ Len(SubSeq(whole, 1, n)) = n
          /\ \A i \in 1 .. n : SubSeq(whole, 1, n)[i] = whole[i]
      BY <2>4, CutAt
    <2>6. \A i \in 1 .. n : i \in 1 .. Len(text)
      BY <1>6
    <2>7. SubSeq(text, 1, n) = SubSeq(whole, 1, n)
      <3>1. \A i \in 1 .. n : SubSeq(text, 1, n)[i] = SubSeq(whole, 1, n)[i]
        BY <1>6, <2>3, <2>5, <2>6
      <3> QED BY <2>3, <2>5, <3>1, SeqEqual
    <2>8. Cut(whole) = emitted
      BY <1>4, <2>1, <2>2, <2>7 DEF Cut
    <2> QED BY <1>1, <1>2, <1>7, <2>8
  <1>10. CASE status = "finished"
    <2>1. Offsets(stops, text) = {} /\ emitted = whole
      BY <1>5, <1>10 DEF Exposed
    <2>2. Cut(whole) = emitted
      BY <1>4, <2>1 DEF Cut
    <2> QED BY <1>1, <1>2, <1>7, <2>2
  <1> QED BY <1>8, <1>9, <1>10 DEF FilterInv, FilterTypes

-----------------------------------------------------------------------------
(* What lines say.                                                             *)

DataSymbols ==
  {ErrorData, DoneData} \cup {TokenData(text) : text \in Seq(Characters)}
  \cup {FinalData(text, reason) : text \in Seq(Characters), reason \in {"stop", "length"}}

Symbols == DataSymbols \cup {LF, Comment, ErrorEvent}

(* Text and count of one symbol.                                               *)
Adds(symbol) == IF IsData(symbol) THEN TextOf(symbol) ELSE <<>>

One(symbol) == IF IsData(symbol) /\ Counts(symbol) THEN 1 ELSE 0

LEMMA NoData ==
  /\ ~IsData(LF) /\ ~IsData(CR) /\ ~IsData(Comment) /\ ~IsData(ErrorEvent)
  BY DEF IsData, LF, CR, Comment, ErrorEvent

LEMMA IsTokenData ==
  ASSUME NEW text
  PROVE  /\ IsData(TokenData(text)) /\ Adds(TokenData(text)) = text /\ One(TokenData(text)) = 1
         /\ TokenData(text) # DoneData /\ TokenData(text) # ErrorData
  <1>1. IsData(TokenData(text))
    BY DEF IsData, TokenData
  <1>2. TokenData(text).data = "text" /\ TokenData(text).text = text
    BY DEF TokenData
  <1>3. DoneData.data = "[DONE]" /\ ErrorData.data = "error"
    BY DEF DoneData, ErrorData
  <1> QED BY <1>1, <1>2, <1>3 DEF Adds, One, TextOf, Counts

LEMMA IsFinalData ==
  ASSUME NEW text, NEW reason
  PROVE  /\ IsData(FinalData(text, reason)) /\ Adds(FinalData(text, reason)) = text
         /\ One(FinalData(text, reason)) = 0
         /\ FinalData(text, reason) # DoneData /\ FinalData(text, reason) # ErrorData
  <1>1. IsData(FinalData(text, reason))
    BY DEF IsData, FinalData
  <1>2. FinalData(text, reason).data = "final" /\ FinalData(text, reason).text = text
    BY DEF FinalData
  <1>3. DoneData.data = "[DONE]" /\ ErrorData.data = "error"
    BY DEF DoneData, ErrorData
  <1> QED BY <1>1, <1>2, <1>3 DEF Adds, One, TextOf, Counts

LEMMA IsLastData ==
  /\ IsData(ErrorData) /\ Adds(ErrorData) = <<>> /\ One(ErrorData) = 0
  /\ IsData(DoneData) /\ Adds(DoneData) = <<>> /\ One(DoneData) = 0
  /\ DoneData # ErrorData
  <1>1. IsData(ErrorData) /\ IsData(DoneData)
    BY DEF IsData, ErrorData, DoneData
  <1>2. DoneData.data = "[DONE]" /\ ErrorData.data = "error"
    BY DEF DoneData, ErrorData
  <1> QED BY <1>1, <1>2 DEF Adds, One, TextOf, Counts

LEMMA SymbolSays ==
  ASSUME NEW symbol \in Symbols
  PROVE  Adds(symbol) \in Seq(Characters) /\ One(symbol) \in Nat
  <1>1. One(symbol) \in Nat
    BY DEF One
  <1>2. <<>> \in Seq(Characters)
    BY EmptySeq
  <1>3. CASE symbol \in {LF, Comment, ErrorEvent}
    BY <1>1, <1>2, <1>3, NoData DEF Adds
  <1>4. CASE symbol \in {ErrorData, DoneData}
    BY <1>1, <1>2, <1>4, IsLastData
  <1>5. ASSUME NEW text \in Seq(Characters), symbol = TokenData(text)
        PROVE  Adds(symbol) \in Seq(Characters)
    BY <1>5, IsTokenData
  <1>6. ASSUME NEW text \in Seq(Characters), NEW reason, symbol = FinalData(text, reason)
        PROVE  Adds(symbol) \in Seq(Characters)
    BY <1>6, IsFinalData
  <1> QED BY <1>1, <1>3, <1>4, <1>5, <1>6 DEF Symbols, DataSymbols

(* The recursion over the lines defines what it says.                          *)
LEMMA SayingLineByLine ==
  ASSUME NEW lines \in Seq(Symbols)
  PROVE  /\ Saying(lines)[0].text = <<>> /\ Saying(lines)[0].tokens = 0
         /\ \A n \in 0 .. Len(lines) :
              /\ Saying(lines)[n].text \in Seq(Characters)
              /\ Saying(lines)[n].tokens \in Nat
         /\ \A n \in 1 .. Len(lines) :
              /\ Saying(lines)[n].text = Saying(lines)[n - 1].text \o Adds(lines[n])
              /\ Saying(lines)[n].tokens = Saying(lines)[n - 1].tokens + One(lines[n])
  <1> DEFINE V == [text : Seq(Characters), tokens : Nat]
             Step(n, said) == IF ~IsData(lines[n]) THEN said
                              ELSE [text   |-> said.text \o TextOf(lines[n]),
                                    tokens |-> said.tokens + IF Counts(lines[n]) THEN 1 ELSE 0]
             start == [text |-> <<>>, tokens |-> 0]
             step == [n \in 1 .. Len(lines) |-> [said \in V |-> Step(n, said)]]
  <1>1. Len(lines) \in Nat /\ \A n \in 1 .. Len(lines) : lines[n] \in Symbols
    BY LenProperties, ElementOfSeq
  <1>2. start \in V /\ start.text = <<>> /\ start.tokens = 0
    BY EmptySeq
  <1>3. ASSUME NEW n \in 1 .. Len(lines), NEW said \in V
        PROVE  /\ Step(n, said) \in V
               /\ Step(n, said).text = said.text \o Adds(lines[n])
               /\ Step(n, said).tokens = said.tokens + One(lines[n])
    <2>1. said.text \in Seq(Characters) /\ said.tokens \in Nat
      OBVIOUS
    <2>2. PICK text \in Seq(Characters), count \in Nat : text = said.text /\ count = said.tokens
      BY <2>1
    <2>3. Adds(lines[n]) \in Seq(Characters) /\ One(lines[n]) \in Nat
      BY <1>1, SymbolSays
    <2>4. CASE ~IsData(lines[n])
      <3>1. Adds(lines[n]) = <<>> /\ One(lines[n]) = 0 /\ Step(n, said) = said
        BY <2>4 DEF Adds, One
      <3>2. text \o <<>> = text /\ count + 0 = count
        BY ConcatEmptySeq
      <3> HIDE DEF Step, V
      <3> QED BY <2>2, <3>1, <3>2
    <2>5. CASE IsData(lines[n])
      <3>1. /\ Adds(lines[n]) = TextOf(lines[n])
            /\ One(lines[n]) = IF Counts(lines[n]) THEN 1 ELSE 0
        BY <2>5 DEF Adds, One
      <3>2. Step(n, said) = [text |-> text \o Adds(lines[n]), tokens |-> count + One(lines[n])]
        BY <2>2, <2>5, <3>1
      <3>3. text \o Adds(lines[n]) \in Seq(Characters) /\ count + One(lines[n]) \in Nat
        BY <2>3, ConcatProperties
      <3> HIDE DEF Step
      <3> QED BY <2>2, <3>2, <3>3
    <2> QED BY <2>4, <2>5
  <1>4. IsStep(step, Len(lines), V)
    <2>1. \A n \in 1 .. Len(lines), said \in V : Step(n, said) \in V
      BY <1>3
    <2> HIDE DEF V, Step
    <2> QED BY <2>1 DEF IsStep
  <1>5. PICK f \in [0 .. Len(lines) -> V] : Follows(f, Len(lines), start, step)
    <2> HIDE DEF step, V, start
    <2> QED BY <1>1, <1>2, <1>4, RecursionExists
  <1>6. f[0] = start /\ \A n \in 1 .. Len(lines) : f[n] = Step(n, f[n - 1])
    <2>1. ASSUME NEW n \in 1 .. Len(lines) PROVE f[n] = Step(n, f[n - 1])
      <3>1. n - 1 \in 0 .. Len(lines)
        BY <1>1
      <3>2. f[n - 1] \in V
        BY <3>1
      <3>3. f[n] = step[n][f[n - 1]]
        BY <1>5 DEF Follows
      <3> HIDE DEF Step, V
      <3> QED BY <3>2, <3>3
    <2> HIDE DEF step, V, start, Step
    <2> QED BY <1>5, <2>1 DEF Follows
  <1> DEFINE Table(g) == g = [n \in 0 .. Len(lines) |-> IF n = 0 THEN start ELSE Step(n, g[n - 1])]
  <1>7. Table(f)
    <2> DEFINE h == [n \in 0 .. Len(lines) |-> IF n = 0 THEN start ELSE Step(n, f[n - 1])]
    <2>1. ASSUME NEW n \in 0 .. Len(lines) PROVE f[n] = h[n]
      <3>1. n = 0 \/ n \in 1 .. Len(lines)
        BY <1>1
      <3> HIDE DEF Step, start
      <3> QED BY <1>6, <3>1
    <2>2. f = [n \in 0 .. Len(lines) |-> f[n]] /\ h = [n \in 0 .. Len(lines) |-> h[n]]
      OBVIOUS
    <2> HIDE DEF h
    <2>3. f = h
      BY <2>1, <2>2
    <2> QED BY <2>3 DEF h
  <1>8. Table(Saying(lines))
    <2>1. Saying(lines) = CHOOSE g : Table(g)
      BY DEF Saying
    <2> HIDE DEF Table
    <2> QED BY <1>7, <2>1
  <1>9. PICK g : g = Saying(lines)
    OBVIOUS
  <1>10. /\ g[0] = start /\ \A n \in 1 .. Len(lines) : g[n] = Step(n, g[n - 1])
    <2>1. Table(g)
      <3> HIDE DEF Table
      <3> QED BY <1>8, <1>9
    <2> HIDE DEF start, Step
    <2>2. 0 \in 0 .. Len(lines) /\ \A n \in 1 .. Len(lines) : n \in 0 .. Len(lines) /\ n # 0
      BY <1>1
    <2> QED BY <2>1, <2>2
  <1>11. \A n \in 0 .. Len(lines) : g[n] \in V
    <2> DEFINE S == {n \in 0 .. Len(lines) : g[n] \in V}
    <2>1. 0 \in S
      <3>1. 0 \in 0 .. Len(lines)
        BY <1>1
      <3> HIDE DEF V, start, Step
      <3> QED BY <1>2, <1>10, <3>1
    <2>2. ASSUME NEW n \in 1 .. Len(lines), n - 1 \in S PROVE n \in S
      <3>1. n \in 0 .. Len(lines)
        BY <1>1
      <3> HIDE DEF V, Step
      <3> QED BY <1>3, <1>10, <2>2, <3>1
    <2>3. \A n \in 1 .. Len(lines) : n - 1 \in S => n \in S
      BY <2>2
    <2> HIDE DEF S
    <2>4. \A n \in 0 .. Len(lines) : n \in S
      BY <1>1, <2>1, <2>3, Reaches
    <2> QED BY <2>4 DEF S
  <1>12. \A n \in 0 .. Len(lines) : g[n].text \in Seq(Characters) /\ g[n].tokens \in Nat
    BY <1>11
  <1>13. ASSUME NEW n \in 1 .. Len(lines)
         PROVE  /\ g[n].text = g[n - 1].text \o Adds(lines[n])
                /\ g[n].tokens = g[n - 1].tokens + One(lines[n])
    <2>1. n - 1 \in 0 .. Len(lines)
      BY <1>1
    <2>2. g[n - 1] \in V
      BY <1>11, <2>1
    <2> HIDE DEF V, Step
    <2> QED BY <1>3, <1>10, <2>2
  <1>14. g[0].text = <<>> /\ g[0].tokens = 0
    BY <1>2, <1>10
  <1> QED BY <1>9, <1>12, <1>13, <1>14

LEMMA SaidIs ==
  ASSUME NEW lines \in Seq(Symbols)
  PROVE  Said(lines).text \in Seq(Characters) /\ Said(lines).tokens \in Nat
  <1>1. Len(lines) \in 0 .. Len(lines)
    BY LenProperties
  <1> QED BY <1>1, SayingLineByLine DEF Said

(* What two parts say, one after the other.                                    *)
LEMMA SaidConcat ==
  ASSUME NEW p \in Seq(Symbols), NEW q \in Seq(Symbols)
  PROVE  /\ p \o q \in Seq(Symbols)
         /\ Said(p \o q).text = Said(p).text \o Said(q).text
         /\ Said(p \o q).tokens = Said(p).tokens + Said(q).tokens
  <1>1. PICK a \in Nat, b \in Nat : a = Len(p) /\ b = Len(q)
    BY LenProperties
  <1>2. PICK r \in Seq(Symbols) :
          /\ r = p \o q /\ Len(r) = a + b
          /\ \A i \in 1 .. a : r[i] = p[i]
          /\ \A i \in 1 .. b : r[a + i] = q[i]
    <2>1. /\ p \o q \in Seq(Symbols) /\ Len(p \o q) = a + b
          /\ \A i \in 1 .. a + b : (p \o q)[i] = IF i <= a THEN p[i] ELSE q[i - a]
      BY <1>1, ConcatProperties
    <2>2. ASSUME NEW i \in 1 .. a PROVE (p \o q)[i] = p[i]
      <3>1. i \in 1 .. a + b /\ i <= a
        OBVIOUS
      <3> QED BY <2>1, <3>1
    <2>3. ASSUME NEW i \in 1 .. b PROVE (p \o q)[a + i] = q[i]
      <3>1. a + i \in 1 .. a + b /\ ~(a + i <= a) /\ (a + i) - a = i
        OBVIOUS
      <3> QED BY <2>1, <3>1
    <2> QED BY <2>1, <2>2, <2>3
  <1>3. PICK f, g, h : f = Saying(p) /\ g = Saying(q) /\ h = Saying(r)
    OBVIOUS
  <1>4. /\ f[0].text = <<>> /\ f[0].tokens = 0
        /\ \A n \in 0 .. a : f[n].text \in Seq(Characters) /\ f[n].tokens \in Nat
        /\ \A n \in 1 .. a : /\ f[n].text = f[n - 1].text \o Adds(p[n])
                             /\ f[n].tokens = f[n - 1].tokens + One(p[n])
    BY <1>1, <1>3, SayingLineByLine
  <1>5. /\ g[0].text = <<>> /\ g[0].tokens = 0
        /\ \A n \in 0 .. b : g[n].text \in Seq(Characters) /\ g[n].tokens \in Nat
        /\ \A n \in 1 .. b : /\ g[n].text = g[n - 1].text \o Adds(q[n])
                             /\ g[n].tokens = g[n - 1].tokens + One(q[n])
    BY <1>1, <1>3, SayingLineByLine
  <1>6. /\ h[0].text = <<>> /\ h[0].tokens = 0
        /\ \A n \in 1 .. a + b : /\ h[n].text = h[n - 1].text \o Adds(r[n])
                                 /\ h[n].tokens = h[n - 1].tokens + One(r[n])
    BY <1>2, <1>3, SayingLineByLine
  <1>7. \A n \in 0 .. a : h[n].text = f[n].text /\ h[n].tokens = f[n].tokens
    <2> DEFINE S == {n \in 0 .. a : h[n].text = f[n].text /\ h[n].tokens = f[n].tokens}
    <2>1. 0 \in S
      BY <1>1, <1>4, <1>6
    <2>2. ASSUME NEW n \in 1 .. a, n - 1 \in S PROVE n \in S
      <3>1. n \in 0 .. a /\ n \in 1 .. a + b
        OBVIOUS
      <3>2. h[n - 1].text = f[n - 1].text /\ h[n - 1].tokens = f[n - 1].tokens
        BY <2>2
      <3>3. /\ h[n].text = h[n - 1].text \o Adds(r[n])
            /\ h[n].tokens = h[n - 1].tokens + One(r[n])
        BY <1>6, <3>1
      <3>4. /\ f[n].text = f[n - 1].text \o Adds(p[n])
            /\ f[n].tokens = f[n - 1].tokens + One(p[n])
        BY <1>4
      <3>5. r[n] = p[n]
        BY <1>2
      <3> QED BY <3>1, <3>2, <3>3, <3>4, <3>5
    <2>3. \A n \in 1 .. a : n - 1 \in S => n \in S
      BY <2>2
    <2> HIDE DEF S
    <2>4. \A n \in 0 .. a : n \in S
      BY <1>1, <2>1, <2>3, Reaches
    <2> QED BY <2>4 DEF S
  <1>8. PICK text \in Seq(Characters), count \in Nat : text = f[a].text /\ count = f[a].tokens
    <2>1. a \in 0 .. a
      BY <1>1
    <2> QED BY <1>4, <2>1
  <1>9. ASSUME NEW n \in 1 .. b
        PROVE  Adds(q[n]) \in Seq(Characters) /\ One(q[n]) \in Nat
    <2>1. q[n] \in Symbols
      BY <1>1, ElementOfSeq
    <2> QED BY <2>1, SymbolSays
  <1>10. \A n \in 0 .. b : /\ h[a + n].text = text \o g[n].text
                           /\ h[a + n].tokens = count + g[n].tokens
    <2> DEFINE S == {n \in 0 .. b : /\ h[a + n].text = text \o g[n].text
                                    /\ h[a + n].tokens = count + g[n].tokens}
    <2>1. 0 \in S
      <3>1. a + 0 = a /\ a \in 0 .. a /\ 0 \in 0 .. b
        BY <1>1
      <3>2. text \o <<>> = text /\ count + 0 = count
        BY ConcatEmptySeq
      <3> QED BY <1>5, <1>7, <1>8, <3>1, <3>2
    <2>2. ASSUME NEW n \in 1 .. b, n - 1 \in S PROVE n \in S
      <3>1. n \in 0 .. b /\ n - 1 \in 0 .. b /\ a + n \in 1 .. a + b /\ (a + n) - 1 = a + (n - 1)
        BY <1>1
      <3>2. h[(a + n) - 1].text = text \o g[n - 1].text /\ h[(a + n) - 1].tokens = count + g[n - 1].tokens
        BY <2>2, <3>1
      <3>3. PICK before \in Seq(Characters), old \in Nat : before = g[n - 1].text /\ old = g[n - 1].tokens
        BY <1>5, <3>1
      <3>4. PICK new \in Seq(Characters), one \in Nat : new = Adds(q[n]) /\ one = One(q[n])
        BY <1>9
      <3>5. r[a + n] = q[n]
        BY <1>2
      <3>6. h[a + n].text = (text \o before) \o new /\ h[a + n].tokens = (count + old) + one
        BY <1>6, <3>1, <3>2, <3>3, <3>4, <3>5
      <3>7. g[n].text = before \o new /\ g[n].tokens = old + one
        BY <1>5, <3>3, <3>4
      <3>8. (text \o before) \o new = text \o (before \o new)
        BY ConcatAssociative
      <3>9. (count + old) + one = count + (old + one)
        OBVIOUS
      <3> QED BY <3>1, <3>6, <3>7, <3>8, <3>9
    <2>3. \A n \in 1 .. b : n - 1 \in S => n \in S
      BY <2>2
    <2> HIDE DEF S
    <2>4. \A n \in 0 .. b : n \in S
      BY <1>1, <2>1, <2>3, Reaches
    <2> QED BY <2>4 DEF S
  <1>11. Said(p) = f[a] /\ Said(q) = g[b] /\ Said(r) = h[a + b]
    BY <1>1, <1>2, <1>3 DEF Said
  <1>12. b \in 0 .. b
    BY <1>1
  <1> QED BY <1>2, <1>8, <1>10, <1>11, <1>12

LEMMA SaidNothing ==
  ASSUME NEW p \in Seq(Symbols), \A i \in 1 .. Len(p) : ~IsData(p[i])
  PROVE  Said(p).text = <<>> /\ Said(p).tokens = 0
  <1>0. PICK f : f = Saying(p)
    OBVIOUS
  <1>1. PICK a \in Nat : a = Len(p) /\ f = Saying(p)
    BY <1>0, LenProperties
  <1>2. /\ f[0].text = <<>> /\ f[0].tokens = 0
        /\ \A n \in 1 .. a : /\ f[n].text = f[n - 1].text \o Adds(p[n])
                             /\ f[n].tokens = f[n - 1].tokens + One(p[n])
    BY <1>1, SayingLineByLine
  <1>3. \A n \in 1 .. a : Adds(p[n]) = <<>> /\ One(p[n]) = 0
    BY <1>1 DEF Adds, One
  <1> DEFINE S == {n \in 0 .. a : f[n].text = <<>> /\ f[n].tokens = 0}
  <1>4. 0 \in S
    BY <1>1, <1>2
  <1>5. ASSUME NEW n \in 1 .. a, n - 1 \in S PROVE n \in S
    <2>1. <<>> \o <<>> = <<>> /\ 0 + 0 = 0 /\ n \in 0 .. a
      <3>1. <<>> \in Seq(Characters)
        BY EmptySeq
      <3> QED BY <3>1, ConcatEmptySeq
    <2> QED BY <1>2, <1>3, <1>5, <2>1
  <1>6. \A n \in 1 .. a : n - 1 \in S => n \in S
    BY <1>5
  <1> HIDE DEF S
  <1>7. \A n \in 0 .. a : n \in S
    BY <1>1, <1>4, <1>6, Reaches
  <1>8. a \in 0 .. a
    BY <1>1
  <1> QED BY <1>1, <1>7, <1>8 DEF S, Said

LEMMA SaidOne ==
  ASSUME NEW symbol \in Symbols
  PROVE  <<symbol>> \in Seq(Symbols) /\ Said(<<symbol>>).text = Adds(symbol) /\ Said(<<symbol>>).tokens = One(symbol)
  <1>0. <<symbol>> \in Seq(Symbols)
    OBVIOUS
  <1>1. PICK p \in Seq(Symbols) : p = <<symbol>>
    BY <1>0
  <1>2. Len(p) = 1 /\ p[1] = symbol
    BY <1>1
  <1>3. PICK f : f = Saying(p)
    OBVIOUS
  <1>4. /\ f[0].text = <<>> /\ f[0].tokens = 0
        /\ \A n \in 1 .. 1 : /\ f[n].text = f[n - 1].text \o Adds(p[n])
                             /\ f[n].tokens = f[n - 1].tokens + One(p[n])
    BY <1>2, <1>3, SayingLineByLine
  <1>5. f[1].text = <<>> \o Adds(symbol) /\ f[1].tokens = 0 + One(symbol)
    <2>1. 1 \in 1 .. 1 /\ 1 - 1 = 0
      OBVIOUS
    <2> QED BY <1>2, <1>4, <2>1
  <1>6. <<>> \o Adds(symbol) = Adds(symbol) /\ 0 + One(symbol) = One(symbol)
    BY SymbolSays, ConcatEmptySeq
  <1>7. Said(p) = f[1]
    BY <1>2, <1>3 DEF Said
  <1> QED BY <1>1, <1>5, <1>6, <1>7

(* A frame says what its data line says, and has its end.                      *)
LEMMA SaidFrame ==
  ASSUME NEW line \in DataSymbols
  PROVE  /\ Frame(line) \in Seq(Symbols)
         /\ Said(Frame(line)).text = Adds(line) /\ Said(Frame(line)).tokens = One(line)
         /\ line = DoneData => Frame(line) = <<DoneData, LF, LF>>
         /\ line # DoneData => \A i \in 1 .. Len(Frame(line)) : Frame(line)[i] # DoneData
  <1>1. line \in Symbols /\ LF \in Symbols /\ ErrorEvent \in Symbols /\ ErrorData \in Symbols
    BY DEF Symbols, DataSymbols
  <1>2. PICK ends \in Seq(Symbols) : ends = <<LF, LF>>
    <2>1. <<LF, LF>> \in Seq(Symbols)
      BY <1>1
    <2> QED BY <2>1
  <1>3. Len(ends) = 2 /\ ends[1] = LF /\ ends[2] = LF
    BY <1>2
  <1>4. Said(ends).text = <<>> /\ Said(ends).tokens = 0
    <2>1. \A i \in 1 .. Len(ends) : ~IsData(ends[i])
      BY <1>3, NoData
    <2> QED BY <2>1, SaidNothing
  <1>5. PICK own \in Seq(Symbols) : own = <<line>> /\ Said(own).text = Adds(line) /\ Said(own).tokens = One(line)
    <2>1. <<line>> \in Seq(Symbols) /\ Said(<<line>>).text = Adds(line) /\ Said(<<line>>).tokens = One(line)
      BY <1>1, SaidOne
    <2> QED BY <2>1
  <1>6. PICK rest \in Seq(Symbols) :
          rest = <<line, LF, LF>> /\ Said(rest).text = Adds(line) /\ Said(rest).tokens = One(line)
    <2>1. /\ own \o ends \in Seq(Symbols)
          /\ Said(own \o ends).text = Said(own).text \o Said(ends).text
          /\ Said(own \o ends).tokens = Said(own).tokens + Said(ends).tokens
      BY SaidConcat
    <2>2. PICK text \in Seq(Characters), count \in Nat : text = Adds(line) /\ count = One(line)
      BY <1>1, SymbolSays
    <2>3. text \o <<>> = text /\ count + 0 = count
      BY ConcatEmptySeq
    <2>4. own \o ends = <<line, LF, LF>>
      <3>1. PICK three \in Seq(Symbols) : three = <<line, LF, LF>>
        <4>1. <<line, LF, LF>> \in Seq(Symbols)
          BY <1>1
        <4> QED BY <4>1
      <3>2. Len(three) = 3 /\ three[1] = line /\ three[2] = LF /\ three[3] = LF
        BY <3>1
      <3>3. Len(own) = 1 /\ own[1] = line
        BY <1>5
      <3>4. /\ own \o ends \in Seq(Symbols) /\ Len(own \o ends) = 3
            /\ \A i \in 1 .. 3 : (own \o ends)[i] = IF i <= 1 THEN own[i] ELSE ends[i - 1]
        <4>1. /\ own \o ends \in Seq(Symbols) /\ Len(own \o ends) = Len(own) + Len(ends)
              /\ \A i \in 1 .. Len(own) + Len(ends) :
                   (own \o ends)[i] = IF i <= Len(own) THEN own[i] ELSE ends[i - Len(own)]
          BY ConcatProperties
        <4>2. Len(own) = 1 /\ Len(own) + Len(ends) = 3
          BY <1>3, <3>3
        <4> QED BY <4>1, <4>2
      <3>5. ASSUME NEW i \in 1 .. 3 PROVE (own \o ends)[i] = three[i]
        <4>1. i = 1 \/ i = 2 \/ i = 3
          OBVIOUS
        <4>2. CASE i = 1
          BY <3>2, <3>3, <3>4, <4>2
        <4>3. CASE i = 2
          BY <1>3, <3>2, <3>4, <4>3
        <4>4. CASE i = 3
          BY <1>3, <3>2, <3>4, <4>4
        <4> QED BY <4>1, <4>2, <4>3, <4>4
      <3>6. own \o ends = three
        BY <3>2, <3>4, <3>5, SeqEqual
      <3> QED BY <3>1, <3>6
    <2> QED BY <1>4, <1>5, <2>1, <2>2, <2>3, <2>4
  <1>7. LF # DoneData /\ ErrorEvent # DoneData
    BY NoData, IsLastData
  <1>8. CASE line # ErrorData
    <2>1. Frame(line) = <<line, LF, LF>>
      BY <1>8 DEF Frame
    <2>2. line # DoneData => \A i \in 1 .. Len(<<line, LF, LF>>) : <<line, LF, LF>>[i] # DoneData
      BY <1>7
    <2> QED BY <1>6, <2>1, <2>2
  <1>9. CASE line = ErrorData
    <2>1. Frame(line) = <<ErrorEvent, LF, line, LF, LF>>
      BY <1>9 DEF Frame
    <2>2. PICK first \in Seq(Symbols) : first = <<ErrorEvent, LF>>
      <3>1. <<ErrorEvent, LF>> \in Seq(Symbols)
        BY <1>1
      <3> QED BY <3>1
    <2>3. Len(first) = 2 /\ first[1] = ErrorEvent /\ first[2] = LF
      BY <2>2
    <2>4. Said(first).text = <<>> /\ Said(first).tokens = 0
      <3>1. \A i \in 1 .. Len(first) : ~IsData(first[i])
        BY <2>3, NoData
      <3> QED BY <3>1, SaidNothing
    <2>5. PICK five \in Seq(Symbols) : five = <<ErrorEvent, LF, line, LF, LF>>
      <3>1. <<ErrorEvent, LF, line, LF, LF>> \in Seq(Symbols)
        BY <1>1
      <3> QED BY <3>1
    <2>6. /\ Len(five) = 5 /\ five[1] = ErrorEvent /\ five[2] = LF /\ five[3] = line
          /\ five[4] = LF /\ five[5] = LF
      BY <2>5
    <2>7. Len(rest) = 3 /\ rest[1] = line /\ rest[2] = LF /\ rest[3] = LF
      BY <1>6
    <2>8. /\ first \o rest \in Seq(Symbols) /\ Len(first \o rest) = 5
          /\ \A i \in 1 .. 5 : (first \o rest)[i] = IF i <= 2 THEN first[i] ELSE rest[i - 2]
      <3>1. /\ first \o rest \in Seq(Symbols) /\ Len(first \o rest) = Len(first) + Len(rest)
            /\ \A i \in 1 .. Len(first) + Len(rest) :
                 (first \o rest)[i] = IF i <= Len(first) THEN first[i] ELSE rest[i - Len(first)]
        BY ConcatProperties
      <3>2. Len(first) = 2 /\ Len(first) + Len(rest) = 5
        BY <2>3, <2>7
      <3> QED BY <3>1, <3>2
    <2>9. ASSUME NEW i \in 1 .. 5 PROVE (first \o rest)[i] = five[i]
      <3>1. i = 1 \/ i = 2 \/ i = 3 \/ i = 4 \/ i = 5
        OBVIOUS
      <3>2. CASE i = 1 \/ i = 2
        BY <2>3, <2>6, <2>8, <3>2
      <3>3. CASE i = 3
        BY <2>6, <2>7, <2>8, <3>3
      <3>4. CASE i = 4
        BY <2>6, <2>7, <2>8, <3>4
      <3>5. CASE i = 5
        BY <2>6, <2>7, <2>8, <3>5
      <3> QED BY <3>1, <3>2, <3>3, <3>4, <3>5
    <2>10. first \o rest = five
      BY <2>6, <2>8, <2>9, SeqEqual
    <2>11. /\ Said(first \o rest).text = Said(first).text \o Said(rest).text
           /\ Said(first \o rest).tokens = Said(first).tokens + Said(rest).tokens
      BY SaidConcat
    <2>12. PICK text \in Seq(Characters), count \in Nat : text = Adds(line) /\ count = One(line)
      BY <1>1, SymbolSays
    <2>13. <<>> \o text = text /\ 0 + count = count
      BY ConcatEmptySeq
    <2>14. Said(five).text = Adds(line) /\ Said(five).tokens = One(line)
      BY <1>6, <2>4, <2>10, <2>11, <2>12, <2>13
    <2>15. line # DoneData
      BY <1>9, IsLastData
    <2>16. ASSUME NEW i \in 1 .. Len(five) PROVE five[i] # DoneData
      BY <1>7, <2>6, <2>15
    <2> QED BY <2>1, <2>5, <2>14, <2>15, <2>16
  <1> QED BY <1>8, <1>9

-----------------------------------------------------------------------------
(* The stream.  What the client has not read yet is in its buffer, on the wire *)
(* or about to be yielded.                                                     *)

Pipe == buffer \o wire

Ahead == Pipe \o outbox

Answering == kind = "stream" /\ client = "reading"

Succeeded == status \in {"stop", "finished"}

(* Followed by the end of its frame, DoneData cannot be missed.                *)
DoneIn(symbols) ==
  \E i \in 1 .. Len(symbols) : /\ i + 2 <= Len(symbols)
                               /\ symbols[i] = DoneData
                               /\ symbols[i + 1] = LF /\ symbols[i + 2] = LF

DoneAmong(lines) == \E i \in 1 .. Len(lines) : lines[i] = DoneData

(* [DONE] is the last line with data, and only where the response succeeded.   *)
DoneLast(lines, succeeded) ==
  \A i \in 1 .. Len(lines) : lines[i] = DoneData =>
    succeeded /\ \A j \in 1 .. Len(lines) : i < j => ~IsData(lines[j])

Signalled == responseDone <=> status = "stop"

(* A client that is still there has not read what is ahead of it, and that is  *)
(* all it has not read.                                                        *)
NothingLost ==
  Answering => /\ emitted = shown \o Said(Ahead).text
               /\ received = counted + Said(Ahead).tokens

DoneIsLast ==
  Answering => /\ Succeeded => DoneIn(Pipe) \/ DoneAmong(outbox)
               /\ DoneLast(Ahead, Succeeded)

Collected ==
  kind = "collect" => /\ shown = emitted /\ counted = received
                      /\ outbox = <<>> /\ wire = <<>> /\ buffer = <<>>

Answered ==
  /\ IsPrefix(shown, emitted)
  /\ client = "done" => Succeeded /\ shown = emitted /\ counted = received

FailuresAreTheEngines ==
  /\ status = "failed" => engine \in {"error", "dropped"}
  /\ client = "failed" => engine \in {"error", "dropped"}

Handling ==
  /\ handler = "returned" => status # "open" /\ outbox = <<>>
  /\ handler = "dropped" => client # "reading"

StreamParts == /\ Signalled /\ NothingLost /\ DoneIsLast /\ Collected /\ Answered
               /\ FailuresAreTheEngines /\ Handling

LEMMA SaidTwo ==
  ASSUME NEW x \in Symbols, NEW y \in Symbols
  PROVE  /\ Said(<<x, y>>).text = Adds(x) \o Adds(y)
         /\ Said(<<x, y>>).tokens = One(x) + One(y)
  <1>0. <<x, y>> \in Seq(Symbols)
    OBVIOUS
  <1>1. PICK p \in Seq(Symbols) : p = <<x, y>>
    BY <1>0
  <1>2. Len(p) = 2 /\ p[1] = x /\ p[2] = y
    BY <1>1
  <1>3. PICK f : f = Saying(p)
    OBVIOUS
  <1>4. /\ f[0].text = <<>> /\ f[0].tokens = 0
        /\ \A n \in 1 .. 2 : /\ f[n].text = f[n - 1].text \o Adds(p[n])
                             /\ f[n].tokens = f[n - 1].tokens + One(p[n])
    BY <1>2, <1>3, SayingLineByLine
  <1>5. f[1].text = <<>> \o Adds(x) /\ f[1].tokens = 0 + One(x)
    <2>1. 1 \in 1 .. 2 /\ 1 - 1 = 0
      OBVIOUS
    <2> QED BY <1>2, <1>4, <2>1
  <1>6. f[2].text = f[1].text \o Adds(y) /\ f[2].tokens = f[1].tokens + One(y)
    <2>1. 2 \in 1 .. 2 /\ 2 - 1 = 1
      OBVIOUS
    <2> QED BY <1>2, <1>4, <2>1
  <1>7. <<>> \o Adds(x) = Adds(x) /\ 0 + One(x) = One(x)
    BY SymbolSays, ConcatEmptySeq
  <1>8. Said(p) = f[2]
    BY <1>2, <1>3 DEF Said
  <1> QED BY <1>1, <1>5, <1>6, <1>7, <1>8

LEMMA SaidThree ==
  ASSUME NEW x \in Symbols, NEW y \in Symbols, NEW z \in Symbols
  PROVE  /\ Said(<<x, y, z>>).text = (Adds(x) \o Adds(y)) \o Adds(z)
         /\ Said(<<x, y, z>>).tokens = (One(x) + One(y)) + One(z)
  <1>0. <<x, y, z>> \in Seq(Symbols)
    OBVIOUS
  <1>1. PICK p \in Seq(Symbols) : p = <<x, y, z>>
    BY <1>0
  <1>2. Len(p) = 3 /\ p[1] = x /\ p[2] = y /\ p[3] = z
    BY <1>1
  <1>3. PICK f : f = Saying(p)
    OBVIOUS
  <1>4. /\ f[0].text = <<>> /\ f[0].tokens = 0
        /\ \A n \in 1 .. 3 : /\ f[n].text = f[n - 1].text \o Adds(p[n])
                             /\ f[n].tokens = f[n - 1].tokens + One(p[n])
    BY <1>2, <1>3, SayingLineByLine
  <1>5. f[1].text = <<>> \o Adds(x) /\ f[1].tokens = 0 + One(x)
    <2>1. 1 \in 1 .. 3 /\ 1 - 1 = 0
      OBVIOUS
    <2> QED BY <1>2, <1>4, <2>1
  <1>6. f[2].text = f[1].text \o Adds(y) /\ f[2].tokens = f[1].tokens + One(y)
    <2>1. 2 \in 1 .. 3 /\ 2 - 1 = 1
      OBVIOUS
    <2> QED BY <1>2, <1>4, <2>1
  <1>7. f[3].text = f[2].text \o Adds(z) /\ f[3].tokens = f[2].tokens + One(z)
    <2>1. 3 \in 1 .. 3 /\ 3 - 1 = 2
      OBVIOUS
    <2> QED BY <1>2, <1>4, <2>1
  <1>8. <<>> \o Adds(x) = Adds(x) /\ 0 + One(x) = One(x)
    BY SymbolSays, ConcatEmptySeq
  <1>9. Said(p) = f[3]
    BY <1>2, <1>3 DEF Said
  <1> QED BY <1>1, <1>5, <1>6, <1>7, <1>8, <1>9

-----------------------------------------------------------------------------
(* Where a frame ends.                                                         *)

LEMMA LineEnds ==
  ASSUME NEW d \in Delimiters
  PROVE  /\ Len(d) \in Nat /\ Len(d) >= 2
         /\ \A k \in 1 .. Len(d) : ~IsData(d[k])
  <1>1. CASE d = <<LF, LF>>
    <2>1. Len(d) = 2 /\ d[1] = LF /\ d[2] = LF
      BY <1>1
    <2> QED BY <2>1, NoData
  <1>2. CASE d = <<CR, LF, CR, LF>>
    <2>1. Len(d) = 4 /\ d[1] = CR /\ d[2] = LF /\ d[3] = CR /\ d[4] = LF
      BY <1>2
    <2> QED BY <2>1, NoData
  <1> QED BY <1>1, <1>2 DEF Delimiters

LEMMA CutsAtALineEnd ==
  ASSUME NEW symbols \in Seq(Symbols), NEW cut \in Boundary(symbols)
  PROVE  /\ cut[1] \in Nat /\ cut[2] \in Nat /\ cut[1] < cut[2] /\ cut[2] <= Len(symbols)
         /\ \A j \in 1 .. Len(symbols) : cut[1] < j /\ j <= cut[2] => ~IsData(symbols[j])
  <1>1. PICK at \in Delimited(symbols) : cut = <<at[1], at[1] + Len(at[2])>>
    BY DEF Boundary
  <1>2. PICK n \in Nat, d \in Delimiters :
          /\ at[1] = n /\ at[2] = d
          /\ n + Len(d) <= Len(symbols)
          /\ SubSeq(symbols, n + 1, n + Len(d)) = d
    <2>1. at[1] \in 0 .. Len(symbols) /\ at[2] \in Delimiters
      BY DEF Delimited
    <2>2. at[1] \in Nat
      BY <2>1, LenProperties
    <2>3. /\ at[1] + Len(at[2]) <= Len(symbols)
          /\ SubSeq(symbols, at[1] + 1, at[1] + Len(at[2])) = at[2]
      BY DEF Delimited
    <2> QED BY <2>1, <2>2, <2>3
  <1>3. PICK size \in Nat : size = Len(d) /\ size >= 2
    BY LineEnds
  <1>4. cut[1] = n /\ cut[2] = n + size
    BY <1>1, <1>2, <1>3
  <1>5. ASSUME NEW j \in 1 .. Len(symbols), n < j, j <= n + size
        PROVE  ~IsData(symbols[j])
    <2>1. Len(symbols) \in Nat /\ \A i \in 1 .. Len(symbols) : symbols[i] \in Symbols
      BY LenProperties, ElementOfSeq
    <2>2. j - n \in 1 .. size /\ (n + 1) + (j - n) - 1 = j
      BY <1>3, <1>5, <2>1
    <2>3. /\ n + 1 \in Int /\ n + size \in Int /\ size = (n + size) - (n + 1) + 1
          /\ \A i \in n + 1 .. n + size : symbols[i] \in Symbols
      <3>1. \A i \in n + 1 .. n + size : i \in 1 .. Len(symbols)
        BY <1>2, <1>3, <2>1
      <3> QED BY <2>1, <3>1
    <2>4. \A i \in 1 .. (n + size) - (n + 1) + 1 :
            SubSeq(symbols, n + 1, n + size)[i] = symbols[(n + 1) + i - 1]
      BY <2>3, SubSeqProperties
    <2>5. d[j - n] = symbols[j]
      BY <1>2, <1>3, <2>2, <2>3, <2>4
    <2> QED BY <1>3, <2>2, <2>5, LineEnds
  <1> QED BY <1>2, <1>3, <1>4, <1>5

LEMMA DoneIsFound ==
  ASSUME NEW symbols \in Seq(Symbols), DoneIn(symbols)
  PROVE  Boundary(symbols) # {}
  <1>1. PICK n \in 1 .. Len(symbols) :
          n + 2 <= Len(symbols) /\ symbols[n + 1] = LF /\ symbols[n + 2] = LF
    BY DEF DoneIn
  <1>2. Len(symbols) \in Nat /\ \A i \in 1 .. Len(symbols) : symbols[i] \in Symbols
    BY LenProperties, ElementOfSeq
  <1> DEFINE d == <<LF, LF>>
             two == SubSeq(symbols, n + 1, n + 2)
  <1>3. d \in Delimiters /\ Len(d) = 2 /\ d[1] = LF /\ d[2] = LF
    BY DEF Delimiters
  <1>4. LF \in Symbols
    BY DEF Symbols
  <1>5. d \in Seq(Symbols)
    BY <1>4
  <1> HIDE DEF d
  <1>6. two \in Seq(Symbols) /\ Len(two) = 2 /\ two[1] = LF /\ two[2] = LF
    <2>1. n + 1 \in Int /\ n + 2 \in Int /\ n + 1 <= n + 2 /\ (n + 2) - (n + 1) + 1 = 2
      BY <1>2
    <2>2. \A i \in n + 1 .. n + 2 : symbols[i] \in Symbols
      <3>1. \A i \in n + 1 .. n + 2 : i \in 1 .. Len(symbols)
        BY <1>1, <1>2
      <3> QED BY <1>2, <3>1
    <2>3. /\ two \in Seq(Symbols) /\ Len(two) = 2
          /\ \A i \in 1 .. 2 : two[i] = symbols[(n + 1) + i - 1]
      <3>1. /\ two \in Seq(Symbols)
            /\ Len(two) = IF n + 1 <= n + 2 THEN (n + 2) - (n + 1) + 1 ELSE 0
            /\ \A i \in 1 .. (n + 2) - (n + 1) + 1 : two[i] = symbols[(n + 1) + i - 1]
        BY <2>1, <2>2, SubSeqProperties
      <3> HIDE DEF two
      <3> QED BY <2>1, <3>1
    <2> HIDE DEF two
    <2>4. two[1] = symbols[n + 1] /\ two[2] = symbols[n + 2]
      <3>1. (n + 1) + 1 - 1 = n + 1 /\ (n + 1) + 2 - 1 = n + 2
        BY <1>2
      <3> QED BY <2>3, <3>1
    <2> QED BY <1>1, <2>3, <2>4
  <1>7. two = d
    <2> HIDE DEF two
    <2>1. \A i \in 1 .. Len(two) : two[i] = d[i]
      <3>1. \A i \in 1 .. 2 : i = 1 \/ i = 2
        OBVIOUS
      <3> QED BY <1>3, <1>6, <3>1
    <2> QED BY <1>3, <1>5, <1>6, <2>1, SeqEqual
  <1> DEFINE ends == {<<at[1], at[1] + Len(at[2])>> : at \in Delimited(symbols)}
             firsts == {e[1] : e \in ends}
  <1>8. <<n, d>> \in Delimited(symbols)
    <2>1. <<n, d>> \in (0 .. Len(symbols)) \X Delimiters
      BY <1>1, <1>2, <1>3
    <2>2. n + Len(d) <= Len(symbols) /\ SubSeq(symbols, n + 1, n + Len(d)) = d
      BY <1>1, <1>3, <1>7
    <2> QED BY <2>1, <2>2 DEF Delimited
  <1>9. \A e \in ends : e[1] \in Nat
    <2> SUFFICES ASSUME NEW at \in Delimited(symbols) PROVE at[1] \in Nat
      OBVIOUS
    <2> QED BY <1>2 DEF Delimited
  <1>10. <<n, n + Len(d)>> \in ends
    BY <1>8
  <1>11. firsts # {} /\ firsts \subseteq Nat
    <2> HIDE DEF ends
    <2> QED BY <1>9, <1>10
  <1>12. PICK least \in firsts : \A f \in firsts : least <= f
    <2> HIDE DEF firsts
    <2> QED BY <1>11, LeastOfNaturals
  <1>13. PICK e \in ends : e[1] = least
    <2> HIDE DEF ends
    <2> QED OBVIOUS
  <1>14. \A f \in ends : e[1] <= f[1]
    <2> HIDE DEF ends
    <2> QED BY <1>12, <1>13
  <1>15. e \in Boundary(symbols)
    <2>1. Boundary(symbols) = {x \in ends : \A f \in ends : x[1] <= f[1]}
      BY DEF Boundary
    <2> HIDE DEF ends
    <2> QED BY <1>14, <2>1
  <1> QED BY <1>15

-----------------------------------------------------------------------------
(* Lines on their way.                                                         *)

(* The elements of two parts, by their places in the whole.                    *)
LEMMA Parts ==
  ASSUME NEW S, NEW p \in Seq(S), NEW q \in Seq(S)
  PROVE  /\ p \o q \in Seq(S) /\ Len(p) \in Nat /\ Len(q) \in Nat
         /\ Len(p \o q) = Len(p) + Len(q)
         /\ \A i \in 1 .. Len(p) : (p \o q)[i] = p[i]
         /\ \A i \in 1 .. Len(q) : (p \o q)[Len(p) + i] = q[i]
         /\ \A i \in 1 .. Len(p \o q) : i \in 1 .. Len(p) \/ i - Len(p) \in 1 .. Len(q)
  <1>1. Len(p) \in Nat /\ Len(q) \in Nat
    BY LenProperties
  <1>2. /\ p \o q \in Seq(S) /\ Len(p \o q) = Len(p) + Len(q)
        /\ \A i \in 1 .. Len(p) + Len(q) : (p \o q)[i] = IF i <= Len(p) THEN p[i] ELSE q[i - Len(p)]
    BY ConcatProperties
  <1>3. ASSUME NEW i \in 1 .. Len(p) PROVE (p \o q)[i] = p[i]
    <2>1. i \in 1 .. Len(p) + Len(q) /\ i <= Len(p)
      BY <1>1
    <2> QED BY <1>2, <2>1
  <1>4. ASSUME NEW i \in 1 .. Len(q) PROVE (p \o q)[Len(p) + i] = q[i]
    <2>1. Len(p) + i \in 1 .. Len(p) + Len(q) /\ ~(Len(p) + i <= Len(p)) /\ (Len(p) + i) - Len(p) = i
      BY <1>1
    <2> QED BY <1>2, <2>1
  <1>5. \A i \in 1 .. Len(p \o q) : i \in 1 .. Len(p) \/ i - Len(p) \in 1 .. Len(q)
    BY <1>1, <1>2
  <1> QED BY <1>1, <1>2, <1>3, <1>4, <1>5

LEMMA DataIsData ==
  /\ DataSymbols \subseteq Symbols
  /\ \A line \in DataSymbols : IsData(line)
  <1>1. \A line \in DataSymbols : IsData(line)
    BY IsTokenData, IsFinalData, IsLastData DEF DataSymbols
  <1> QED BY <1>1 DEF Symbols

(* Lines queued behind others that [DONE] is not among.                        *)
LEMMA Queues ==
  ASSUME NEW pipe \in Seq(Symbols), NEW frames \in Seq(Symbols), NEW succeeded \in BOOLEAN,
         \A i \in 1 .. Len(pipe) : pipe[i] # DoneData,
         \A i \in 1 .. Len(frames) : frames[i] = DoneData => succeeded /\ i = Len(frames)
  PROVE  DoneLast(pipe \o frames, succeeded)
  <1>1. PICK a \in Nat, b \in Nat : a = Len(pipe) /\ b = Len(frames)
    BY LenProperties
  <1>2. PICK all \in Seq(Symbols) :
          /\ all = pipe \o frames /\ Len(all) = a + b
          /\ \A i \in 1 .. a : all[i] = pipe[i]
          /\ \A i \in 1 .. b : all[a + i] = frames[i]
    <2>1. /\ pipe \o frames \in Seq(Symbols)
          /\ Len(pipe \o frames) = Len(pipe) + Len(frames)
          /\ \A i \in 1 .. Len(pipe) : (pipe \o frames)[i] = pipe[i]
          /\ \A i \in 1 .. Len(frames) : (pipe \o frames)[Len(pipe) + i] = frames[i]
      BY Parts
    <2> QED BY <1>1, <2>1
  <1>3. ASSUME NEW i \in 1 .. a + b, all[i] = DoneData
        PROVE  succeeded /\ i = a + b
    <2>1. i \notin 1 .. a
      BY <1>1, <1>2, <1>3
    <2>2. i - a \in 1 .. b /\ a + (i - a) = i
      BY <2>1
    <2>3. frames[i - a] = DoneData
      BY <1>2, <1>3, <2>2
    <2> QED BY <1>1, <2>2, <2>3
  <1>4. \A j \in 1 .. a + b : ~(a + b < j)
    OBVIOUS
  <1> QED BY <1>2, <1>3, <1>4 DEF DoneLast

(* The first line of the outbox becomes a frame at the end of the pipe.        *)
LEMMA Puts ==
  ASSUME NEW pipe \in Seq(Symbols), NEW box \in Seq(DataSymbols), box # <<>>,
         NEW succeeded, DoneLast(pipe \o box, succeeded)
  PROVE  /\ Said((pipe \o Frame(Head(box))) \o Tail(box)).text = Said(pipe \o box).text
         /\ Said((pipe \o Frame(Head(box))) \o Tail(box)).tokens = Said(pipe \o box).tokens
         /\ DoneLast((pipe \o Frame(Head(box))) \o Tail(box), succeeded)
         /\ DoneIn(pipe) \/ DoneAmong(box) => DoneIn(pipe \o Frame(Head(box))) \/ DoneAmong(Tail(box))
         /\ pipe \o Frame(Head(box)) \in Seq(Symbols)
         /\ Tail(box) \in Seq(DataSymbols)
  <1>1. PICK line \in DataSymbols, rest \in Seq(DataSymbols) :
          /\ line = Head(box) /\ rest = Tail(box)
          /\ box = <<line>> \o rest
    <2>1. Head(box) \in DataSymbols /\ Tail(box) \in Seq(DataSymbols)
      BY HeadTailProperties
    <2>2. Len(box) \in Nat \ {0}
      BY EmptySeq
    <2>3. 1 \in 1 .. Len(box) /\ Len(box) \in 1 .. Len(box)
      BY <2>2
    <2>4. SubSeq(box, 1, Len(box)) = <<box[1]>> \o SubSeq(box, 1 + 1, Len(box))
      BY <2>3, SubSeqRecursiveFirst
    <2>5. SubSeq(box, 1, Len(box)) = box /\ Tail(box) = SubSeq(box, 2, Len(box)) /\ 1 + 1 = 2
      BY SubSeqFull, TailIsSubSeq
    <2>6. Head(box) = box[1]
      BY <2>2
    <2> QED BY <2>1, <2>4, <2>5, <2>6
  <1>2. /\ line \in Symbols /\ rest \in Seq(Symbols) /\ <<line>> \in Seq(Symbols) /\ box \in Seq(Symbols)
        /\ \A i \in 1 .. Len(rest) : IsData(rest[i])
    <2>1. rest \in Seq(Symbols) /\ box \in Seq(Symbols)
      BY DataIsData, SeqMonotonic
    <2>2. \A i \in 1 .. Len(rest) : rest[i] \in DataSymbols
      BY ElementOfSeq
    <2>3. line \in Symbols
      BY DataIsData
    <2>4. <<line>> \in Seq(Symbols)
      BY <2>3
    <2> QED BY <2>1, <2>2, <2>3, <2>4, DataIsData
  <1>3. PICK frame \in Seq(Symbols) :
          /\ frame = Frame(line)
          /\ Said(frame).text = Adds(line) /\ Said(frame).tokens = One(line)
          /\ line = DoneData => frame = <<DoneData, LF, LF>>
          /\ line # DoneData => \A i \in 1 .. Len(frame) : frame[i] # DoneData
    BY SaidFrame
  <1>4. PICK a \in Nat, c \in Nat, f \in Nat : a = Len(pipe) /\ c = Len(rest) /\ f = Len(frame)
    BY LenProperties
  <1>5. PICK one \in Seq(Symbols) :
          /\ one = <<line>> /\ Len(one) = 1 /\ one[1] = line
          /\ Said(one).text = Adds(line) /\ Said(one).tokens = One(line)
    <2>1. Said(<<line>>).text = Adds(line) /\ Said(<<line>>).tokens = One(line)
      BY <1>2, SaidOne
    <2>2. Len(<<line>>) = 1 /\ <<line>>[1] = line
      OBVIOUS
    <2> QED BY <1>2, <2>1, <2>2
  <1>6. box = one \o rest
    BY <1>1, <1>5
  <1>7. /\ Said(pipe \o frame).text = Said(pipe).text \o Adds(line)
        /\ Said(pipe \o frame).tokens = Said(pipe).tokens + One(line)
        /\ pipe \o frame \in Seq(Symbols)
    <2>1. /\ Said(pipe \o frame).text = Said(pipe).text \o Said(frame).text
          /\ Said(pipe \o frame).tokens = Said(pipe).tokens + Said(frame).tokens
          /\ pipe \o frame \in Seq(Symbols)
      BY SaidConcat
    <2> QED BY <1>3, <2>1
  <1>8. /\ Said((pipe \o frame) \o rest).text = (Said(pipe).text \o Adds(line)) \o Said(rest).text
        /\ Said((pipe \o frame) \o rest).tokens = (Said(pipe).tokens + One(line)) + Said(rest).tokens
    <2>1. /\ Said((pipe \o frame) \o rest).text = Said(pipe \o frame).text \o Said(rest).text
          /\ Said((pipe \o frame) \o rest).tokens = Said(pipe \o frame).tokens + Said(rest).tokens
      BY <1>2, <1>7, SaidConcat
    <2> QED BY <1>7, <2>1
  <1>9. /\ Said(box).text = Adds(line) \o Said(rest).text
        /\ Said(box).tokens = One(line) + Said(rest).tokens
    <2>1. /\ Said(one \o rest).text = Said(one).text \o Said(rest).text
          /\ Said(one \o rest).tokens = Said(one).tokens + Said(rest).tokens
      BY <1>2, SaidConcat
    <2> QED BY <1>5, <1>6, <2>1
  <1>10. /\ Said(pipe \o box).text = Said(pipe).text \o (Adds(line) \o Said(rest).text)
         /\ Said(pipe \o box).tokens = Said(pipe).tokens + (One(line) + Said(rest).tokens)
    <2>1. /\ Said(pipe \o box).text = Said(pipe).text \o Said(box).text
          /\ Said(pipe \o box).tokens = Said(pipe).tokens + Said(box).tokens
      BY <1>2, SaidConcat
    <2> QED BY <1>9, <2>1
  <1>11. PICK x \in Seq(Characters), y \in Seq(Characters), z \in Seq(Characters),
              l \in Nat, m \in Nat, n \in Nat :
           /\ x = Said(pipe).text /\ y = Adds(line) /\ z = Said(rest).text
           /\ l = Said(pipe).tokens /\ m = One(line) /\ n = Said(rest).tokens
    BY <1>2, SaidIs, SymbolSays
  <1>12. (x \o y) \o z = x \o (y \o z) /\ (l + m) + n = l + (m + n)
    BY ConcatAssociative
  <1>13. /\ Said((pipe \o frame) \o rest).text = Said(pipe \o box).text
         /\ Said((pipe \o frame) \o rest).tokens = Said(pipe \o box).tokens
    BY <1>8, <1>10, <1>11, <1>12
  (* Places in what was ahead and in what is. *)
  <1>14. PICK old \in Seq(Symbols) :
           /\ old = pipe \o box /\ Len(old) = (a + 1) + c
           /\ \A i \in 1 .. a : old[i] = pipe[i]
           /\ old[a + 1] = line
           /\ \A i \in 1 .. c : old[(a + 1) + i] = rest[i]
    <2>1. /\ Len(box) = 1 + c /\ box[1] = line
          /\ \A i \in 1 .. c : box[1 + i] = rest[i]
      <3>1. /\ Len(one \o rest) = Len(one) + Len(rest)
            /\ \A i \in 1 .. Len(one) : (one \o rest)[i] = one[i]
            /\ \A i \in 1 .. Len(rest) : (one \o rest)[Len(one) + i] = rest[i]
        BY <1>2, Parts
      <3>2. 1 \in 1 .. Len(one)
        BY <1>5
      <3>3. /\ Len(one \o rest) = 1 + c /\ (one \o rest)[1] = line
            /\ \A i \in 1 .. c : (one \o rest)[1 + i] = rest[i]
        BY <1>4, <1>5, <3>1, <3>2
      <3> QED BY <1>6, <3>3
    <2>2. /\ pipe \o box \in Seq(Symbols) /\ Len(pipe \o box) = a + (1 + c)
          /\ \A i \in 1 .. a : (pipe \o box)[i] = pipe[i]
          /\ \A i \in 1 .. 1 + c : (pipe \o box)[a + i] = box[i]
      <3>1. /\ pipe \o box \in Seq(Symbols)
            /\ Len(pipe \o box) = Len(pipe) + Len(box)
            /\ \A i \in 1 .. Len(pipe) : (pipe \o box)[i] = pipe[i]
            /\ \A i \in 1 .. Len(box) : (pipe \o box)[Len(pipe) + i] = box[i]
        BY <1>2, Parts
      <3> QED BY <1>4, <2>1, <3>1
    <2>3. 1 \in 1 .. 1 + c /\ a + (1 + c) = (a + 1) + c
      BY <1>4
    <2>4. ASSUME NEW i \in 1 .. c PROVE (pipe \o box)[(a + 1) + i] = rest[i]
      <3>1. 1 + i \in 1 .. 1 + c /\ a + (1 + i) = (a + 1) + i
        BY <1>4
      <3> QED BY <2>1, <2>2, <3>1
    <2> QED BY <2>1, <2>2, <2>3, <2>4
  <1>15. PICK next \in Seq(Symbols) :
           /\ next = pipe \o frame /\ Len(next) = a + f
           /\ \A i \in 1 .. a : next[i] = pipe[i]
           /\ \A i \in 1 .. f : next[a + i] = frame[i]
    <2>1. /\ pipe \o frame \in Seq(Symbols)
          /\ Len(pipe \o frame) = Len(pipe) + Len(frame)
          /\ \A i \in 1 .. Len(pipe) : (pipe \o frame)[i] = pipe[i]
          /\ \A i \in 1 .. Len(frame) : (pipe \o frame)[Len(pipe) + i] = frame[i]
      BY Parts
    <2> QED BY <1>4, <2>1
  <1>16. PICK new \in Seq(Symbols) :
           /\ new = next \o rest /\ Len(new) = (a + f) + c
           /\ \A i \in 1 .. a + f : new[i] = next[i]
           /\ \A i \in 1 .. c : new[(a + f) + i] = rest[i]
    <2>1. /\ next \o rest \in Seq(Symbols)
          /\ Len(next \o rest) = Len(next) + Len(rest)
          /\ \A i \in 1 .. Len(next) : (next \o rest)[i] = next[i]
          /\ \A i \in 1 .. Len(rest) : (next \o rest)[Len(next) + i] = rest[i]
      BY <1>2, Parts
    <2>2. /\ next \o rest \in Seq(Symbols)
          /\ Len(next \o rest) = (a + f) + c
          /\ \A i \in 1 .. a + f : (next \o rest)[i] = next[i]
          /\ \A i \in 1 .. c : (next \o rest)[(a + f) + i] = rest[i]
      <3>1. Len(next) = a + f /\ Len(rest) = c
        BY <1>4, <1>15
      <3> HIDE <1>4, <1>15
      <3> QED BY <2>1, <3>1
    <2> QED BY <2>2
  <1>17. \A i \in 1 .. (a + 1) + c : old[i] = DoneData =>
           succeeded /\ \A j \in 1 .. (a + 1) + c : i < j => ~IsData(old[j])
    BY <1>14 DEF DoneLast
  <1>18. \A i \in 1 .. a : old[i] # DoneData
    <2> SUFFICES ASSUME NEW i \in 1 .. a, old[i] = DoneData PROVE FALSE
      OBVIOUS
    <2>1. i \in 1 .. (a + 1) + c /\ a + 1 \in 1 .. (a + 1) + c /\ i < a + 1
      BY <1>4
    <2>2. ~IsData(old[a + 1])
      BY <1>17, <2>1
    <2> QED BY <1>14, <2>2, DataIsData
  <1>19. ASSUME NEW i \in 1 .. (a + f) + c, new[i] = DoneData
         PROVE  succeeded /\ \A j \in 1 .. (a + f) + c : i < j => ~IsData(new[j])
    <2>1. i \in 1 .. a \/ i - a \in 1 .. f \/ i - (a + f) \in 1 .. c
      BY <1>4
    <2>2. CASE i \in 1 .. a
      <3>1. i \in 1 .. a + f
        BY <1>4, <2>2
      <3>2. new[i] = old[i]
        BY <1>14, <1>15, <1>16, <2>2, <3>1
      <3> QED BY <1>18, <1>19, <2>2, <3>2
    <2>3. CASE i - a \in 1 .. f
      <3>1. i \in 1 .. a + f /\ a + (i - a) = i
        BY <1>4, <2>3
      <3>2. frame[i - a] = DoneData
        BY <1>15, <1>16, <1>19, <2>3, <3>1
      <3>3. line = DoneData
        BY <1>3, <1>4, <2>3, <3>2
      <3>4. frame = <<DoneData, LF, LF>>
        BY <1>3, <3>3
      <3>5. f = 3 /\ frame[1] = DoneData /\ frame[2] = LF /\ frame[3] = LF
        BY <1>4, <3>4
      <3>6. LF # DoneData /\ ~IsData(LF)
        BY NoData, IsLastData
      <3>7. i - a = 1
        <4>1. i - a = 1 \/ i - a = 2 \/ i - a = 3
          BY <2>3, <3>5
        <4> QED BY <3>2, <3>5, <3>6, <4>1
      <3>8. a + 1 \in 1 .. (a + 1) + c
        BY <1>4
      <3>9. succeeded /\ \A j \in 1 .. (a + 1) + c : a + 1 < j => ~IsData(old[j])
        BY <1>14, <1>17, <3>3, <3>8
      <3>10. c = 0
        <4> SUFFICES ASSUME c # 0 PROVE FALSE
          OBVIOUS
        <4>1. 1 \in 1 .. c /\ (a + 1) + 1 \in 1 .. (a + 1) + c /\ a + 1 < (a + 1) + 1
          BY <1>4
        <4>2. ~IsData(old[(a + 1) + 1])
          BY <3>9, <4>1
        <4>3. ~IsData(rest[1])
          BY <1>14, <4>1, <4>2
        <4> QED BY <1>2, <1>4, <4>1, <4>3
      <3>11. ASSUME NEW j \in 1 .. (a + f) + c, i < j PROVE ~IsData(new[j])
        <4>0. i = a + 1 /\ (a + f) + c = a + 3
          BY <1>4, <3>1, <3>5, <3>7, <3>10
        <4>1. j \in Int /\ i < j /\ j <= (a + f) + c
          BY <1>4, <3>11
        <4>2. j = a + 2 \/ j = a + 3
          <5>1. PICK k \in Int : k = j
            BY <4>1
          <5>2. a + 1 < k /\ k <= a + 3
            BY <4>0, <4>1, <5>1
          <5>3. k = a + 2 \/ k = a + 3
            BY <1>4, <5>2
          <5> QED BY <5>1, <5>3
        <4>3. 2 \in 1 .. f /\ 3 \in 1 .. f /\ a + 2 \in 1 .. a + f /\ a + 3 \in 1 .. a + f
          BY <1>4, <3>5
        <4>4. new[a + 2] = LF /\ new[a + 3] = LF
          BY <1>15, <1>16, <3>5, <4>3
        <4> QED BY <3>6, <4>2, <4>4
      <3> QED BY <3>9, <3>11
    <2>4. CASE i - (a + f) \in 1 .. c
      <3>1. PICK k \in 1 .. c : k = i - (a + f)
        BY <2>4
      <3>2. i = (a + f) + k /\ (a + 1) + k \in 1 .. (a + 1) + c
        BY <1>4, <3>1
      <3>3. old[(a + 1) + k] = DoneData
        BY <1>14, <1>16, <1>19, <3>2
      <3>4. succeeded /\ \A j \in 1 .. (a + 1) + c : (a + 1) + k < j => ~IsData(old[j])
        BY <1>17, <3>2, <3>3
      <3>5. ASSUME NEW j \in 1 .. (a + f) + c, i < j PROVE ~IsData(new[j])
        <4>1. PICK m2 \in 1 .. c : j = (a + f) + m2 /\ k < m2
          <5>1. j - (a + f) \in 1 .. c /\ j = (a + f) + (j - (a + f)) /\ k < j - (a + f)
            BY <1>4, <3>2, <3>5
          <5> QED BY <5>1
        <4>2. (a + 1) + m2 \in 1 .. (a + 1) + c /\ (a + 1) + k < (a + 1) + m2
          BY <1>4, <4>1
        <4>3. ~IsData(old[(a + 1) + m2])
          BY <3>4, <4>2
        <4> QED BY <1>14, <1>16, <4>1, <4>3
      <3> QED BY <3>4, <3>5
    <2> QED BY <2>1, <2>2, <2>3, <2>4
  <1>20. DoneLast(new, succeeded)
    BY <1>16, <1>19 DEF DoneLast
  <1>21. ASSUME DoneIn(pipe) PROVE DoneIn(next)
    <2>1. PICK i \in 1 .. a : /\ i + 2 <= a /\ pipe[i] = DoneData
                              /\ pipe[i + 1] = LF /\ pipe[i + 2] = LF
      BY <1>4, <1>21 DEF DoneIn
    <2>2. /\ i \in 1 .. a + f /\ i + 2 <= a + f
          /\ i + 1 \in 1 .. a /\ i + 2 \in 1 .. a
      BY <1>4, <2>1
    <2> QED BY <1>15, <2>1, <2>2 DEF DoneIn
  <1>22. ASSUME DoneAmong(box) PROVE DoneIn(next) \/ DoneAmong(rest)
    <2>1. CASE line = DoneData
      <3>1. frame = <<DoneData, LF, LF>>
        BY <1>3, <2>1
      <3>2. f = 3 /\ frame[1] = DoneData /\ frame[2] = LF /\ frame[3] = LF
        BY <1>4, <3>1
      <3>3. /\ 1 \in 1 .. f /\ 2 \in 1 .. f /\ 3 \in 1 .. f /\ a + 1 \in 1 .. a + f
            /\ (a + 1) + 1 = a + 2 /\ (a + 1) + 2 = a + 3 /\ (a + 1) + 2 <= a + f
        BY <1>4, <3>2
      <3>4. next[a + 1] = DoneData /\ next[(a + 1) + 1] = LF /\ next[(a + 1) + 2] = LF
        BY <1>15, <3>2, <3>3
      <3>5. a + 1 \in 1 .. Len(next) /\ (a + 1) + 2 <= Len(next)
        BY <1>15, <3>3
      <3> QED BY <3>4, <3>5 DEF DoneIn
    <2>2. CASE line # DoneData
      <3>1. PICK i \in 1 .. Len(box) : box[i] = DoneData
        BY <1>22 DEF DoneAmong
      <3>2. /\ \A k \in 1 .. Len(one) : (one \o rest)[k] = one[k]
            /\ \A k \in 1 .. Len(rest) : (one \o rest)[Len(one) + k] = rest[k]
            /\ \A k \in 1 .. Len(one \o rest) : k \in 1 .. Len(one) \/ k - Len(one) \in 1 .. Len(rest)
        BY <1>2, Parts
      <3>3. i # 1
        <4>1. 1 \in 1 .. Len(one)
          BY <1>5
        <4> QED BY <1>5, <1>6, <2>2, <3>1, <3>2, <4>1
      <3>4. i - 1 \in 1 .. Len(rest) /\ 1 + (i - 1) = i
        <4>1. i \notin 1 .. 1
          BY <3>3
        <4> QED BY <1>5, <1>6, <3>1, <3>2, <4>1
      <3>5. rest[i - 1] = DoneData
        BY <1>5, <1>6, <3>1, <3>2, <3>4
      <3> QED BY <3>4, <3>5 DEF DoneAmong
    <2> QED BY <2>1, <2>2
  <1>23. next = pipe \o Frame(Head(box)) /\ rest = Tail(box) /\ new = (pipe \o Frame(Head(box))) \o Tail(box)
    BY <1>1, <1>3, <1>15, <1>16
  <1>24. Said(new).text = Said(pipe \o box).text /\ Said(new).tokens = Said(pipe \o box).tokens
    BY <1>13, <1>15, <1>16
  <1> QED BY <1>20, <1>21, <1>22, <1>23, <1>24

LEMMA Associates ==
  ASSUME NEW p \in Seq(Symbols), NEW q \in Seq(Symbols), NEW r \in Seq(Symbols)
  PROVE  (p \o q) \o r = p \o (q \o r)
  BY ConcatAssociative

(* The symbols up to the end of the first frame, and those after it.           *)
LEMMA FirstFrame ==
  ASSUME NEW symbols \in Seq(Symbols), NEW cut \in Boundary(symbols)
  PROVE  \E frame \in Seq(Symbols), first \in Seq(Symbols), unread \in Seq(Symbols) :
           /\ frame = SubSeq(symbols, 1, cut[1])
           /\ unread = SubSeq(symbols, cut[2] + 1, Len(symbols))
           /\ symbols = first \o unread
           /\ Said(first).text = Said(frame).text /\ Said(first).tokens = Said(frame).tokens
           /\ DoneData \in ToSet(frame) <=> DoneAmong(first)
  <1>1. PICK n \in Nat, e \in Nat :
          /\ n = cut[1] /\ e = cut[2] /\ n < e /\ e <= Len(symbols)
          /\ \A j \in 1 .. Len(symbols) : n < j /\ j <= e => ~IsData(symbols[j])
    BY CutsAtALineEnd
  <1>a. n < e /\ e <= Len(symbols)
    BY <1>1
  <1>b. \A j \in 1 .. Len(symbols) : n < j /\ j <= e => ~IsData(symbols[j])
    BY <1>1
  <1>2. PICK size \in Nat : size = Len(symbols)
    BY LenProperties
  <1>3. e \in 0 .. Len(symbols) /\ n \in 0 .. Len(symbols)
    BY <1>a, <1>b, <1>2
  <1>4. PICK first \in Seq(Symbols), unread \in Seq(Symbols) :
          /\ unread = SubSeq(symbols, e + 1, Len(symbols))
          /\ Len(first) = e /\ \A i \in 1 .. e : first[i] = symbols[i]
          /\ first \o unread = symbols
    <2>1. /\ SubSeq(symbols, 1, e) \in Seq(Symbols) /\ Len(SubSeq(symbols, 1, e)) = e
          /\ \A i \in 1 .. e : SubSeq(symbols, 1, e)[i] = symbols[i]
          /\ SubSeq(symbols, e + 1, Len(symbols)) \in Seq(Symbols)
          /\ SubSeq(symbols, 1, e) \o SubSeq(symbols, e + 1, Len(symbols)) = symbols
      BY <1>3, CutAt
    <2> QED BY <2>1
  <1>5. PICK frame \in Seq(Symbols) :
          /\ frame = SubSeq(symbols, 1, n) /\ Len(frame) = n
          /\ \A i \in 1 .. n : frame[i] = symbols[i]
    <2>1. /\ SubSeq(symbols, 1, n) \in Seq(Symbols) /\ Len(SubSeq(symbols, 1, n)) = n
          /\ \A i \in 1 .. n : SubSeq(symbols, 1, n)[i] = symbols[i]
      BY <1>3, CutAt
    <2> QED BY <2>1
  <1>6. PICK own \in Seq(Symbols), end \in Seq(Symbols) :
          /\ Len(own) = n /\ \A i \in 1 .. n : own[i] = first[i]
          /\ Len(end) = e - n /\ \A i \in 1 .. e - n : end[i] = first[n + i]
          /\ own \o end = first
    <2>1. n \in 0 .. Len(first)
      BY <1>a, <1>b, <1>4
    <2>2. /\ SubSeq(first, 1, n) \in Seq(Symbols) /\ Len(SubSeq(first, 1, n)) = n
          /\ \A i \in 1 .. n : SubSeq(first, 1, n)[i] = first[i]
          /\ SubSeq(first, n + 1, Len(first)) \in Seq(Symbols)
          /\ Len(SubSeq(first, n + 1, Len(first))) = Len(first) - n
          /\ \A i \in 1 .. Len(first) - n : SubSeq(first, n + 1, Len(first))[i] = first[n + i]
          /\ SubSeq(first, 1, n) \o SubSeq(first, n + 1, Len(first)) = first
      BY <2>1, CutAt
    <2> QED BY <1>4, <2>2
  <1>7. own = frame
    <2>1. \A i \in 1 .. n : i \in 1 .. e
      BY <1>a, <1>b
    <2>2. \A i \in 1 .. n : own[i] = frame[i]
      BY <1>4, <1>5, <1>6, <2>1
    <2> QED BY <1>5, <1>6, <2>2, SeqEqual
  <1>8. Said(end).text = <<>> /\ Said(end).tokens = 0
    <2>1. ASSUME NEW i \in 1 .. Len(end) PROVE ~IsData(end[i])
      <3>1. i \in 1 .. e - n /\ n + i \in 1 .. e /\ n + i \in 1 .. Len(symbols) /\ n < n + i /\ n + i <= e
        BY <1>a, <1>b, <1>2, <1>6
      <3>2. end[i] = symbols[n + i]
        BY <1>4, <1>6, <3>1
      <3> QED BY <1>a, <1>b, <3>1, <3>2
    <2> QED BY <2>1, SaidNothing
  <1>9. Said(first).text = Said(frame).text /\ Said(first).tokens = Said(frame).tokens
    <2>1. /\ Said(own \o end).text = Said(own).text \o Said(end).text
          /\ Said(own \o end).tokens = Said(own).tokens + Said(end).tokens
      BY SaidConcat
    <2>2. PICK text \in Seq(Characters), count \in Nat : text = Said(own).text /\ count = Said(own).tokens
      BY SaidIs
    <2>3. text \o <<>> = text /\ count + 0 = count
      BY ConcatEmptySeq
    <2> QED BY <1>6, <1>7, <1>8, <2>1, <2>2, <2>3
  <1>10. DoneData \in ToSet(frame) <=> DoneAmong(first)
    <2>0. DOMAIN frame = 1 .. n
      BY <1>5, LenProperties
    <2>1. ASSUME DoneData \in ToSet(frame) PROVE DoneAmong(first)
      <3>1. PICK i \in 1 .. n : frame[i] = DoneData
        BY <2>0, <2>1 DEF ToSet
      <3>2. i \in 1 .. e
        BY <1>a, <1>b
      <3> QED BY <1>4, <1>5, <3>1, <3>2 DEF DoneAmong
    <2>2. ASSUME DoneAmong(first) PROVE DoneData \in ToSet(frame)
      <3>1. PICK i \in 1 .. e : first[i] = DoneData
        BY <1>4, <2>2 DEF DoneAmong
      <3>2. symbols[i] = DoneData /\ i \in 1 .. Len(symbols)
        BY <1>a, <1>b, <1>2, <1>4, <3>1
      <3>3. i \in 1 .. n
        BY <1>a, <1>b, <3>2, IsLastData
      <3>4. frame[i] = DoneData
        BY <1>5, <3>2, <3>3
      <3> QED BY <2>0, <3>3, <3>4 DEF ToSet
    <2> QED BY <2>1, <2>2
  <1> QED BY <1>1, <1>4, <1>5, <1>9, <1>10

(* What was read is no longer ahead; [DONE] stays last, or was read.           *)
LEMMA Reads ==
  ASSUME NEW first \in Seq(Symbols), NEW after \in Seq(Symbols), NEW succeeded,
         DoneLast(first \o after, succeeded)
  PROVE  /\ DoneLast(after, succeeded)
         /\ DoneAmong(first) => succeeded /\ Said(after).text = <<>> /\ Said(after).tokens = 0
  <1>1. PICK a \in Nat, b \in Nat : a = Len(first) /\ b = Len(after)
    BY LenProperties
  <1>2. PICK all \in Seq(Symbols) :
          /\ all = first \o after /\ Len(all) = a + b
          /\ \A i \in 1 .. a : all[i] = first[i]
          /\ \A i \in 1 .. b : all[a + i] = after[i]
    <2>1. /\ first \o after \in Seq(Symbols)
          /\ Len(first \o after) = Len(first) + Len(after)
          /\ \A i \in 1 .. Len(first) : (first \o after)[i] = first[i]
          /\ \A i \in 1 .. Len(after) : (first \o after)[Len(first) + i] = after[i]
      BY Parts
    <2> QED BY <1>1, <2>1
  <1>3. \A i \in 1 .. a + b : all[i] = DoneData =>
          succeeded /\ \A j \in 1 .. a + b : i < j => ~IsData(all[j])
    BY <1>2 DEF DoneLast
  <1>4. ASSUME NEW i \in 1 .. b, after[i] = DoneData
        PROVE  succeeded /\ \A j \in 1 .. b : i < j => ~IsData(after[j])
    <2>1. a + i \in 1 .. a + b /\ all[a + i] = DoneData
      BY <1>2, <1>4
    <2>2. succeeded /\ \A j \in 1 .. a + b : a + i < j => ~IsData(all[j])
      BY <1>3, <2>1
    <2>3. ASSUME NEW j \in 1 .. b, i < j PROVE ~IsData(after[j])
      <3>1. a + j \in 1 .. a + b /\ a + i < a + j
        BY <2>3
      <3> QED BY <1>2, <2>2, <3>1
    <2> QED BY <2>2, <2>3
  <1>5. ASSUME DoneAmong(first)
        PROVE  succeeded /\ Said(after).text = <<>> /\ Said(after).tokens = 0
    <2>1. PICK i \in 1 .. a : first[i] = DoneData
      BY <1>1, <1>5 DEF DoneAmong
    <2>2. i \in 1 .. a + b /\ all[i] = DoneData
      BY <1>2, <2>1
    <2>3. succeeded /\ \A j \in 1 .. a + b : i < j => ~IsData(all[j])
      BY <1>3, <2>2
    <2>4. ASSUME NEW j \in 1 .. Len(after) PROVE ~IsData(after[j])
      <3>1. j \in 1 .. b /\ a + j \in 1 .. a + b /\ i < a + j
        BY <1>1
      <3> QED BY <1>2, <2>3, <3>1
    <2> QED BY <2>3, <2>4, SaidNothing
  <1> QED BY <1>1, <1>4, <1>5 DEF DoneLast

LEMMA DoneStaysAhead ==
  ASSUME NEW first \in Seq(Symbols), NEW after \in Seq(Symbols),
         DoneIn(first \o after), ~DoneAmong(first)
  PROVE  DoneIn(after)
  <1>1. PICK a \in Nat, b \in Nat : a = Len(first) /\ b = Len(after)
    BY LenProperties
  <1>2. PICK all \in Seq(Symbols) :
          /\ all = first \o after /\ Len(all) = a + b
          /\ \A i \in 1 .. a : all[i] = first[i]
          /\ \A i \in 1 .. b : all[a + i] = after[i]
    <2>1. /\ first \o after \in Seq(Symbols)
          /\ Len(first \o after) = Len(first) + Len(after)
          /\ \A i \in 1 .. Len(first) : (first \o after)[i] = first[i]
          /\ \A i \in 1 .. Len(after) : (first \o after)[Len(first) + i] = after[i]
      BY Parts
    <2> QED BY <1>1, <2>1
  <1>3. PICK i \in 1 .. a + b : /\ i + 2 <= a + b /\ all[i] = DoneData
                                /\ all[i + 1] = LF /\ all[i + 2] = LF
    BY <1>2 DEF DoneIn
  <1>4. i \notin 1 .. a
    BY <1>1, <1>2, <1>3 DEF DoneAmong
  <1>5. PICK k \in 1 .. b : i = a + k
    <2>1. i - a \in 1 .. b /\ i = a + (i - a)
      BY <1>4
    <2> QED BY <2>1
  <1>6. k + 1 \in 1 .. b /\ k + 2 \in 1 .. b /\ k + 2 <= b /\ i + 1 = a + (k + 1) /\ i + 2 = a + (k + 2)
    BY <1>3, <1>5
  <1>7. after[k] = DoneData /\ after[k + 1] = LF /\ after[k + 2] = LF
    BY <1>2, <1>3, <1>5, <1>6
  <1> QED BY <1>1, <1>6, <1>7 DEF DoneIn

-----------------------------------------------------------------------------
(* The invariant of the stream.                                                *)

StreamTypes ==
  /\ kind \in {"stream", "collect"}
  /\ engine \in {"running", "length", "stop", "error", "dropped"}
  /\ queued \in Nat /\ sent \in 0 .. MaxTokens
  /\ responseDone \in BOOLEAN
  /\ handler \in {"receiving", "returned", "dropped"}
  /\ outbox \in Seq(DataSymbols)
  /\ wire \in Seq(Symbols) /\ buffer \in Seq(Symbols)
  /\ shown \in Seq(Characters) /\ counted \in Nat
  /\ client \in {"reading", "done", "failed", "gone"}

ResponseInv == FilterInv /\ StreamTypes /\ StreamParts

(* The places the lines of the stream are in.                                  *)
LEMMA OnTheWay ==
  ASSUME StreamTypes
  PROVE  /\ Pipe \in Seq(Symbols) /\ outbox \in Seq(Symbols) /\ Ahead \in Seq(Symbols)
         /\ Said(Ahead).text = Said(Pipe).text \o Said(outbox).text
         /\ Said(Ahead).tokens = Said(Pipe).tokens + Said(outbox).tokens
  <1>1. PICK p \in Seq(Symbols), q \in Seq(Symbols) : p = Pipe /\ q = outbox
    <2>1. buffer \o wire \in Seq(Symbols)
      BY ConcatProperties DEF StreamTypes
    <2>2. outbox \in Seq(Symbols)
      BY DataIsData, SeqMonotonic DEF StreamTypes
    <2> QED BY <2>1, <2>2 DEF Pipe
  <1>2. /\ p \o q \in Seq(Symbols)
        /\ Said(p \o q).text = Said(p).text \o Said(q).text
        /\ Said(p \o q).tokens = Said(p).tokens + Said(q).tokens
    BY SaidConcat
  <1> QED BY <1>1, <1>2 DEF Ahead

(* While the response goes on nothing waits to be yielded that is data, and no *)
(* [DONE] is in the pipe.                                                      *)
LEMMA NotDoneYet ==
  ASSUME StreamTypes, DoneIsLast, Answering, outbox = <<>>, status = "open"
  PROVE  /\ \A i \in 1 .. Len(Pipe) : Pipe[i] # DoneData
         /\ Ahead = Pipe
  <1>1. PICK p \in Seq(Symbols) : p = Pipe
    BY OnTheWay
  <1>2. p \o <<>> = p
    BY ConcatEmptySeq
  <1>3. Ahead = p
    BY <1>1, <1>2 DEF Ahead
  <1>4. ~Succeeded
    BY DEF Succeeded
  <1>5. DoneLast(p, Succeeded)
    BY <1>3 DEF DoneIsLast
  <1> QED BY <1>1, <1>3, <1>4, <1>5 DEF DoneLast

LEMMA FragmentContinues ==
  ASSUME emitted \in Seq(Characters), emitted' \in Seq(Characters), IsPrefix(emitted, emitted')
  PROVE  Fragment \in Seq(Characters) /\ emitted \o Fragment = emitted'
  <1>1. PICK s \in Seq(Characters), t \in Seq(Characters) : s = emitted /\ t = emitted'
    OBVIOUS
  <1>2. PICK n \in Nat : n = Len(s)
    BY LenProperties
  <1>3. n \in 0 .. Len(t) /\ \A i \in 1 .. n : s[i] = t[i]
    <2>1. Len(s) <= Len(t) /\ \A i \in 1 .. Len(s) : s[i] = t[i]
      BY <1>1, PrefixMeans
    <2>2. Len(t) \in Nat
      BY LenProperties
    <2> QED BY <1>2, <2>1, <2>2
  <1>4. /\ SubSeq(t, 1, n) \in Seq(Characters) /\ Len(SubSeq(t, 1, n)) = n
        /\ \A i \in 1 .. n : SubSeq(t, 1, n)[i] = t[i]
        /\ SubSeq(t, n + 1, Len(t)) \in Seq(Characters)
        /\ SubSeq(t, 1, n) \o SubSeq(t, n + 1, Len(t)) = t
    BY <1>3, CutAt
  <1>5. SubSeq(t, 1, n) = s
    <2>1. \A i \in 1 .. n : SubSeq(t, 1, n)[i] = s[i]
      BY <1>3, <1>4
    <2> QED BY <1>2, <1>4, <2>1, SeqEqual
  <1>6. Fragment = SubSeq(t, n + 1, Len(t))
    BY <1>1, <1>2 DEF Fragment
  <1> QED BY <1>1, <1>4, <1>5, <1>6

LEMMA SaidInTurn ==
  ASSUME NEW x \in Seq(Characters), NEW y \in Seq(Characters), NEW z \in Seq(Characters),
         NEW l \in Nat, NEW m \in Nat, NEW n \in Nat
  PROVE  (x \o y) \o z = x \o (y \o z) /\ (l + m) + n = l + (m + n)
  BY ConcatAssociative

(* A text, and what two parts go on to say.                                    *)
LEMMA TellsMore ==
  ASSUME NEW given \in Seq(Characters), NEW told \in Nat,
         NEW p \in Seq(Symbols), NEW q \in Seq(Symbols)
  PROVE  /\ given \o Said(p \o q).text = (given \o Said(p).text) \o Said(q).text
         /\ told + Said(p \o q).tokens = (told + Said(p).tokens) + Said(q).tokens
  <1>1. PICK x \in Seq(Characters), y \in Seq(Characters), l \in Nat, m \in Nat :
          x = Said(p).text /\ y = Said(q).text /\ l = Said(p).tokens /\ m = Said(q).tokens
    BY SaidIs
  <1>2. (given \o x) \o y = given \o (x \o y) /\ (told + l) + m = told + (l + m)
    BY SaidInTurn
  <1>3. Said(p \o q).text = Said(p).text \o Said(q).text /\ Said(p \o q).tokens = Said(p).tokens + Said(q).tokens
    BY SaidConcat
  <1> QED BY <1>1, <1>2, <1>3

LEMMA PrefixOfPrefix ==
  ASSUME NEW s \in Seq(Characters), NEW t \in Seq(Characters), NEW u \in Seq(Characters),
         IsPrefix(s, t), IsPrefix(t, u)
  PROVE  IsPrefix(s, u)
  <1>1. Len(s) \in Nat /\ Len(t) \in Nat /\ Len(u) \in Nat
    BY LenProperties
  <1>2. /\ Len(s) <= Len(t) /\ \A i \in 1 .. Len(s) : s[i] = t[i]
        /\ Len(t) <= Len(u) /\ \A i \in 1 .. Len(t) : t[i] = u[i]
    BY PrefixMeans
  <1>3. \A i \in 1 .. Len(s) : i \in 1 .. Len(t)
    BY <1>1, <1>2
  <1>4. Len(s) <= Len(u)
    BY <1>1, <1>2
  <1>5. \A i \in 1 .. Len(s) : s[i] = u[i]
    BY <1>2, <1>3
  <1> QED BY <1>4, <1>5, PrefixMeans

LEMMA BeginsWith ==
  ASSUME NEW s \in Seq(Characters), NEW t \in Seq(Characters)
  PROVE  IsPrefix(s, s \o t) /\ s \o t \in Seq(Characters)
  <1>1. PICK a \in Nat, b \in Nat : a = Len(s) /\ b = Len(t)
    BY LenProperties
  <1>2. /\ s \o t \in Seq(Characters) /\ Len(s \o t) = Len(s) + Len(t)
        /\ \A i \in 1 .. Len(s) : (s \o t)[i] = s[i]
    BY Parts
  <1>3. PICK u \in Seq(Characters) : u = s \o t
    BY <1>2
  <1>4. Len(s) <= Len(u) /\ \A i \in 1 .. Len(s) : s[i] = u[i]
    BY <1>1, <1>2, <1>3
  <1>5. IsPrefix(s, u)
    BY <1>4, PrefixMeans
  <1> QED BY <1>3, <1>5

(* Nothing but the engine's own state changes, and it was running.             *)
LEMMA EngineSteps ==
  ASSUME ResponseInv, Engine
  PROVE  ResponseInv'
  <1>1. /\ UNCHANGED <<vars, responseDone, handler, outbox, clientVars, kind>>
        /\ engine = "running"
    BY DEF Engine, EngineSends, EngineEnds
  <1>2. /\ stops' = stops /\ bytes' = bytes /\ received' = received /\ emitted' = emitted /\ status' = status
        /\ responseDone' = responseDone /\ handler' = handler /\ outbox' = outbox /\ wire' = wire
        /\ buffer' = buffer /\ shown' = shown /\ counted' = counted /\ client' = client /\ kind' = kind
    BY <1>1 DEF vars, clientVars
  <1>3. /\ queued' \in Nat /\ sent' \in 0 .. MaxTokens
        /\ engine' \in {"running", "length", "stop", "error", "dropped"}
    <2>1. queued \in Nat /\ sent \in 0 .. MaxTokens /\ MaxTokens \in Nat
      BY TextOutputFilterAssumption DEF ResponseInv, StreamTypes
    <2>2. CASE EngineSends
      BY <2>1, <2>2 DEF EngineSends
    <2>3. CASE \E how \in {"stop", "error", "dropped"} : EngineEnds(how)
      BY <2>1, <2>3 DEF EngineEnds
    <2> QED BY <2>2, <2>3 DEF Engine
  <1>4. FilterInv' /\ StreamTypes'
    BY <1>2, <1>3 DEF ResponseInv, FilterInv, FilterTypes, StreamTypes
  <1>5. Signalled' /\ NothingLost' /\ DoneIsLast' /\ Collected' /\ Answered' /\ Handling'
    BY <1>2 DEF ResponseInv, StreamParts, Signalled, NothingLost, DoneIsLast, Collected, Answered, Handling,
                Answering, Ahead, Pipe, Succeeded
  <1>6. FailuresAreTheEngines'
    BY <1>1, <1>2 DEF ResponseInv, StreamParts, FailuresAreTheEngines
  <1> QED BY <1>4, <1>5, <1>6 DEF ResponseInv, StreamParts

(* A streaming handler that goes on to yield what it has to say.               *)
LEMMA SaysStreaming ==
  ASSUME ResponseInv, FilterInv', StreamTypes',
         kind = "stream", kind' = "stream", Receiving, Signal,
         UNCHANGED <<engine, handler, wire, buffer, shown, counted, client>>,
         NEW text \in Seq(Characters), NEW count \in Nat,
         text = Said(outbox').text, count = Said(outbox').tokens,
         emitted' = emitted \o text, received' = received + count,
         \A i \in 1 .. Len(outbox') :
           outbox'[i] = DoneData => Succeeded' /\ i = Len(outbox'),
         Succeeded' => DoneAmong(outbox'),
         status' = "failed" => engine \in {"error", "dropped"}
  PROVE  ResponseInv'
  <1>1. /\ engine' = engine /\ handler' = handler /\ wire' = wire /\ buffer' = buffer
        /\ shown' = shown /\ counted' = counted /\ client' = client
        /\ handler = "receiving" /\ outbox = <<>> /\ status = "open"
    BY DEF Receiving
  <1>2. /\ Signalled /\ NothingLost /\ DoneIsLast /\ Answered /\ FailuresAreTheEngines
        /\ StreamTypes /\ FilterInv
    BY DEF ResponseInv, StreamParts
  <1>3. ~Succeeded /\ client # "done"
    BY <1>1, <1>2 DEF Succeeded, Answered
  <1>4. Signalled'
    BY <1>1, <1>2 DEF Signalled, Signal
  <1>5. NothingLost' /\ DoneIsLast'
    <2> SUFFICES ASSUME Answering' PROVE NothingLost' /\ DoneIsLast'
      BY DEF NothingLost, DoneIsLast
    <2>1. Answering
      BY <1>1 DEF Answering
    <2>2. PICK pipe \in Seq(Symbols), frames \in Seq(Symbols), succeeded \in BOOLEAN :
            /\ pipe = Pipe /\ Pipe' = Pipe /\ frames = outbox' /\ succeeded = Succeeded'
            /\ \A i \in 1 .. Len(pipe) : pipe[i] # DoneData
            /\ Ahead = pipe
      <3>1. Pipe \in Seq(Symbols)
        BY <1>2, OnTheWay
      <3>2. outbox' \in Seq(Symbols)
        BY DataIsData, SeqMonotonic DEF StreamTypes
      <3>3. (\A i \in 1 .. Len(Pipe) : Pipe[i] # DoneData) /\ Ahead = Pipe
        BY <1>1, <1>2, <2>1, NotDoneYet
      <3>4. Pipe' = Pipe
        BY <1>1 DEF Pipe
      <3>5. Succeeded' \in BOOLEAN
        BY DEF Succeeded
      <3> QED BY <3>1, <3>2, <3>3, <3>4, <3>5
    <2>3. Ahead' = pipe \o frames
      BY <2>2 DEF Ahead
    <2>4. \A i \in 1 .. Len(frames) : frames[i] = DoneData => succeeded /\ i = Len(frames)
      BY <2>2
    <2>5. DoneLast(pipe \o frames, succeeded)
      BY <2>2, <2>4, Queues
    <2>6. DoneIsLast'
      BY <2>2, <2>3, <2>5 DEF DoneIsLast
    <2>7. shown \in Seq(Characters) /\ counted \in Nat
      BY <1>2 DEF StreamTypes
    <2>8. emitted = shown \o Said(pipe).text /\ received = counted + Said(pipe).tokens
      BY <1>2, <2>1, <2>2 DEF NothingLost
    <2>9. /\ shown \o Said(pipe \o frames).text = (shown \o Said(pipe).text) \o Said(frames).text
          /\ counted + Said(pipe \o frames).tokens = (counted + Said(pipe).tokens) + Said(frames).tokens
      BY <2>7, TellsMore
    <2>10. emitted' = shown \o Said(pipe \o frames).text /\ received' = counted + Said(pipe \o frames).tokens
      BY <2>2, <2>8, <2>9
    <2>11. NothingLost'
      BY <1>1, <2>3, <2>10 DEF NothingLost
    <2> QED BY <2>6, <2>11
  <1>6. Collected'
    BY DEF Collected
  <1>7. Answered'
    <2>1. IsPrefix(shown, emitted)
      BY <1>2 DEF Answered
    <2>2. shown \in Seq(Characters) /\ emitted \in Seq(Characters) /\ emitted' \in Seq(Characters)
      BY <1>2 DEF StreamTypes, FilterInv, FilterTypes
    <2>3. IsPrefix(emitted, emitted')
      BY <2>2, BeginsWith
    <2>4. IsPrefix(shown, emitted')
      BY <2>1, <2>2, <2>3, PrefixOfPrefix
    <2> QED BY <1>1, <1>3, <2>4 DEF Answered
  <1>8. FailuresAreTheEngines'
    BY <1>1, <1>2 DEF FailuresAreTheEngines
  <1>9. Handling'
    BY <1>1, <1>2 DEF ResponseInv, StreamParts, Handling
  <1> QED BY <1>4, <1>5, <1>6, <1>7, <1>8, <1>9 DEF ResponseInv, StreamParts

(* A collecting handler, which keeps the text to itself until it returns.      *)
LEMMA SaysCollecting ==
  ASSUME ResponseInv, FilterInv', StreamTypes',
         kind = "collect", kind' = "collect", Receiving, Signal,
         UNCHANGED <<engine, outbox, wire, buffer, client>>,
         shown' = shown \o Fragment, counted' = received',
         handler' = IF status' = "open" THEN handler ELSE "returned",
         IsPrefix(emitted, emitted'),
         status' = "failed" => engine \in {"error", "dropped"}
  PROVE  ResponseInv'
  <1>1. /\ engine' = engine /\ outbox' = outbox /\ wire' = wire /\ buffer' = buffer /\ client' = client
        /\ handler = "receiving" /\ outbox = <<>> /\ status = "open"
    BY DEF Receiving
  <1>2. /\ Signalled /\ Collected /\ Answered /\ FailuresAreTheEngines /\ Handling
        /\ StreamTypes /\ FilterInv
    BY DEF ResponseInv, StreamParts
  <1>3. client # "done"
    BY <1>1, <1>2 DEF Succeeded, Answered
  <1>4. emitted \in Seq(Characters) /\ emitted' \in Seq(Characters)
    BY <1>2 DEF FilterInv, FilterTypes
  <1>5. shown' = emitted'
    <2>1. emitted \o Fragment = emitted'
      BY <1>4, FragmentContinues
    <2>2. shown = emitted
      BY <1>2 DEF Collected
    <2> QED BY <2>1, <2>2
  <1>6. Signalled'
    BY <1>1, <1>2 DEF Signalled, Signal
  <1>7. NothingLost' /\ DoneIsLast'
    BY DEF NothingLost, DoneIsLast, Answering
  <1>8. Collected'
    BY <1>1, <1>2, <1>5 DEF Collected
  <1>9. Answered'
    <2>1. PICK text \in Seq(Characters) : text = emitted'
      BY <1>4
    <2>2. IsPrefix(text, text)
      <3>1. Len(text) <= Len(text) /\ \A i \in 1 .. Len(text) : text[i] = text[i]
        BY LenProperties
      <3> QED BY <3>1, PrefixMeans
    <2> QED BY <1>1, <1>3, <1>5, <2>1, <2>2 DEF Answered
  <1>10. FailuresAreTheEngines'
    BY <1>1, <1>2 DEF FailuresAreTheEngines
  <1>11. Handling'
    BY <1>1, <1>2, <1>3 DEF Handling
  <1> QED BY <1>6, <1>7, <1>8, <1>9, <1>10, <1>11 DEF ResponseInv, StreamParts

(* What a handler yields for an event says the text and the token of it.       *)
Reports(frames, text, count, last) ==
  /\ frames \in Seq(DataSymbols)
  /\ Said(frames).text = text /\ Said(frames).tokens = count
  /\ \A i \in 1 .. Len(frames) : frames[i] = DoneData => last /\ i = Len(frames)
  /\ last => DoneAmong(frames)

LEMMA ReportsToken ==
  ASSUME NEW text \in Seq(Characters)
  PROVE  Reports(<<TokenData(text)>>, text, 1, FALSE)
  <1>1. TokenData(text) \in DataSymbols
    BY DEF DataSymbols
  <1>2. PICK line \in DataSymbols : line = TokenData(text)
    BY <1>1
  <1>3. <<line>> \in Seq(DataSymbols)
    OBVIOUS
  <1>4. Len(<<line>>) = 1 /\ <<line>>[1] = line /\ \A i \in 1 .. 1 : i = 1
    OBVIOUS
  <1>5. line # DoneData /\ Adds(line) = text /\ One(line) = 1
    BY <1>2, IsTokenData
  <1>6. Said(<<line>>).text = Adds(line) /\ Said(<<line>>).tokens = One(line)
    <2>1. line \in Symbols
      BY DataIsData
    <2> QED BY <2>1, SaidOne
  <1>7. \A i \in 1 .. Len(<<line>>) : <<line>>[i] # DoneData
    BY <1>4, <1>5
  <1>8. Reports(<<line>>, text, 1, FALSE)
    BY <1>3, <1>5, <1>6, <1>7 DEF Reports
  <1> QED BY <1>2, <1>8

LEMMA ReportsStop ==
  ASSUME NEW text \in Seq(Characters)
  PROVE  Reports(<<TokenData(text), FinalData(<<>>, "stop"), DoneData>>, text, 1, TRUE)
  <1>1. /\ TokenData(text) \in DataSymbols /\ FinalData(<<>>, "stop") \in DataSymbols
        /\ DoneData \in DataSymbols
    <2>1. TokenData(text) \in DataSymbols /\ DoneData \in DataSymbols
      BY DEF DataSymbols
    <2>2. PICK none \in Seq(Characters) : none = <<>>
      BY EmptySeq
    <2>3. FinalData(none, "stop") \in DataSymbols
      BY DEF DataSymbols
    <2> QED BY <2>1, <2>2, <2>3
  <1>2. PICK x \in DataSymbols, y \in DataSymbols, z \in DataSymbols :
          x = TokenData(text) /\ y = FinalData(<<>>, "stop") /\ z = DoneData
    BY <1>1
  <1>3. <<x, y, z>> \in Seq(DataSymbols)
    OBVIOUS
  <1>4. PICK frames \in Seq(DataSymbols) : frames = <<x, y, z>>
    BY <1>3
  <1>5. /\ Len(frames) = 3 /\ frames[1] = x /\ frames[2] = y /\ frames[3] = z
        /\ \A i \in 1 .. 3 : i = 1 \/ i = 2 \/ i = 3
    BY <1>4
  <1>6. /\ x # DoneData /\ Adds(x) = text /\ One(x) = 1
        /\ y # DoneData /\ Adds(y) = <<>> /\ One(y) = 0
        /\ Adds(z) = <<>> /\ One(z) = 0
    BY <1>2, IsTokenData, IsFinalData, IsLastData
  <1>7. Said(frames).text = text /\ Said(frames).tokens = 1
    <2>1. x \in Symbols /\ y \in Symbols /\ z \in Symbols
      BY DataIsData
    <2>2. /\ Said(<<x, y, z>>).text = (Adds(x) \o Adds(y)) \o Adds(z)
          /\ Said(<<x, y, z>>).tokens = (One(x) + One(y)) + One(z)
      BY <2>1, SaidThree
    <2>3. text \o <<>> = text /\ (1 + 0) + 0 = 1
      BY ConcatEmptySeq
    <2> QED BY <1>4, <1>6, <2>2, <2>3
  <1>8. \A i \in 1 .. Len(frames) : frames[i] = DoneData => i = Len(frames)
    BY <1>5, <1>6
  <1>9. DoneAmong(frames)
    <2>1. 3 \in 1 .. Len(frames) /\ frames[3] = DoneData
      BY <1>2, <1>5
    <2> QED BY <2>1 DEF DoneAmong
  <1>10. Reports(frames, text, 1, TRUE)
    BY <1>7, <1>8, <1>9 DEF Reports
  <1> QED BY <1>2, <1>4, <1>10

LEMMA ReportsEnd ==
  ASSUME NEW text \in Seq(Characters), NEW reason \in {"stop", "length"}
  PROVE  Reports(<<FinalData(text, reason), DoneData>>, text, 0, TRUE)
  <1>1. FinalData(text, reason) \in DataSymbols /\ DoneData \in DataSymbols
    BY DEF DataSymbols
  <1>2. PICK x \in DataSymbols, y \in DataSymbols : x = FinalData(text, reason) /\ y = DoneData
    BY <1>1
  <1>3. <<x, y>> \in Seq(DataSymbols)
    OBVIOUS
  <1>4. PICK frames \in Seq(DataSymbols) : frames = <<x, y>>
    BY <1>3
  <1>5. /\ Len(frames) = 2 /\ frames[1] = x /\ frames[2] = y
        /\ \A i \in 1 .. 2 : i = 1 \/ i = 2
    BY <1>4
  <1>6. /\ x # DoneData /\ Adds(x) = text /\ One(x) = 0
        /\ Adds(y) = <<>> /\ One(y) = 0
    BY <1>2, IsFinalData, IsLastData
  <1>7. Said(frames).text = text /\ Said(frames).tokens = 0
    <2>1. x \in Symbols /\ y \in Symbols
      BY DataIsData
    <2>2. Said(<<x, y>>).text = Adds(x) \o Adds(y) /\ Said(<<x, y>>).tokens = One(x) + One(y)
      BY <2>1, SaidTwo
    <2>3. text \o <<>> = text /\ 0 + 0 = 0
      BY ConcatEmptySeq
    <2> QED BY <1>4, <1>6, <2>2, <2>3
  <1>8. \A i \in 1 .. Len(frames) : frames[i] = DoneData => i = Len(frames)
    BY <1>5, <1>6
  <1>9. DoneAmong(frames)
    <2>1. 2 \in 1 .. Len(frames) /\ frames[2] = DoneData
      BY <1>2, <1>5
    <2> QED BY <2>1 DEF DoneAmong
  <1>10. Reports(frames, text, 0, TRUE)
    BY <1>7, <1>8, <1>9 DEF Reports
  <1> QED BY <1>2, <1>4, <1>10

LEMMA ReportsFailure ==
  Reports(<<ErrorData>>, <<>>, 0, FALSE)
  <1>1. ErrorData \in DataSymbols
    BY DEF DataSymbols
  <1>2. PICK line \in DataSymbols : line = ErrorData
    BY <1>1
  <1>3. <<line>> \in Seq(DataSymbols)
    OBVIOUS
  <1>4. Len(<<line>>) = 1 /\ <<line>>[1] = line /\ \A i \in 1 .. 1 : i = 1
    OBVIOUS
  <1>5. line # DoneData /\ Adds(line) = <<>> /\ One(line) = 0
    BY <1>2, IsLastData
  <1>6. Said(<<line>>).text = Adds(line) /\ Said(<<line>>).tokens = One(line)
    <2>1. line \in Symbols
      BY DataIsData
    <2> QED BY <2>1, SaidOne
  <1>7. \A i \in 1 .. Len(<<line>>) : <<line>>[i] # DoneData
    BY <1>4, <1>5
  <1>8. Reports(<<line>>, <<>>, 0, FALSE)
    BY <1>3, <1>5, <1>6, <1>7 DEF Reports
  <1> QED BY <1>2, <1>8

(* Whatever the event, the handler passes on what the filter exposes for it.   *)
LEMMA Handles ==
  ASSUME ResponseInv, FilterInv', Receiving, Signal, IsPrefix(emitted, emitted'),
         UNCHANGED <<engine, sent, wire, buffer, client, kind>>, queued' \in Nat,
         NEW frames, NEW count \in Nat, Handle(frames),
         Reports(frames, Fragment, count, Succeeded'), received' = received + count,
         status' = "failed" => engine \in {"error", "dropped"}
  PROVE  ResponseInv'
  <1>1. /\ engine' = engine /\ sent' = sent /\ wire' = wire /\ buffer' = buffer /\ client' = client
        /\ kind' = kind /\ handler = "receiving" /\ outbox = <<>> /\ status = "open"
    BY DEF Receiving
  <1>2. StreamTypes /\ FilterInv /\ FilterTypes /\ FilterTypes'
    BY DEF ResponseInv, FilterInv
  <1>3. Fragment \in Seq(Characters) /\ emitted \o Fragment = emitted'
    BY <1>2, FragmentContinues DEF FilterTypes
  <1>4. responseDone' \in BOOLEAN
    BY DEF Signal
  <1>5. CASE kind = "stream"
    <2>1. outbox' = frames /\ handler' = handler /\ shown' = shown /\ counted' = counted
      BY <1>5 DEF Handle
    <2>2. outbox' \in Seq(DataSymbols)
      BY <2>1 DEF Reports
    <2>3. StreamTypes'
      BY <1>1, <1>2, <1>4, <2>1, <2>2 DEF StreamTypes
    <2>4. PICK text \in Seq(Characters) : text = Fragment
      BY <1>3
    <2>5. /\ text = Said(outbox').text /\ count = Said(outbox').tokens
          /\ \A i \in 1 .. Len(outbox') : outbox'[i] = DoneData => Succeeded' /\ i = Len(outbox')
          /\ Succeeded' => DoneAmong(outbox')
      BY <2>1, <2>4 DEF Reports
    <2>6. emitted' = emitted \o text
      BY <1>3, <2>4
    <2> QED BY <1>1, <1>5, <2>1, <2>3, <2>5, <2>6, SaysStreaming
  <1>6. CASE kind = "collect"
    <2>1. /\ outbox' = outbox /\ shown' = shown \o Fragment /\ counted' = received'
          /\ handler' = IF status' = "open" THEN handler ELSE "returned"
      BY <1>6 DEF Handle
    <2>2. shown' \in Seq(Characters) /\ counted' \in Nat
      <3>1. shown \o Fragment \in Seq(Characters)
        BY <1>2, <1>3, BeginsWith DEF StreamTypes
      <3>2. received' \in Nat
        BY <1>2, TextOutputFilterAssumption DEF FilterTypes
      <3> QED BY <2>1, <3>1, <3>2
    <2>3. handler' \in {"receiving", "returned", "dropped"}
      BY <1>1, <2>1
    <2>4. StreamTypes'
      BY <1>1, <1>2, <1>4, <2>1, <2>2, <2>3 DEF StreamTypes
    <2> QED BY <1>1, <1>6, <2>1, <2>4, SaysCollecting
  <1> QED BY <1>2, <1>5, <1>6 DEF StreamTypes

LEMMA ReceiveSteps ==
  ASSUME ResponseInv, Receive
  PROVE  ResponseInv'
  <1>1. FilterInv /\ StreamTypes /\ FilterTypes
    BY DEF ResponseInv, FilterInv
  <1>2. Signal /\ UNCHANGED <<wire, buffer, client, kind>>
    BY DEF Receive
  <1>3. CASE ReceiveToken
    <2>1. /\ Receiving /\ queued > 0 /\ queued' = queued - 1 /\ UNCHANGED <<engine, sent>>
          /\ Handle(TokenFrames)
      BY <1>3 DEF ReceiveToken
    <2>2. PICK token \in Tokens : PushToken(token)
      BY <1>3 DEF ReceiveToken
    <2>3. /\ FilterInv' /\ IsPrefix(emitted, emitted')
          /\ received' = received + 1 /\ status' \in {"open", "stop"}
      BY <1>1, <2>2, PushExposes
    <2>4. queued' \in Nat
      BY <1>1, <2>1 DEF StreamTypes
    <2>5. Fragment \in Seq(Characters)
      BY <1>1, <2>3, FragmentContinues DEF FilterInv, FilterTypes
    <2>6. CASE status' = "stop"
      <3>1. TokenFrames = <<TokenData(Fragment), FinalData(<<>>, "stop"), DoneData>>
        BY <2>6 DEF TokenFrames
      <3>2. Succeeded' = TRUE
        BY <2>6 DEF Succeeded
      <3>3. PICK text \in Seq(Characters) : text = Fragment
        BY <2>5
      <3>4. Reports(<<TokenData(text), FinalData(<<>>, "stop"), DoneData>>, text, 1, TRUE)
        BY ReportsStop
      <3>5. Reports(TokenFrames, Fragment, 1, Succeeded')
        BY <3>1, <3>2, <3>3, <3>4
      <3> QED BY <1>2, <2>1, <2>3, <2>4, <2>6, <3>5, Handles
    <2>7. CASE status' = "open"
      <3>1. TokenFrames = <<TokenData(Fragment)>>
        BY <2>7 DEF TokenFrames
      <3>2. Succeeded' = FALSE
        BY <2>7 DEF Succeeded
      <3>3. PICK text \in Seq(Characters) : text = Fragment
        BY <2>5
      <3>4. Reports(<<TokenData(text)>>, text, 1, FALSE)
        BY ReportsToken
      <3>5. Reports(TokenFrames, Fragment, 1, Succeeded')
        BY <3>1, <3>2, <3>3, <3>4
      <3> QED BY <1>2, <2>1, <2>3, <2>4, <2>7, <3>5, Handles
    <2> QED BY <2>3, <2>6, <2>7
  <1>4. CASE ReceiveFinished
    <2>1. /\ Receiving /\ engine \in {"length", "stop"} /\ Finish /\ UNCHANGED engineVars
          /\ Handle(IF status' = "error" THEN <<ErrorData>> ELSE <<FinalData(Fragment, engine), DoneData>>)
      BY <1>4 DEF ReceiveFinished
    <2>2. /\ FilterInv' /\ IsPrefix(emitted, emitted')
          /\ received' = received /\ status' = "finished"
      BY <1>1, <2>1, FinishExposes
    <2>3. /\ engine' = engine /\ sent' = sent /\ queued' \in Nat
      BY <1>1, <2>1 DEF engineVars, StreamTypes
    <2>4. Handle(<<FinalData(Fragment, engine), DoneData>>)
      BY <2>1, <2>2
    <2>5. received' = received + 0
      BY <1>1, <2>2, TextOutputFilterAssumption DEF FilterTypes
    <2>6. Fragment \in Seq(Characters)
      BY <1>1, <2>2, FragmentContinues DEF FilterInv, FilterTypes
    <2>7. PICK text \in Seq(Characters), reason \in {"stop", "length"} : text = Fragment /\ reason = engine
      BY <2>1, <2>6
    <2>8. Reports(<<FinalData(text, reason), DoneData>>, text, 0, TRUE)
      BY ReportsEnd
    <2>9. Succeeded' = TRUE
      BY <2>2 DEF Succeeded
    <2>10. Reports(<<FinalData(Fragment, engine), DoneData>>, Fragment, 0, Succeeded')
      BY <2>7, <2>8, <2>9
    <2> QED BY <1>2, <2>1, <2>2, <2>3, <2>4, <2>5, <2>10, Handles
  <1>5. CASE ReceiveFailure
    <2>1. /\ Receiving /\ Fails /\ UNCHANGED engineVars /\ Handle(<<ErrorData>>)
          /\ status' = "failed" /\ UNCHANGED <<stops, bytes, received, emitted>>
      BY <1>5 DEF ReceiveFailure
    <2>2. status = "open" /\ emitted' = emitted /\ received' = received /\ bytes' = bytes /\ stops' = stops
      BY <2>1 DEF Receiving
    <2>3. FilterInv'
      <3>1. Exposed(stops, bytes, emitted, "open")
        BY <1>1, <2>2 DEF FilterInv
      <3>2. Exposed(stops, bytes, emitted, "failed")
        BY <3>1 DEF Exposed
      <3> QED BY <1>1, <2>1, <2>2, <3>2 DEF FilterInv, FilterTypes
    <2>4. PICK text \in Seq(Characters) : text = emitted
      BY <1>1 DEF FilterTypes
    <2>5. text \o <<>> = text /\ <<>> \in Seq(Characters)
      BY ConcatEmptySeq, EmptySeq
    <2>6. IsPrefix(emitted, emitted')
      BY <2>2, <2>4, <2>5, BeginsWith
    <2>7. Fragment = <<>>
      <3>1. PICK n \in Nat : n = Len(text)
        BY LenProperties
      <3>2. n + 1 \in Int /\ n \in Int /\ n < n + 1
        OBVIOUS
      <3>3. SubSeq(text, n + 1, n) = <<>>
        BY <3>2, SubSeqEmpty
      <3> QED BY <2>2, <2>4, <3>1, <3>3 DEF Fragment
    <2>8. Succeeded' = FALSE
      BY <2>1 DEF Succeeded
    <2>9. Reports(<<ErrorData>>, Fragment, 0, Succeeded')
      BY <2>7, <2>8, ReportsFailure
    <2>10. received' = received + 0
      BY <1>1, <2>2, TextOutputFilterAssumption DEF FilterTypes
    <2>11. engine \in {"error", "dropped"}
      BY <2>1 DEF Fails
    <2>12. engine' = engine /\ sent' = sent /\ queued' \in Nat
      BY <1>1, <2>1 DEF engineVars, StreamTypes
    <2> QED BY <1>2, <2>1, <2>3, <2>6, <2>9, <2>10, <2>11, <2>12, Handles
  <1> QED BY <1>3, <1>4, <1>5 DEF Receive

LEMMA YieldSteps ==
  ASSUME ResponseInv, Yield
  PROVE  ResponseInv'
  <1>1. /\ kind = "stream" /\ handler = "receiving" /\ outbox # <<>>
        /\ Put(Head(outbox)) /\ outbox' = Tail(outbox) /\ status' = status /\ Signal
        /\ stops' = stops /\ bytes' = bytes /\ received' = received /\ emitted' = emitted
        /\ engine' = engine /\ queued' = queued /\ sent' = sent /\ handler' = handler
        /\ buffer' = buffer /\ shown' = shown /\ counted' = counted /\ client' = client /\ kind' = kind
    BY DEF Yield, Polled, engineVars
  <1>2. /\ FilterInv /\ StreamTypes /\ Signalled /\ NothingLost /\ DoneIsLast /\ Answered
        /\ FailuresAreTheEngines /\ Handling
    BY DEF ResponseInv, StreamParts
  <1>3. FilterInv'
    BY <1>1, <1>2 DEF FilterInv, FilterTypes
  <1>4. responseDone' = responseDone
    BY <1>1, <1>2 DEF Signal, Signalled, StreamTypes
  <1>5. PICK pipe \in Seq(Symbols), box \in Seq(DataSymbols) : pipe = Pipe /\ box = outbox
    BY <1>2, OnTheWay DEF StreamTypes
  <1>6. Tail(box) \in Seq(DataSymbols) /\ Frame(Head(box)) \in Seq(Symbols)
    <2>1. Head(box) \in DataSymbols /\ Tail(box) \in Seq(DataSymbols)
      BY <1>1, <1>5, HeadTailProperties
    <2> QED BY <2>1, SaidFrame
  <1>7. wire' \in Seq(Symbols)
    <2>1. wire \in Seq(Symbols)
      BY <1>2 DEF StreamTypes
    <2>2. wire \o Frame(Head(box)) \in Seq(Symbols)
      BY <1>6, <2>1, ConcatProperties
    <2> QED BY <1>1, <1>5, <2>1, <2>2 DEF Put
  <1>8. StreamTypes'
    BY <1>1, <1>2, <1>4, <1>5, <1>6, <1>7 DEF StreamTypes
  <1>9. NothingLost' /\ DoneIsLast'
    <2> SUFFICES ASSUME Answering' PROVE NothingLost' /\ DoneIsLast'
      BY DEF NothingLost, DoneIsLast
    <2>1. Answering /\ client = "reading"
      BY <1>1 DEF Answering
    <2>2. Pipe' = pipe \o Frame(Head(box))
      <3>1. wire' = wire \o Frame(Head(box))
        BY <1>1, <1>5, <2>1 DEF Put
      <3>2. (buffer \o wire) \o Frame(Head(box)) = buffer \o (wire \o Frame(Head(box)))
        BY <1>2, <1>6, Associates DEF StreamTypes
      <3> QED BY <1>1, <1>5, <3>1, <3>2 DEF Pipe
    <2>3. Ahead = pipe \o box /\ Ahead' = (pipe \o Frame(Head(box))) \o Tail(box)
      BY <1>1, <1>5, <2>2 DEF Ahead
    <2>4. Succeeded' = Succeeded
      BY <1>1 DEF Succeeded
    <2>5. PICK succeeded : succeeded = Succeeded
      OBVIOUS
    <2>6. box # <<>> /\ DoneLast(pipe \o box, succeeded)
      BY <1>1, <1>2, <1>5, <2>1, <2>3, <2>5 DEF DoneIsLast
    <2>7. /\ Said((pipe \o Frame(Head(box))) \o Tail(box)).text = Said(pipe \o box).text
          /\ Said((pipe \o Frame(Head(box))) \o Tail(box)).tokens = Said(pipe \o box).tokens
          /\ DoneLast((pipe \o Frame(Head(box))) \o Tail(box), succeeded)
          /\ DoneIn(pipe) \/ DoneAmong(box) => DoneIn(pipe \o Frame(Head(box))) \/ DoneAmong(Tail(box))
      BY <2>6, Puts
    <2>8. NothingLost'
      BY <1>1, <1>2, <2>1, <2>3, <2>7 DEF NothingLost
    <2>9. DoneIsLast'
      BY <1>1, <1>2, <1>5, <2>1, <2>2, <2>3, <2>4, <2>5, <2>7 DEF DoneIsLast
    <2> QED BY <2>8, <2>9
  <1>10. Signalled' /\ FailuresAreTheEngines' /\ Answered'
    BY <1>1, <1>2, <1>4 DEF Signalled, FailuresAreTheEngines, Answered, Succeeded
  <1>11. Collected' /\ Handling'
    BY <1>1, <1>2 DEF Collected, Handling
  <1> QED BY <1>3, <1>8, <1>9, <1>10, <1>11 DEF ResponseInv, StreamParts

LEMMA ReturnSteps ==
  ASSUME ResponseInv, Return
  PROVE  ResponseInv'
  <1>1. /\ outbox = <<>> /\ status # "open" /\ handler' = "returned"
        /\ stops' = stops /\ bytes' = bytes /\ received' = received /\ emitted' = emitted /\ status' = status
        /\ engine' = engine /\ queued' = queued /\ sent' = sent
        /\ responseDone' = responseDone /\ outbox' = outbox /\ wire' = wire
        /\ buffer' = buffer /\ shown' = shown /\ counted' = counted /\ client' = client /\ kind' = kind
    BY DEF Return, vars, engineVars, clientVars
  <1>2. FilterInv' /\ StreamTypes'
    BY <1>1 DEF ResponseInv, FilterInv, FilterTypes, StreamTypes
  <1>3. Signalled' /\ NothingLost' /\ DoneIsLast' /\ Collected' /\ Answered'
    BY <1>1 DEF ResponseInv, StreamParts, Signalled, NothingLost, DoneIsLast, Collected, Answered,
                Answering, Ahead, Pipe, Succeeded
  <1>4. FailuresAreTheEngines' /\ Handling'
    BY <1>1 DEF ResponseInv, StreamParts, FailuresAreTheEngines, Handling
  <1> QED BY <1>2, <1>3, <1>4 DEF ResponseInv, StreamParts

LEMMA CommentSays ==
  /\ Frame(Comment) \in Seq(Symbols)
  /\ Said(Frame(Comment)).text = <<>> /\ Said(Frame(Comment)).tokens = 0
  /\ \A i \in 1 .. Len(Frame(Comment)) : Frame(Comment)[i] # DoneData
  <1>1. Comment # ErrorData /\ Comment # DoneData /\ LF # DoneData
    BY NoData, IsLastData
  <1>2. Frame(Comment) = <<Comment, LF, LF>>
    BY <1>1 DEF Frame
  <1>3. Comment \in Symbols /\ LF \in Symbols
    BY DEF Symbols
  <1>4. PICK x \in Symbols, y \in Symbols : x = Comment /\ y = LF
    BY <1>3
  <1>5. <<x, y, y>> \in Seq(Symbols)
    OBVIOUS
  <1>6. PICK frame \in Seq(Symbols) : frame = <<x, y, y>>
    BY <1>5
  <1>7. /\ Len(frame) = 3 /\ frame[1] = x /\ frame[2] = y /\ frame[3] = y
        /\ \A i \in 1 .. 3 : i = 1 \/ i = 2 \/ i = 3
    BY <1>6
  <1>8. \A i \in 1 .. Len(frame) : ~IsData(frame[i]) /\ frame[i] # DoneData
    BY <1>1, <1>4, <1>7, NoData
  <1>9. Said(frame).text = <<>> /\ Said(frame).tokens = 0
    BY <1>8, SaidNothing
  <1> QED BY <1>2, <1>4, <1>6, <1>8, <1>9

LEMMA KeepAliveSteps ==
  ASSUME ResponseInv, KeepAlive
  PROVE  ResponseInv'
  <1>1. /\ kind = "stream" /\ handler = "receiving" /\ outbox = <<>> /\ status = "open" /\ Put(Comment)
        /\ stops' = stops /\ bytes' = bytes /\ received' = received /\ emitted' = emitted /\ status' = status
        /\ engine' = engine /\ queued' = queued /\ sent' = sent
        /\ responseDone' = responseDone /\ handler' = handler /\ outbox' = outbox
        /\ buffer' = buffer /\ shown' = shown /\ counted' = counted /\ client' = client /\ kind' = kind
    BY DEF KeepAlive, Polled, vars, engineVars
  <1>2. /\ FilterInv /\ StreamTypes /\ NothingLost /\ DoneIsLast
    BY DEF ResponseInv, StreamParts
  <1>3. PICK frame \in Seq(Symbols) :
          /\ frame = Frame(Comment)
          /\ Said(frame).text = <<>> /\ Said(frame).tokens = 0
          /\ \A i \in 1 .. Len(frame) : frame[i] # DoneData
    BY CommentSays
  <1>4. wire \in Seq(Symbols) /\ wire' \in Seq(Symbols)
    <2>1. wire \in Seq(Symbols)
      BY <1>2 DEF StreamTypes
    <2>2. wire \o frame \in Seq(Symbols)
      BY <2>1, ConcatProperties
    <2> QED BY <1>1, <1>3, <2>1, <2>2 DEF Put
  <1>5. FilterInv' /\ StreamTypes'
    BY <1>1, <1>2, <1>4 DEF FilterInv, FilterTypes, StreamTypes
  <1>6. NothingLost' /\ DoneIsLast'
    <2> SUFFICES ASSUME Answering' PROVE NothingLost' /\ DoneIsLast'
      BY DEF NothingLost, DoneIsLast
    <2>1. Answering /\ client = "reading"
      BY <1>1 DEF Answering
    <2>2. PICK pipe \in Seq(Symbols) :
            pipe = Pipe /\ Ahead = pipe /\ \A i \in 1 .. Len(pipe) : pipe[i] # DoneData
      <3>1. Pipe \in Seq(Symbols)
        BY <1>2, OnTheWay
      <3>2. (\A i \in 1 .. Len(Pipe) : Pipe[i] # DoneData) /\ Ahead = Pipe
        BY <1>1, <1>2, <2>1, NotDoneYet
      <3> QED BY <3>1, <3>2
    <2>3. Pipe' = pipe \o frame
      <3>1. wire' = wire \o frame
        BY <1>1, <1>3, <2>1 DEF Put
      <3>2. (buffer \o wire) \o frame = buffer \o (wire \o frame)
        BY <1>2, Associates DEF StreamTypes
      <3> QED BY <1>1, <2>2, <3>1, <3>2 DEF Pipe
    <2>4. PICK next \in Seq(Symbols) :
            /\ next = pipe \o frame
            /\ Said(next).text = Said(pipe).text /\ Said(next).tokens = Said(pipe).tokens
      <3>1. /\ pipe \o frame \in Seq(Symbols)
            /\ Said(pipe \o frame).text = Said(pipe).text \o Said(frame).text
            /\ Said(pipe \o frame).tokens = Said(pipe).tokens + Said(frame).tokens
        BY SaidConcat
      <3>2. PICK text \in Seq(Characters), count \in Nat : text = Said(pipe).text /\ count = Said(pipe).tokens
        BY SaidIs
      <3>3. text \o <<>> = text /\ count + 0 = count
        BY ConcatEmptySeq
      <3> QED BY <1>3, <3>1, <3>2, <3>3
    <2>5. Ahead' = next
      <3>1. next \o <<>> = next
        BY ConcatEmptySeq
      <3> QED BY <1>1, <2>3, <2>4, <3>1 DEF Ahead
    <2>6. NothingLost'
      BY <1>1, <1>2, <2>1, <2>2, <2>4, <2>5 DEF NothingLost
    <2>7. ~Succeeded'
      BY <1>1 DEF Succeeded
    <2>8. DoneLast(pipe \o frame, FALSE)
      BY <1>3, <2>2, Queues
    <2>9. Succeeded' = FALSE
      BY <2>7 DEF Succeeded
    <2>10. DoneIsLast'
      BY <2>4, <2>5, <2>8, <2>9 DEF DoneIsLast
    <2> QED BY <2>6, <2>10
  <1>7. Signalled' /\ FailuresAreTheEngines' /\ Answered' /\ Handling'
    BY <1>1 DEF ResponseInv, StreamParts, Signalled, FailuresAreTheEngines, Answered, Handling, Succeeded
  <1>8. Collected'
    BY <1>1 DEF Collected
  <1> QED BY <1>5, <1>6, <1>7, <1>8 DEF ResponseInv, StreamParts

LEMMA DropSteps ==
  ASSUME ResponseInv, Drop
  PROVE  ResponseInv'
  <1>1. /\ client # "reading" /\ handler' = "dropped" /\ outbox' = <<>> /\ queued' = 0
        /\ stops' = stops /\ bytes' = bytes /\ received' = received /\ emitted' = emitted /\ status' = status
        /\ engine' = engine /\ sent' = sent /\ responseDone' = responseDone /\ wire' = wire
        /\ buffer' = buffer /\ shown' = shown /\ counted' = counted /\ client' = client /\ kind' = kind
    BY DEF Drop, vars, clientVars
  <1>2. <<>> \in Seq(DataSymbols)
    BY EmptySeq
  <1>3. FilterInv' /\ StreamTypes'
    BY <1>1, <1>2 DEF ResponseInv, FilterInv, FilterTypes, StreamTypes
  <1>4. NothingLost' /\ DoneIsLast'
    BY <1>1 DEF NothingLost, DoneIsLast, Answering
  <1>5. Signalled' /\ Collected' /\ Answered' /\ FailuresAreTheEngines' /\ Handling'
    BY <1>1 DEF ResponseInv, StreamParts, Signalled, Collected, Answered, FailuresAreTheEngines, Handling, Succeeded
  <1> QED BY <1>3, <1>4, <1>5 DEF ResponseInv, StreamParts

-----------------------------------------------------------------------------
(* The steps of the client.                                                    *)

LEMMA ChunkSteps ==
  ASSUME ResponseInv, Client(Chunk)
  PROVE  ResponseInv'
  <1>1. /\ Chunk
        /\ stops' = stops /\ bytes' = bytes /\ received' = received /\ emitted' = emitted /\ status' = status
        /\ engine' = engine /\ queued' = queued /\ sent' = sent
        /\ responseDone' = responseDone /\ handler' = handler /\ outbox' = outbox /\ kind' = kind
    BY DEF Client, vars, engineVars
  <1>2. PICK n \in 1 .. Len(wire) : /\ buffer' = buffer \o SubSeq(wire, 1, n)
                                    /\ wire' = SubSeq(wire, n + 1, Len(wire))
    BY <1>1 DEF Chunk
  <1>3. client = "reading" /\ shown' = shown /\ counted' = counted /\ client' = client
    BY <1>1 DEF Chunk
  <1>4. FilterInv /\ StreamTypes /\ Collected
    BY DEF ResponseInv, StreamParts
  <1>5. PICK b \in Seq(Symbols), w \in Seq(Symbols) : b = buffer /\ w = wire
    BY <1>4 DEF StreamTypes
  <1>6. PICK x \in Seq(Symbols), y \in Seq(Symbols) :
          x = SubSeq(w, 1, n) /\ y = SubSeq(w, n + 1, Len(w)) /\ x \o y = w
    <2>1. n \in 0 .. Len(w)
      BY <1>5
    <2>2. /\ SubSeq(w, 1, n) \in Seq(Symbols) /\ SubSeq(w, n + 1, Len(w)) \in Seq(Symbols)
          /\ SubSeq(w, 1, n) \o SubSeq(w, n + 1, Len(w)) = w
      BY <2>1, CutAt
    <2> QED BY <2>2
  <1>7. buffer' = b \o x /\ wire' = y
    BY <1>2, <1>5, <1>6
  <1>8. (b \o x) \o y = b \o (x \o y)
    BY Associates
  <1>9. Pipe' = Pipe
    BY <1>5, <1>6, <1>7, <1>8 DEF Pipe
  <1>10. b \o x \in Seq(Symbols)
    BY ConcatProperties
  <1>11. FilterInv' /\ StreamTypes'
    BY <1>1, <1>3, <1>4, <1>7, <1>10 DEF FilterInv, FilterTypes, StreamTypes
  <1>12. Signalled' /\ NothingLost' /\ DoneIsLast' /\ Answered' /\ FailuresAreTheEngines' /\ Handling'
    <2>1. Ahead' = Ahead
      BY <1>1, <1>9 DEF Ahead
    <2> QED BY <1>1, <1>3, <1>9, <2>1
            DEF ResponseInv, StreamParts, Signalled, NothingLost, DoneIsLast, Answered, FailuresAreTheEngines,
                Handling, Answering, Succeeded
  <1>13. Collected'
    <2> SUFFICES ASSUME kind' = "collect" PROVE FALSE
      BY DEF Collected
    <2>1. w = <<>>
      BY <1>1, <1>4, <1>5 DEF Collected
    <2>2. Len(w) = 0 /\ n \in 1 .. Len(w)
      BY <1>5, <2>1
    <2> QED BY <2>2
  <1> QED BY <1>11, <1>12, <1>13 DEF ResponseInv, StreamParts

LEMMA ReadFrameSteps ==
  ASSUME ResponseInv, Client(ReadFrame)
  PROVE  ResponseInv'
  <1>1. /\ ReadFrame
        /\ stops' = stops /\ bytes' = bytes /\ received' = received /\ emitted' = emitted /\ status' = status
        /\ engine' = engine /\ queued' = queued /\ sent' = sent
        /\ responseDone' = responseDone /\ handler' = handler /\ outbox' = outbox /\ kind' = kind
    BY DEF Client, vars, engineVars
  <1>2. PICK cut \in Boundary(buffer) :
          /\ counted' = counted + Said(SubSeq(buffer, 1, cut[1])).tokens
          /\ shown' = shown \o Said(SubSeq(buffer, 1, cut[1])).text
          /\ client' = IF DoneData \in ToSet(SubSeq(buffer, 1, cut[1])) THEN "done" ELSE client
          /\ buffer' = SubSeq(buffer, cut[2] + 1, Len(buffer))
    BY <1>1 DEF ReadFrame
  <1>3. client = "reading" /\ wire' = wire
    BY <1>1 DEF ReadFrame
  <1>4. /\ FilterInv /\ FilterTypes /\ StreamTypes /\ NothingLost /\ DoneIsLast /\ Collected
        /\ FailuresAreTheEngines /\ Handling
    BY DEF ResponseInv, StreamParts, FilterInv
  <1>5. PICK symbols, w, box :
          /\ symbols \in Seq(Symbols) /\ w \in Seq(Symbols) /\ box \in Seq(Symbols)
          /\ symbols = buffer /\ w = wire /\ box = outbox
    BY <1>4, OnTheWay DEF StreamTypes
  <1>6. kind = "stream"
    <2> SUFFICES ASSUME kind = "collect" PROVE FALSE
      BY <1>4 DEF StreamTypes
    <2>1. symbols = <<>>
      BY <1>4, <1>5 DEF Collected
    <2>2. Len(symbols) = 0
      BY <2>1
    <2>3. cut[1] \in Nat /\ cut[2] \in Nat /\ cut[1] < cut[2] /\ cut[2] <= Len(symbols)
      BY <1>5, CutsAtALineEnd
    <2> QED BY <2>2, <2>3
  <1>7. PICK frame, first, unread :
          /\ frame \in Seq(Symbols) /\ first \in Seq(Symbols) /\ unread \in Seq(Symbols)
          /\ frame = SubSeq(symbols, 1, cut[1])
          /\ unread = SubSeq(symbols, cut[2] + 1, Len(symbols))
          /\ symbols = first \o unread
          /\ Said(first).text = Said(frame).text /\ Said(first).tokens = Said(frame).tokens
          /\ DoneData \in ToSet(frame) <=> DoneAmong(first)
    BY <1>5, FirstFrame
  <1>8. /\ counted' = counted + Said(first).tokens
        /\ shown' = shown \o Said(first).text
        /\ client' = IF DoneAmong(first) THEN "done" ELSE client
        /\ buffer' = unread
    BY <1>2, <1>5, <1>7
  <1>9. PICK text \in Seq(Characters), count \in Nat : text = Said(first).text /\ count = Said(first).tokens
    BY <1>7, SaidIs
  <1>10. FilterInv' /\ StreamTypes'
    <2>1. shown \in Seq(Characters) /\ counted \in Nat
      BY <1>4 DEF StreamTypes
    <2>2. shown' \in Seq(Characters) /\ counted' \in Nat
      BY <1>8, <1>9, <2>1, BeginsWith
    <2>3. wire' \in Seq(Symbols) /\ buffer' \in Seq(Symbols)
      BY <1>3, <1>5, <1>7, <1>8
    <2>4. client' \in {"reading", "done", "failed", "gone"}
      BY <1>3, <1>8
    <2> QED BY <1>1, <1>4, <2>2, <2>3, <2>4 DEF FilterInv, FilterTypes, StreamTypes
  (* What was ahead was the first frame and what is ahead now. *)
  <1>11. PICK pipe, after :
           /\ pipe \in Seq(Symbols) /\ after \in Seq(Symbols)
           /\ pipe = Pipe' /\ after = Ahead' /\ after = pipe \o box
           /\ Pipe = first \o pipe /\ Ahead = first \o after
    <2>1. Pipe' = unread \o w /\ Pipe = (first \o unread) \o w
      BY <1>3, <1>5, <1>7, <1>8 DEF Pipe
    <2>2. /\ first \in Seq(Symbols) /\ unread \in Seq(Symbols)
          /\ w \in Seq(Symbols) /\ box \in Seq(Symbols)
      BY <1>5, <1>7
    <2>3. PICK pipe : pipe \in Seq(Symbols) /\ pipe = unread \o w
      BY <2>2, ConcatProperties
    <2>4. (first \o unread) \o w = first \o pipe
      BY <2>2, <2>3, Associates
    <2>5. /\ (first \o pipe) \o box = first \o (pipe \o box)
          /\ pipe \o box \in Seq(Symbols)
      <3>1. first \in Seq(Symbols) /\ pipe \in Seq(Symbols) /\ box \in Seq(Symbols)
        BY <2>2, <2>3
      <3> QED BY <3>1, Associates, ConcatProperties
    <2>6. Ahead' = pipe \o box /\ Ahead = (first \o pipe) \o box
      BY <1>1, <1>5, <2>1, <2>3, <2>4 DEF Ahead
    <2> QED BY <2>1, <2>3, <2>4, <2>5, <2>6
  <1>12. PICK succeeded : succeeded = Succeeded /\ Succeeded' = succeeded
    BY <1>1 DEF Succeeded
  <1>13. Answering
    BY <1>3, <1>6 DEF Answering
  <1>14. emitted = shown \o Said(first \o after).text /\ received = counted + Said(first \o after).tokens
    BY <1>4, <1>11, <1>13 DEF NothingLost
  <1>15. emitted = shown' \o Said(after).text /\ received = counted' + Said(after).tokens
    <2>1. /\ shown \in Seq(Characters) /\ counted \in Nat
          /\ first \in Seq(Symbols) /\ after \in Seq(Symbols)
      BY <1>4, <1>7, <1>11 DEF StreamTypes
    <2>2. /\ shown \o Said(first \o after).text = (shown \o Said(first).text) \o Said(after).text
          /\ counted + Said(first \o after).tokens = (counted + Said(first).tokens) + Said(after).tokens
      BY <2>1, TellsMore
    <2> QED BY <1>8, <1>14, <2>2
  <1>16. DoneLast(first \o after, succeeded)
    BY <1>4, <1>11, <1>12, <1>13 DEF DoneIsLast
  <1>17. /\ DoneLast(after, succeeded)
         /\ DoneAmong(first) => succeeded /\ Said(after).text = <<>> /\ Said(after).tokens = 0
    BY <1>7, <1>11, <1>16, Reads
  <1>18. NothingLost'
    BY <1>1, <1>11, <1>15 DEF NothingLost
  <1>19. DoneIsLast'
    <2> SUFFICES ASSUME Answering' PROVE DoneIsLast'
      BY DEF DoneIsLast
    <2>1. ~DoneAmong(first)
      BY <1>8 DEF Answering
    <2>2. succeeded => DoneIn(first \o pipe) \/ DoneAmong(outbox)
      BY <1>4, <1>11, <1>12, <1>13 DEF DoneIsLast
    <2>3. DoneIn(first \o pipe) => DoneIn(pipe)
      BY <1>7, <1>11, <2>1, DoneStaysAhead
    <2> QED BY <1>1, <1>11, <1>12, <1>17, <2>2, <2>3 DEF DoneIsLast
  <1>20. Answered'
    <2>1. PICK given \in Seq(Characters), rest \in Seq(Characters), told \in Nat, more \in Nat :
            /\ given = shown' /\ rest = Said(after).text /\ told = counted' /\ more = Said(after).tokens
      BY <1>10, <1>11, SaidIs DEF StreamTypes
    <2>2. IsPrefix(given, given \o rest)
      BY BeginsWith
    <2>3. IsPrefix(shown', emitted')
      BY <1>1, <1>15, <2>1, <2>2
    <2>4. ASSUME client' = "done" PROVE Succeeded' /\ shown' = emitted' /\ counted' = received'
      <3>1. DoneAmong(first)
        BY <1>3, <1>8, <2>4
      <3>2. given \o <<>> = given /\ told + 0 = told
        BY ConcatEmptySeq
      <3> QED BY <1>1, <1>12, <1>15, <1>17, <2>1, <3>1, <3>2
    <2> QED BY <2>3, <2>4 DEF Answered
  <1>21. Signalled' /\ FailuresAreTheEngines' /\ Handling' /\ Collected'
    BY <1>1, <1>3, <1>4, <1>6, <1>8 DEF ResponseInv, StreamParts, Signalled, FailuresAreTheEngines, Handling, Collected
  <1> QED BY <1>10, <1>18, <1>19, <1>20, <1>21 DEF ResponseInv, StreamParts

(* A body ends before [DONE] was read only where none was sent.                *)
LEMMA BodyEndsSteps ==
  ASSUME ResponseInv, Client(BodyEnds)
  PROVE  ResponseInv'
  <1>1. /\ BodyEnds
        /\ stops' = stops /\ bytes' = bytes /\ received' = received /\ emitted' = emitted /\ status' = status
        /\ engine' = engine /\ queued' = queued /\ sent' = sent
        /\ responseDone' = responseDone /\ handler' = handler /\ outbox' = outbox /\ kind' = kind
    BY DEF Client, vars, engineVars
  <1>2. /\ client = "reading" /\ kind = "stream" /\ handler # "receiving"
        /\ wire = <<>> /\ Boundary(buffer) = {}
        /\ client' = "failed" /\ wire' = wire /\ buffer' = buffer /\ shown' = shown /\ counted' = counted
    BY <1>1 DEF BodyEnds
  <1>3. /\ FilterInv /\ FilterTypes /\ StreamTypes /\ Signalled /\ DoneIsLast /\ Answered
        /\ FailuresAreTheEngines /\ Handling
    BY DEF ResponseInv, StreamParts, FilterInv
  <1>4. FilterInv' /\ StreamTypes'
    BY <1>1, <1>2, <1>3 DEF FilterInv, FilterTypes, StreamTypes
  <1>5. status # "open" /\ outbox = <<>>
    BY <1>2, <1>3 DEF Handling, StreamTypes
  <1>6. ~Succeeded
    <2> SUFFICES ASSUME Succeeded PROVE FALSE
      OBVIOUS
    <2>1. DoneIn(Pipe) \/ DoneAmong(outbox)
      BY <1>2, <1>3 DEF DoneIsLast, Answering
    <2>2. ~DoneAmong(outbox)
      <3>1. Len(<<>>) = 0
        OBVIOUS
      <3>2. Len(outbox) = 0
        BY <1>5, <3>1
      <3> QED BY <3>2 DEF DoneAmong
    <2>3. PICK symbols \in Seq(Symbols) : symbols = buffer
      BY <1>3 DEF StreamTypes
    <2>4. Pipe = symbols
      <3>1. symbols \o <<>> = symbols
        BY ConcatEmptySeq
      <3> QED BY <1>2, <2>3, <3>1 DEF Pipe
    <2>5. Boundary(symbols) # {}
      BY <2>1, <2>2, <2>4, DoneIsFound
    <2> QED BY <1>2, <2>3, <2>5
  <1>7. engine \in {"error", "dropped"}
    BY <1>3, <1>5, <1>6 DEF FilterTypes, Succeeded, FailuresAreTheEngines
  <1>8. FailuresAreTheEngines' /\ Answered' /\ Signalled'
    BY <1>1, <1>2, <1>3, <1>7 DEF FailuresAreTheEngines, Answered, Signalled
  <1>9. NothingLost' /\ DoneIsLast' /\ Collected'
    BY <1>1, <1>2 DEF NothingLost, DoneIsLast, Collected, Answering
  <1>10. Handling'
    BY <1>1, <1>2, <1>3 DEF Handling
  <1> QED BY <1>4, <1>8, <1>9, <1>10 DEF ResponseInv, StreamParts

LEMMA ReadReplySteps ==
  ASSUME ResponseInv, Client(ReadReply)
  PROVE  ResponseInv'
  <1>1. /\ ReadReply
        /\ stops' = stops /\ bytes' = bytes /\ received' = received /\ emitted' = emitted /\ status' = status
        /\ engine' = engine /\ queued' = queued /\ sent' = sent
        /\ responseDone' = responseDone /\ handler' = handler /\ outbox' = outbox /\ kind' = kind
    BY DEF Client, vars, engineVars
  <1>2. /\ client = "reading" /\ kind = "collect" /\ handler # "receiving"
        /\ client' = IF status \in {"stop", "finished"} THEN "done" ELSE "failed"
        /\ wire' = wire /\ buffer' = buffer /\ shown' = shown /\ counted' = counted
    BY <1>1 DEF ReadReply
  <1>3. /\ FilterInv /\ FilterTypes /\ StreamTypes /\ Signalled /\ Collected /\ Answered
        /\ FailuresAreTheEngines /\ Handling
    BY DEF ResponseInv, StreamParts, FilterInv
  <1>4. FilterInv' /\ StreamTypes'
    BY <1>1, <1>2, <1>3 DEF FilterInv, FilterTypes, StreamTypes
  <1>5. status # "open"
    BY <1>2, <1>3 DEF Handling, StreamTypes
  <1>6. shown = emitted /\ counted = received
    BY <1>2, <1>3 DEF Collected
  <1>7. Answered'
    BY <1>1, <1>2, <1>3, <1>6 DEF Answered, Succeeded
  <1>8. FailuresAreTheEngines' /\ Signalled'
    BY <1>1, <1>2, <1>3, <1>5 DEF FailuresAreTheEngines, Signalled, FilterTypes
  <1>9. NothingLost' /\ DoneIsLast'
    BY <1>1, <1>2 DEF NothingLost, DoneIsLast, Answering
  <1>10. Collected' /\ Handling'
    BY <1>1, <1>2, <1>3 DEF Collected, Handling
  <1> QED BY <1>4, <1>7, <1>8, <1>9, <1>10 DEF ResponseInv, StreamParts

LEMMA LeaveSteps ==
  ASSUME ResponseInv, Client(Leave)
  PROVE  ResponseInv'
  <1>1. /\ Leave
        /\ stops' = stops /\ bytes' = bytes /\ received' = received /\ emitted' = emitted /\ status' = status
        /\ engine' = engine /\ queued' = queued /\ sent' = sent
        /\ responseDone' = responseDone /\ handler' = handler /\ outbox' = outbox /\ kind' = kind
    BY DEF Client, vars, engineVars
  <1>2. /\ client = "reading" /\ client' = "gone" /\ wire' = <<>> /\ buffer' = <<>>
        /\ shown' = shown /\ counted' = counted
    BY <1>1 DEF Leave
  <1>3. /\ FilterInv /\ StreamTypes /\ Signalled /\ Collected /\ Answered /\ FailuresAreTheEngines /\ Handling
    BY DEF ResponseInv, StreamParts
  <1>4. <<>> \in Seq(Symbols)
    BY EmptySeq
  <1>5. FilterInv' /\ StreamTypes'
    BY <1>1, <1>2, <1>3, <1>4 DEF FilterInv, FilterTypes, StreamTypes
  <1>6. NothingLost' /\ DoneIsLast'
    BY <1>2 DEF NothingLost, DoneIsLast, Answering
  <1>7. Signalled' /\ Collected' /\ Answered' /\ FailuresAreTheEngines' /\ Handling'
    BY <1>1, <1>2, <1>3 DEF Signalled, Collected, Answered, FailuresAreTheEngines, Handling
  <1> QED BY <1>5, <1>6, <1>7 DEF ResponseInv, StreamParts

-----------------------------------------------------------------------------
(* The theorems.                                                               *)

LEMMA StreamStarts ==
  ASSUME StreamInit
  PROVE  ResponseInv
  <1>1. FilterInv
    BY StartsExposed DEF StreamInit
  <1>2. /\ status = "open" /\ emitted = <<>> /\ received = 0
        /\ kind \in {"stream", "collect"} /\ engine = "running" /\ queued = 0 /\ sent = 0
        /\ responseDone = FALSE /\ handler = "receiving" /\ outbox = <<>>
        /\ wire = <<>> /\ buffer = <<>> /\ shown = <<>> /\ counted = 0 /\ client = "reading"
    BY DEF StreamInit, Init
  <1>3. PICK none \in Seq(Symbols), text \in Seq(Characters) : none = <<>> /\ text = <<>>
    BY EmptySeq
  <1>4. none \o none = none /\ text \o text = text
    BY <1>3, ConcatEmptySeq
  <1>5. StreamTypes
    <2>1. <<>> \in Seq(DataSymbols) /\ <<>> \in Seq(Symbols) /\ <<>> \in Seq(Characters)
      BY EmptySeq
    <2>2. 0 \in 0 .. MaxTokens
      BY TextOutputFilterAssumption
    <2> QED BY <1>2, <2>1, <2>2 DEF StreamTypes
  <1>6. Pipe = none /\ Ahead = none
    BY <1>2, <1>3, <1>4 DEF Pipe, Ahead
  <1>7. \A i \in 1 .. Len(none) : FALSE
    BY <1>3
  <1>8. Said(none).text = text /\ Said(none).tokens = 0
    BY <1>3, <1>7, SaidNothing
  <1>9. NothingLost
    BY <1>2, <1>3, <1>4, <1>6, <1>8 DEF NothingLost
  <1>10. DoneIsLast
    <2>1. ~Succeeded
      BY <1>2 DEF Succeeded
    <2>2. DoneLast(none, Succeeded)
      BY <1>7 DEF DoneLast
    <2> QED BY <1>6, <2>1, <2>2 DEF DoneIsLast
  <1>11. Answered
    <2>1. IsPrefix(text, text)
      <3>1. Len(text) <= Len(text) /\ \A i \in 1 .. Len(text) : text[i] = text[i]
        BY LenProperties
      <3> QED BY <3>1, PrefixMeans
    <2> QED BY <1>2, <1>3, <2>1 DEF Answered
  <1>12. Signalled /\ Collected /\ FailuresAreTheEngines /\ Handling
    BY <1>2 DEF Signalled, Collected, FailuresAreTheEngines, Handling
  <1> QED BY <1>1, <1>5, <1>9, <1>10, <1>11, <1>12 DEF ResponseInv, StreamParts

LEMMA StreamSteps ==
  ASSUME ResponseInv, [StreamNext]_streamVars
  PROVE  ResponseInv'
  <1>1. CASE Engine
    BY <1>1, EngineSteps
  <1>2. CASE Receive
    BY <1>2, ReceiveSteps
  <1>3. CASE Yield
    BY <1>3, YieldSteps
  <1>4. CASE Return
    BY <1>4, ReturnSteps
  <1>5. CASE KeepAlive
    BY <1>5, KeepAliveSteps
  <1>6. CASE Drop
    BY <1>6, DropSteps
  <1>7. CASE Client(Chunk)
    BY <1>7, ChunkSteps
  <1>8. CASE Client(ReadFrame)
    BY <1>8, ReadFrameSteps
  <1>9. CASE Client(BodyEnds)
    BY <1>9, BodyEndsSteps
  <1>10. CASE Client(ReadReply)
    BY <1>10, ReadReplySteps
  <1>11. CASE Client(Leave)
    BY <1>11, LeaveSteps
  <1>12. CASE UNCHANGED streamVars
    <2>1. /\ stops' = stops /\ bytes' = bytes /\ received' = received /\ emitted' = emitted /\ status' = status
          /\ engine' = engine /\ queued' = queued /\ sent' = sent
          /\ responseDone' = responseDone /\ handler' = handler /\ outbox' = outbox /\ wire' = wire
          /\ buffer' = buffer /\ shown' = shown /\ counted' = counted /\ client' = client /\ kind' = kind
      BY <1>12 DEF streamVars, vars, engineVars, clientVars
    <2>2. FilterInv' /\ StreamTypes'
      BY <2>1 DEF ResponseInv, FilterInv, FilterTypes, StreamTypes
    <2>3. Signalled' /\ NothingLost' /\ DoneIsLast' /\ Collected' /\ Answered'
      BY <2>1 DEF ResponseInv, StreamParts, Signalled, NothingLost, DoneIsLast, Collected, Answered,
                  Answering, Ahead, Pipe, Succeeded
    <2>4. FailuresAreTheEngines' /\ Handling'
      BY <2>1 DEF ResponseInv, StreamParts, FailuresAreTheEngines, Handling
    <2> QED BY <2>2, <2>3, <2>4 DEF ResponseInv, StreamParts
  <1> QED BY <1>1, <1>2, <1>3, <1>4, <1>5, <1>6, <1>7, <1>8, <1>9, <1>10, <1>11, <1>12 DEF StreamNext

(* Whatever the tokens, the stops and the network do, the filter has exposed   *)
(* the decoded text up to its first stop or to the tail it must hold, and the  *)
(* client lacks exactly what is on its way to it (openai_stream and            *)
(* collect_generation with their TextOutputFilter, and one_streaming_request). *)
THEOREM ResponseInvariant == StreamSpec => []ResponseInv
  <1>1. StreamInit => ResponseInv
    BY StreamStarts
  <1>2. ResponseInv /\ [StreamNext]_streamVars => ResponseInv'
    BY StreamSteps
  <1> QED BY <1>1, <1>2, PTL DEF StreamSpec

(* TextOutputFilter::push in sse.rs: text that is decoded whole is withheld    *)
(* only while it is the beginning of a stop.                                   *)
THEOREM HeldOnlyForAReason == StreamSpec => []HeldForAReason
  <1>1. ResponseInv => HeldForAReason
    BY ExposedMeans DEF ResponseInv
  <1> QED BY <1>1, ResponseInvariant, PTL

(* stop_generation in sse.rs: a receiver that is gone has told the engine of a *)
(* stop, and of nothing else.                                                  *)
THEOREM StopIsToldFirst == StreamSpec => []StopIsSignalledFirst
  <1>1. ResponseInv => StopIsSignalledFirst
    BY DEF ResponseInv, StreamParts, Signalled, StopIsSignalledFirst
  <1> QED BY <1>1, ResponseInvariant, PTL

(* None of the errors of TextOutputFilter ("incremental token decoding changed *)
(* already emitted text", "a stop sequence appeared in already emitted text",  *)
(* sse.rs) can happen, and no chunking of the body loses [DONE]: a client that *)
(* stays is failed by the engine alone.                                        *)
THEOREM EngineFailuresOnly == StreamSpec => []OnlyTheEngineFails
  <1>1. ResponseInv => OnlyTheEngineFails
    BY DEF ResponseInv, StreamParts, FilterInv, FilterTypes, FailuresAreTheEngines, OnlyTheEngineFails
  <1> QED BY <1>1, ResponseInvariant, PTL

(* sse.rs yields one frame per token, and one_streaming_request counts them    *)
(* all, in whatever chunks they come.                                          *)
THEOREM TokensAreCounted == StreamSpec => []EveryTokenIsCounted
  <1>1. ResponseInv => EveryTokenIsCounted
    BY DEF ResponseInv, StreamParts, Answered, EveryTokenIsCounted
  <1> QED BY <1>1, ResponseInvariant, PTL

(* The client reads the text up to the first stop and nothing else, where no   *)
(* stop of a request ends in the replacement character: such a stop can appear *)
(* only when the remains of a character are released at the end, and push()    *)
(* never looks at those.                                                       *)
THEOREM ClientReadsTheText ==
  ASSUME \A choice \in StopChoices : EndInCharacters(choice)
  PROVE  StreamSpec => []ClientReadsTheCutText
  <1>1. ASSUME ResponseInv PROVE ClientReadsTheCutText
    <2>1. FilterInv /\ EndInCharacters(stops)
      BY <1>1 DEF ResponseInv, FilterInv, FilterTypes
    <2>2. /\ Cut(Text) \in Seq(Characters) /\ IsPrefix(emitted, Cut(Text))
          /\ status \in {"stop", "finished"} => emitted = Cut(Text)
      BY <2>1, ExposedIsCut
    <2>3. Answered
      BY <1>1 DEF ResponseInv, StreamParts
    <2>4. PICK s \in Seq(Characters), t \in Seq(Characters), u \in Seq(Characters) :
            s = shown /\ t = emitted /\ u = Cut(Text)
      BY <1>1, <2>2 DEF ResponseInv, StreamTypes, FilterInv, FilterTypes
    <2>5. IsPrefix(s, u)
      BY <2>2, <2>3, <2>4, PrefixOfPrefix DEF Answered
    <2>6. client = "done" => shown = Cut(Text)
      BY <2>2, <2>3 DEF Answered, Succeeded
    <2> QED BY <2>4, <2>5, <2>6 DEF ClientReadsTheCutText
  <1>2. ResponseInv => ClientReadsTheCutText
    BY <1>1
  <1> QED BY <1>2, ResponseInvariant, PTL
===============================================================================
