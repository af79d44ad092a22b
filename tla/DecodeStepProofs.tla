--------------------------- MODULE DecodeStepProofs ---------------------------
(* Machine-checked proofs about DecodeStep, for every set of requests, number  *)
(* of layers and slots: whatever happens in the batch, each row of logits is   *)
(* what the request would have got from one pass over its own tokens; and for  *)
(* every row and every options, a token is drawn as often as they say.         *)
EXTENDS DecodeStep, SequenceTheorems, FiniteSetTheorems, TLAPS

-----------------------------------------------------------------------------
(* Every non-empty set of naturals has a least element: of the sets 0..x, the  *)
(* smallest by inclusion is that of the least x.                               *)
LEMMA LeastOfNaturals ==
  ASSUME NEW S, S \subseteq Nat, S # {}
  PROVE  \E x \in S : \A y \in S : x <= y
  <1> DEFINE Initials == {0..x : x \in S}
  <1>1. Initials \subseteq FiniteSubsetsOf(Nat)
    <2> SUFFICES ASSUME NEW x \in S PROVE 0..x \in FiniteSubsetsOf(Nat)
      OBVIOUS
    <2>1. IsFiniteSet(0..x)
      BY FS_Interval
    <2> QED BY <2>1 DEF FiniteSubsetsOf
  <1>2. Initials # {}
    OBVIOUS
  <1>3. \E I \in Initials : \A J \in Initials : ~ (<<J, I>> \in StrictSubsetOrdering(Nat))
    <2> HIDE DEF Initials
    <2> QED BY <1>1, <1>2, WFMin, FS_StrictSubsetOrderingWellFounded
  <1>4. PICK x \in S : \A y \in S : ~ (<<0..y, 0..x>> \in StrictSubsetOrdering(Nat))
    BY <1>3
  <1>5. ASSUME NEW y \in S, y < x PROVE FALSE
    <2>1. 0..y \subseteq 0..x /\ 0..y # 0..x /\ 0..y \in SUBSET Nat /\ 0..x \in SUBSET Nat
      BY <1>5
    <2>2. <<0..y, 0..x>> \in StrictSubsetOrdering(Nat)
      BY <2>1 DEF StrictSubsetOrdering
    <2> QED BY <1>4, <2>2
  <1> QED BY <1>5

(* Induction up to a bound, as a fact about the set where a formula holds.     *)
LEMMA Reaches ==
  ASSUME NEW bound \in Nat, NEW S,
         0 \in S, \A n \in 1 .. bound : n - 1 \in S => n \in S
  PROVE  \A n \in 0 .. bound : n \in S
  <1> DEFINE Missed == {n \in 0 .. bound : n \notin S}
  <1> SUFFICES ASSUME Missed # {} PROVE FALSE
    OBVIOUS
  <1>1. PICK n \in Missed : \A k \in Missed : n <= k
    <2>1. Missed \subseteq Nat
      OBVIOUS
    <2> HIDE DEF Missed
    <2> QED BY <2>1, LeastOfNaturals
  <1>2. n \in 1 .. bound /\ n - 1 \in 0 .. bound /\ ~(n <= n - 1)
    OBVIOUS
  <1>3. n - 1 \in S
    BY <1>1, <1>2
  <1> QED BY <1>2, <1>3

-----------------------------------------------------------------------------
(* Sequences of anything: functions on 1 .. n.                                 *)

IsList(s, n) == s = [i \in 1 .. n |-> s[i]]

LEMMA ListIsSequence ==
  ASSUME NEW n \in Nat, NEW s, IsList(s, n)
  PROVE  s \in Seq(Range(s)) /\ Len(s) = n /\ DOMAIN s = 1 .. n
  <1>1. DOMAIN s = 1 .. n
    BY DEF IsList
  <1>2. s \in [1 .. n -> Range(s)]
    BY <1>1 DEF IsList, Range
  <1> QED BY <1>1, <1>2, SeqDef

LEMMA SequenceIsList ==
  ASSUME NEW S, NEW s \in Seq(S)
  PROVE  Len(s) \in Nat /\ IsList(s, Len(s))
  BY LenProperties DEF IsList

LEMMA PrefixOfList ==
  ASSUME NEW n \in Nat, NEW s, IsList(s, n), NEW p \in 0 .. n
  PROVE  /\ SubSeq(s, 1, p) = [i \in 1 .. p |-> s[i]]
         /\ IsList(SubSeq(s, 1, p), p)
  <1>1. s \in Seq(Range(s)) /\ Len(s) = n
    BY ListIsSequence
  <1>2. /\ SubSeq(s, 1, p) \in Seq(Range(s)) /\ Len(SubSeq(s, 1, p)) = p
        /\ \A i \in 1 .. p : SubSeq(s, 1, p)[i] = s[i]
    <2>1. p \in Int /\ 1 \in Int /\ p <= n
      OBVIOUS
    <2> QED BY <1>1, <2>1, SubSeqProperties
  <1>3. IsList(SubSeq(s, 1, p), p)
    BY <1>2, SequenceIsList
  <1> QED BY <1>2, <1>3 DEF IsList

LEMMA AppendToList ==
  ASSUME NEW n \in Nat, NEW s, IsList(s, n), NEW e
  PROVE  Append(s, e) = [i \in 1 .. n + 1 |-> IF i = n + 1 THEN e ELSE s[i]]
  <1>1. s \in Seq(Range(s) \cup {e}) /\ Len(s) = n
    <2>1. s \in Seq(Range(s)) /\ Len(s) = n /\ s \in [1 .. n -> Range(s)]
      BY ListIsSequence, LenProperties
    <2>2. s \in [1 .. n -> Range(s) \cup {e}]
      BY <2>1
    <2> QED BY <2>1, <2>2, SeqDef
  <1>2. /\ Append(s, e) \in Seq(Range(s) \cup {e}) /\ Len(Append(s, e)) = n + 1
        /\ \A i \in 1 .. n : Append(s, e)[i] = s[i] /\ Append(s, e)[n + 1] = e
    BY <1>1, AppendProperties
  <1>3. IsList(Append(s, e), n + 1)
    BY <1>2, SequenceIsList
  <1> QED BY <1>2, <1>3 DEF IsList

LEMMA AppendToConcat ==
  ASSUME NEW S, NEW s \in Seq(S), NEW t \in Seq(S), NEW e \in S
  PROVE  s \o Append(t, e) = Append(s \o t, e)
  <1> DEFINE a == Len(s)
             b == Len(t)
             one == s \o Append(t, e)
             both == s \o t
             two == Append(both, e)
  <1>1. a \in Nat /\ b \in Nat
    BY LenProperties
  <1>2. /\ Append(t, e) \in Seq(S) /\ Len(Append(t, e)) = b + 1 /\ Append(t, e)[b + 1] = e
        /\ \A i \in 1 .. b : Append(t, e)[i] = t[i]
    BY AppendProperties
  <1>3. /\ one \in Seq(S) /\ Len(one) = a + (b + 1)
        /\ \A i \in 1 .. a + (b + 1) : one[i] = IF i <= a THEN s[i] ELSE Append(t, e)[i - a]
    BY <1>2, ConcatProperties
  <1>4. /\ both \in Seq(S) /\ Len(both) = a + b
        /\ \A i \in 1 .. a + b : both[i] = IF i <= a THEN s[i] ELSE t[i - a]
    BY ConcatProperties
  <1> HIDE DEF a, b, both
  <1>5. /\ two \in Seq(S) /\ Len(two) = (a + b) + 1 /\ two[(a + b) + 1] = e
        /\ \A i \in 1 .. a + b : two[i] = both[i]
    BY <1>4, AppendProperties
  <1> HIDE DEF one, two
  <1>6. ASSUME NEW i \in 1 .. Len(one) PROVE one[i] = two[i]
    <2>1. CASE i <= a
      <3>1. i \in 1 .. a + (b + 1) /\ i \in 1 .. a + b
        BY <1>1, <1>3, <2>1
      <3> QED BY <1>3, <1>4, <1>5, <2>1, <3>1
    <2>2. CASE ~(i <= a) /\ i # (a + b) + 1
      <3>1. i \in 1 .. a + (b + 1) /\ i \in 1 .. a + b /\ i - a \in 1 .. b
        BY <1>1, <1>3, <2>2
      <3> QED BY <1>2, <1>3, <1>4, <1>5, <2>2, <3>1
    <2>3. CASE i = (a + b) + 1
      <3>1. i \in 1 .. a + (b + 1) /\ ~(i <= a) /\ i - a = b + 1
        BY <1>1, <1>3, <2>3
      <3> QED BY <1>2, <1>3, <1>5, <2>3, <3>1
    <2> QED BY <2>1, <2>2, <2>3
  <1>7. Len(one) = Len(two)
    BY <1>1, <1>3, <1>5
  <1>8. one = two
    BY <1>3, <1>5, <1>6, <1>7, SeqEqual
  <1> QED BY <1>8 DEF one, two, both

-----------------------------------------------------------------------------
(* The passes through the model.                                               *)

(* The recursion over the layers defines what it says: were some layer without *)
(* hidden states, the first such layer would get them from the one before.     *)
LEMMA MaskedByLayer ==
  ASSUME NEW n \in Nat, NEW tokens, IsList(tokens, n)
  PROVE  /\ \A l \in 0 .. NumLayers : IsList(Masked(tokens)[l], n)
         /\ \A p \in 1 .. n : Masked(tokens)[0][p] = Embed(tokens[p], p - 1)
         /\ \A l \in 1 .. NumLayers, p \in 1 .. n :
              Masked(tokens)[l][p] = SubSeq(Masked(tokens)[l - 1], 1, p)
  <1> DEFINE UpTo(m, f) ==
        f = [l \in 0 .. m |-> [p \in DOMAIN tokens |->
               IF l = 0 THEN Embed(tokens[p], p - 1) ELSE SubSeq(f[l - 1], 1, p)]]
      Missing == {m \in Nat : ~\E f : UpTo(m, f)}
  <1>1. DOMAIN tokens = 1 .. n
    BY DEF IsList
  <1>2. Missing = {}
    <2>1. SUFFICES ASSUME Missing # {} PROVE FALSE
      OBVIOUS
    <2>2. PICK m \in Missing : \A k \in Missing : m <= k
      <3> HIDE DEF UpTo
      <3>1. Missing \subseteq Nat
        OBVIOUS
      <3> HIDE DEF Missing
      <3> QED BY <2>1, <3>1, LeastOfNaturals
    <2>3. m # 0
      <3> DEFINE g == [l \in 0 .. 0 |-> [p \in DOMAIN tokens |-> Embed(tokens[p], p - 1)]]
      <3>1. UpTo(0, g)
        OBVIOUS
      <3> QED BY <3>1
    <2>4. m \in Nat /\ m - 1 \in Nat /\ m - 1 \notin Missing
      <3>1. m \in Nat
        OBVIOUS
      <3>2. m - 1 \in Nat /\ ~(m <= m - 1)
        BY <2>3, <3>1
      <3> HIDE DEF Missing
      <3> QED BY <2>2, <3>1, <3>2
    <2>5. PICK f : UpTo(m - 1, f)
      BY <2>4
    <2> DEFINE g == [l \in 0 .. m |->
                       IF l = m THEN [p \in DOMAIN tokens |-> SubSeq(f[m - 1], 1, p)] ELSE f[l]]
    <2>6. UpTo(m, g)
      <3>1. ASSUME NEW l \in 0 .. m
            PROVE  g[l] = [p \in DOMAIN tokens |->
                             IF l = 0 THEN Embed(tokens[p], p - 1) ELSE SubSeq(g[l - 1], 1, p)]
        <4>1. CASE l = m
          <5>1. l # 0 /\ l - 1 \in 0 .. m /\ l - 1 # m /\ g[l - 1] = f[m - 1]
            BY <2>3, <2>4, <4>1
          <5> QED BY <4>1, <5>1
        <4>2. CASE l # m
          <5>1. l \in 0 .. m - 1 /\ g[l] = f[l]
            BY <2>4, <4>2
          <5>2. f[l] = [p \in DOMAIN tokens |->
                          IF l = 0 THEN Embed(tokens[p], p - 1) ELSE SubSeq(f[l - 1], 1, p)]
            BY <2>5, <5>1
          <5>3. l # 0 => l - 1 \in 0 .. m /\ l - 1 # m /\ g[l - 1] = f[l - 1]
            BY <2>4, <5>1
          <5> QED BY <5>1, <5>2, <5>3
        <4> QED BY <4>1, <4>2
      <3> QED BY <3>1
    <2> QED BY <2>2, <2>6
  <1>3. NumLayers \in Nat \ {0}
    BY DecodeStepAssumption
  <1>4. \E f : UpTo(NumLayers, f)
    BY <1>2, <1>3
  <1>5. UpTo(NumLayers, Masked(tokens))
    BY <1>4 DEF Masked
  <1> DEFINE f == Masked(tokens)
  <1>6. f = [l \in 0 .. NumLayers |-> [p \in 1 .. n |->
               IF l = 0 THEN Embed(tokens[p], p - 1) ELSE SubSeq(f[l - 1], 1, p)]]
    BY <1>1, <1>5
  <1> HIDE DEF f
  <1>7. f[0] = [p \in 1 .. n |-> Embed(tokens[p], p - 1)]
    <2>1. 0 \in 0 .. NumLayers
      BY <1>3
    <2> QED BY <1>6, <2>1
  <1>8. ASSUME NEW l \in 1 .. NumLayers
        PROVE  f[l] = [p \in 1 .. n |-> SubSeq(f[l - 1], 1, p)]
    <2>1. l \in 0 .. NumLayers /\ l # 0
      BY <1>3
    <2> QED BY <1>6, <2>1
  <1>9. ASSUME NEW l \in 0 .. NumLayers PROVE IsList(f[l], n)
    <2>1. CASE l = 0
      BY <1>7, <2>1 DEF IsList
    <2>2. CASE l # 0
      <3>1. l \in 1 .. NumLayers
        BY <1>3, <2>2
      <3> QED BY <1>8, <3>1 DEF IsList
    <2> QED BY <2>1, <2>2
  <1>10. \A p \in 1 .. n : f[0][p] = Embed(tokens[p], p - 1)
    BY <1>7
  <1>11. \A l \in 1 .. NumLayers, p \in 1 .. n : f[l][p] = SubSeq(f[l - 1], 1, p)
    BY <1>8
  <1> QED BY <1>9, <1>10, <1>11 DEF f

(* The causal mask: a position does not see what comes after it, so a pass     *)
(* over a prefix gives the prefix of the pass.                                 *)
LEMMA MaskedOfPrefix ==
  ASSUME NEW n \in Nat, NEW tokens, IsList(tokens, n), NEW m \in 0 .. n, NEW l \in 0 .. NumLayers
  PROVE  Masked(SubSeq(tokens, 1, m))[l] = SubSeq(Masked(tokens)[l], 1, m)
  <1> DEFINE prefix == SubSeq(tokens, 1, m)
             Agree(k) == \A p \in 1 .. m : Masked(prefix)[k][p] = Masked(tokens)[k][p]
             Wrong == {k \in 0 .. NumLayers : ~Agree(k)}
  <1>1. /\ NumLayers \in Nat /\ m \in Nat /\ IsList(prefix, m)
        /\ \A p \in 1 .. m : prefix[p] = tokens[p] /\ p \in 1 .. n
    BY PrefixOfList, DecodeStepAssumption
  <1> HIDE DEF prefix
  <1>2. Wrong = {}
    <2>1. SUFFICES ASSUME Wrong # {} PROVE FALSE
      OBVIOUS
    <2>2. PICK k \in Wrong : \A j \in Wrong : k <= j
      <3>1. Wrong \subseteq Nat
        OBVIOUS
      <3> HIDE DEF Wrong
      <3> QED BY <2>1, <3>1, LeastOfNaturals
    <2>3. CASE k = 0
      <3>1. \A p \in 1 .. m : Masked(prefix)[0][p] = Embed(prefix[p], p - 1)
        BY <1>1, MaskedByLayer
      <3>2. \A p \in 1 .. n : Masked(tokens)[0][p] = Embed(tokens[p], p - 1)
        BY MaskedByLayer
      <3>3. Agree(0)
        BY <1>1, <3>1, <3>2
      <3> QED BY <2>2, <2>3, <3>3
    <2>4. CASE k # 0
      <3>1. k \in 1 .. NumLayers /\ k - 1 \in 0 .. NumLayers /\ ~(k <= k - 1)
        BY <1>1, <2>4
      <3>2. Agree(k - 1)
        <4> HIDE DEF Agree
        <4> QED BY <2>2, <3>1
      <3>3. ASSUME NEW p \in 1 .. m
            PROVE  Masked(prefix)[k][p] = Masked(tokens)[k][p]
        <4>1. p \in 0 .. m /\ p \in 0 .. n /\ p \in 1 .. n
          BY <1>1
        <4>2. SubSeq(Masked(prefix)[k - 1], 1, p) = [i \in 1 .. p |-> Masked(prefix)[k - 1][i]]
          BY <1>1, <3>1, <4>1, MaskedByLayer, PrefixOfList
        <4>3. SubSeq(Masked(tokens)[k - 1], 1, p) = [i \in 1 .. p |-> Masked(tokens)[k - 1][i]]
          BY <3>1, <4>1, MaskedByLayer, PrefixOfList
        <4>4. \A i \in 1 .. p : i \in 1 .. m
          BY <1>1
        <4>5. SubSeq(Masked(prefix)[k - 1], 1, p) = SubSeq(Masked(tokens)[k - 1], 1, p)
          BY <3>2, <4>2, <4>3, <4>4
        <4>6. Masked(prefix)[k][p] = SubSeq(Masked(prefix)[k - 1], 1, p)
          BY <1>1, <3>1, MaskedByLayer
        <4>7. Masked(tokens)[k][p] = SubSeq(Masked(tokens)[k - 1], 1, p)
          BY <3>1, <4>1, MaskedByLayer
        <4> QED BY <4>5, <4>6, <4>7
      <3>4. Agree(k)
        BY <3>3
      <3> HIDE DEF Agree
      <3> QED BY <2>2, <3>4
    <2> QED BY <2>3, <2>4
  <1>3. Agree(l)
    <2> HIDE DEF Agree
    <2> QED BY <1>2
  <1>4. IsList(Masked(prefix)[l], m) /\ IsList(Masked(tokens)[l], n)
    BY <1>1, MaskedByLayer
  <1>5. SubSeq(Masked(tokens)[l], 1, m) = [p \in 1 .. m |-> Masked(tokens)[l][p]]
    BY <1>4, PrefixOfList
  <1> QED BY <1>3, <1>4, <1>5 DEF IsList, prefix

(* What a row of the last position sees in a layer is all of the layer below.  *)
LEMMA LastSeesAll ==
  ASSUME NEW n \in Nat \ {0}, NEW tokens, IsList(tokens, n), NEW l \in Layers
  PROVE  Masked(tokens)[l + 1][n] = Masked(tokens)[l]
  <1>1. l \in 0 .. NumLayers /\ l + 1 \in 1 .. NumLayers /\ (l + 1) - 1 = l /\ n \in 1 .. n /\ n \in 0 .. n
    BY DecodeStepAssumption DEF Layers
  <1>2. IsList(Masked(tokens)[l], n)
    BY <1>1, MaskedByLayer
  <1>3. SubSeq(Masked(tokens)[l], 1, n) = Masked(tokens)[l]
    BY <1>1, <1>2, PrefixOfList DEF IsList
  <1>4. Masked(tokens)[l + 1][n] = SubSeq(Masked(tokens)[(l + 1) - 1], 1, n)
    BY <1>1, MaskedByLayer
  <1> QED BY <1>1, <1>3, <1>4

HasKeysOf(s, tokens) == \A l \in Layers : layers[s][l] = Masked(tokens)[l]

(* The recursion of one row defines what it says, as that of a pass does.      *)
LEMMA RowByLayer ==
  ASSUME NEW r
  PROVE  /\ RowHidden(r)[0] = Embed(LastToken(r), DecodePosition(r))
         /\ \A l \in 1 .. NumLayers :
              RowHidden(r)[l] = Append(layers[slot[r]][l - 1], RowHidden(r)[l - 1])
  <1> DEFINE UpTo(m, f) ==
        f = [l \in 0 .. m |-> IF l = 0 THEN Embed(LastToken(r), DecodePosition(r))
                              ELSE Append(layers[slot[r]][l - 1], f[l - 1])]
      Missing == {m \in Nat : ~\E f : UpTo(m, f)}
  <1>1. Missing = {}
    <2>1. SUFFICES ASSUME Missing # {} PROVE FALSE
      OBVIOUS
    <2>2. PICK m \in Missing : \A k \in Missing : m <= k
      <3>1. Missing \subseteq Nat
        OBVIOUS
      <3> HIDE DEF Missing
      <3> QED BY <2>1, <3>1, LeastOfNaturals
    <2>3. m # 0
      <3> DEFINE g == [l \in 0 .. 0 |-> Embed(LastToken(r), DecodePosition(r))]
      <3>1. UpTo(0, g)
        OBVIOUS
      <3> QED BY <3>1
    <2>4. m \in Nat /\ m - 1 \in Nat /\ m - 1 \notin Missing
      <3>1. m \in Nat
        OBVIOUS
      <3>2. m - 1 \in Nat /\ ~(m <= m - 1)
        BY <2>3, <3>1
      <3> HIDE DEF Missing
      <3> QED BY <2>2, <3>1, <3>2
    <2>5. PICK f : UpTo(m - 1, f)
      BY <2>4
    <2> DEFINE g == [l \in 0 .. m |-> IF l = m THEN Append(layers[slot[r]][m - 1], f[m - 1]) ELSE f[l]]
    <2>6. UpTo(m, g)
      <3>1. ASSUME NEW l \in 0 .. m
            PROVE  g[l] = IF l = 0 THEN Embed(LastToken(r), DecodePosition(r))
                          ELSE Append(layers[slot[r]][l - 1], g[l - 1])
        <4>1. CASE l = m
          <5>1. l # 0 /\ l - 1 \in 0 .. m /\ l - 1 # m /\ g[l - 1] = f[m - 1]
            BY <2>3, <2>4, <4>1
          <5> QED BY <4>1, <5>1
        <4>2. CASE l # m
          <5>1. l \in 0 .. m - 1 /\ g[l] = f[l]
            BY <2>4, <4>2
          <5>2. f[l] = IF l = 0 THEN Embed(LastToken(r), DecodePosition(r))
                       ELSE Append(layers[slot[r]][l - 1], f[l - 1])
            BY <2>5, <5>1
          <5>3. l # 0 => l - 1 \in 0 .. m /\ l - 1 # m /\ g[l - 1] = f[l - 1]
            BY <2>4, <5>1
          <5> QED BY <5>1, <5>2, <5>3
        <4> QED BY <4>1, <4>2
      <3> QED BY <3>1
    <2> QED BY <2>2, <2>6
  <1>2. NumLayers \in Nat \ {0}
    BY DecodeStepAssumption
  <1>3. \E f : UpTo(NumLayers, f)
    BY <1>1, <1>2
  <1>4. UpTo(NumLayers, RowHidden(r))
    BY <1>3 DEF RowHidden
  <1> DEFINE f == RowHidden(r)
  <1>5. f = [l \in 0 .. NumLayers |-> IF l = 0 THEN Embed(LastToken(r), DecodePosition(r))
                                     ELSE Append(layers[slot[r]][l - 1], f[l - 1])]
    BY <1>4
  <1> HIDE DEF f
  <1>6. f[0] = Embed(LastToken(r), DecodePosition(r))
    <2>1. 0 \in 0 .. NumLayers
      BY <1>2
    <2> QED BY <1>5, <2>1
  <1>7. ASSUME NEW l \in 1 .. NumLayers
        PROVE  f[l] = Append(layers[slot[r]][l - 1], f[l - 1])
    <2>1. l \in 0 .. NumLayers /\ l # 0
      BY <1>2
    <2> QED BY <1>5, <2>1
  <1> QED BY <1>6, <1>7 DEF f

(* One row through the cache is the last row of one pass over all tokens,      *)
(* when the cache has what a pass over all but the last one leaves there.      *)
LEMMA RowIsMasked ==
  ASSUME NEW r, NEW n \in Nat \ {0}, IsList(Tokens(r), n), DecodePosition(r) = n - 1,
         HasKeysOf(slot[r], Cached(Tokens(r))), NEW l \in 0 .. NumLayers
  PROVE  RowHidden(r)[l] = Masked(Tokens(r))[l][n]
  <1> DEFINE t == Tokens(r)
             Agree(k) == RowHidden(r)[k] = Masked(t)[k][n]
             Wrong == {k \in 0 .. NumLayers : ~Agree(k)}
  <1>1. NumLayers \in Nat /\ n \in 1 .. n /\ n - 1 \in 0 .. n /\ n - 1 \in Nat
    BY DecodeStepAssumption
  <1>2. Len(t) = n
    BY ListIsSequence
  <1>3. Agree(0)
    <2>1. LastToken(r) = t[n]
      BY <1>2 DEF LastToken, Last
    <2>2. Masked(t)[0][n] = Embed(t[n], n - 1)
      BY <1>1, MaskedByLayer
    <2> QED BY <1>1, <2>1, <2>2, RowByLayer
  <1>4. ASSUME NEW k \in Layers, Agree(k) PROVE Agree(k + 1)
    <2> DEFINE below == Masked(t)[k]
    <2>1. k \in 0 .. NumLayers /\ k + 1 \in 1 .. NumLayers /\ (k + 1) - 1 = k
      BY <1>1 DEF Layers
    <2>2. IsList(below, n)
      BY <2>1, MaskedByLayer
    <2>3. layers[slot[r]][k] = SubSeq(below, 1, n - 1)
      <3>1. layers[slot[r]][k] = Masked(Cached(t))[k]
        BY DEF HasKeysOf
      <3>2. Cached(t) = SubSeq(t, 1, n - 1)
        BY <1>2 DEF Cached
      <3> QED BY <1>1, <2>1, <3>1, <3>2, MaskedOfPrefix
    <2>4. RowHidden(r)[k + 1] = Append(SubSeq(below, 1, n - 1), below[n])
      BY <1>4, <2>1, <2>3, RowByLayer
    <2> HIDE DEF below
    <2>5. Append(SubSeq(below, 1, n - 1), below[n]) = below
      <3>1. /\ IsList(SubSeq(below, 1, n - 1), n - 1)
            /\ SubSeq(below, 1, n - 1) = [i \in 1 .. n - 1 |-> below[i]]
        BY <1>1, <2>2, PrefixOfList
      <3>2. Append(SubSeq(below, 1, n - 1), below[n])
              = [i \in 1 .. (n - 1) + 1 |-> IF i = (n - 1) + 1 THEN below[n] ELSE SubSeq(below, 1, n - 1)[i]]
        BY <1>1, <3>1, AppendToList
      <3>3. (n - 1) + 1 = n /\ \A i \in 1 .. n : i # n => i \in 1 .. n - 1
        OBVIOUS
      <3>4. Append(SubSeq(below, 1, n - 1), below[n]) = [i \in 1 .. n |-> below[i]]
        BY <3>1, <3>2, <3>3
      <3> QED BY <2>2, <3>4 DEF IsList
    <2>6. Masked(t)[k + 1][n] = below
      BY LastSeesAll DEF below
    <2> QED BY <2>4, <2>5, <2>6
  <1>5. Wrong = {}
    <2>1. SUFFICES ASSUME Wrong # {} PROVE FALSE
      OBVIOUS
    <2> HIDE DEF Agree
    <2>2. PICK k \in Wrong : \A j \in Wrong : k <= j
      <3>1. Wrong \subseteq Nat
        OBVIOUS
      <3> HIDE DEF Wrong
      <3> QED BY <2>1, <3>1, LeastOfNaturals
    <2>3. k - 1 \in Layers /\ k - 1 \in 0 .. NumLayers /\ (k - 1) + 1 = k /\ ~(k <= k - 1)
      BY <1>1, <1>3 DEF Layers
    <2>4. Agree(k - 1)
      BY <2>2, <2>3
    <2>5. Agree((k - 1) + 1)
      BY <1>4, <2>3, <2>4
    <2> QED BY <2>3, <2>5
  <1> QED BY <1>5

-----------------------------------------------------------------------------
(* The inductive invariant.                                                    *)

TypeOK ==
  /\ waiting \subseteq Requests /\ done \subseteq Requests
  /\ free \in Seq(1 .. MaxSlots) /\ slot \in [Requests -> 0 .. MaxSlots]
  /\ running \in Seq(Requests) /\ idx \in Nat
  /\ DOMAIN layers = 1 .. MaxSlots /\ DOMAIN generated = Requests
  /\ \A r \in Requests : generated[r] \in Seq(Range(generated[r]))

\* A slot is free once, or one sequence of the batch has it.
SlotsAreOwn ==
  /\ \A i, j \in DOMAIN running : slot[running[i]] = slot[running[j]] => i = j
  /\ \A i, j \in DOMAIN free : free[i] = free[j] => i = j
  /\ \A i \in DOMAIN running : slot[running[i]] # 0 /\ slot[running[i]] \notin Range(free)

WaitingAreFresh ==
  /\ waiting \cap (Range(running) \cup done) = {}
  /\ \A r \in waiting : generated[r] = <<>>

\* Between steps nobody of the batch is done, and within one only those whose
\* rows the loop is past.
DoneAreBehind == \A i \in DOMAIN running : running[i] \in done => i < idx

\* The tokens a slot has keys of: the row of this step feeds the last one, and
\* what was sampled from it is not fed yet.
Fed(i) ==
  IF i < idx \/ idx = 0 THEN Cached(Tokens(running[i])) ELSE Tokens(running[i])

CacheIsCurrent ==
  \A i \in DOMAIN running : running[i] \notin done => HasKeysOf(slot[running[i]], Fed(i))

DecodeInv ==
  /\ TypeOK /\ SlotsAreOwn /\ WaitingAreFresh /\ DoneAreBehind /\ CacheIsCurrent
  /\ BatchingIsInvisible

-----------------------------------------------------------------------------
(* The steps.                                                                  *)

LEMMA TokensOfRequest ==
  ASSUME TypeOK, NEW r \in Requests, NEW n, n = Len(Tokens(r))
  PROVE  /\ n \in Nat \ {0} /\ IsList(Tokens(r), n) /\ DecodePosition(r) = n - 1
         /\ generated[r] = <<>> => Tokens(r) = Prompt[r]
  <1> DEFINE U == Nat \cup Range(generated[r])
  <1>1. Prompt[r] \in Seq(U) /\ generated[r] \in Seq(U) /\ Len(Prompt[r]) \in Nat \ {0}
    <2>1. Prompt[r] \in Seq(Nat) /\ generated[r] \in Seq(Range(generated[r])) /\ Prompt[r] # <<>>
      BY DecodeStepAssumption DEF TypeOK
    <2>2. Prompt[r] \in Seq(U) /\ generated[r] \in Seq(U)
      BY <2>1, SeqMonotonic
    <2>3. Len(Prompt[r]) \in Nat \ {0}
      BY <2>1, EmptySeq, LenProperties
    <2> QED BY <2>2, <2>3
  <1> HIDE DEF U
  <1>2. Tokens(r) \in Seq(U) /\ n = Len(Prompt[r]) + Len(generated[r]) /\ Len(generated[r]) \in Nat
    BY <1>1, ConcatProperties, LenProperties DEF Tokens
  <1>3. n \in Nat \ {0} /\ IsList(Tokens(r), n)
    <2>1. IsList(Tokens(r), n)
      BY <1>2, SequenceIsList
    <2>2. \A a \in Nat \ {0}, b \in Nat : a + b \in Nat \ {0}
      OBVIOUS
    <2>3. Len(Prompt[r]) + Len(generated[r]) \in Nat \ {0}
      BY <1>1, <1>2, <2>2
    <2>4. n \in Nat \ {0}
      BY <1>2, <2>3
    <2> QED BY <2>1, <2>4
  <1>4. generated[r] = <<>> => Tokens(r) = Prompt[r]
    BY <1>1, ConcatEmptySeq DEF Tokens
  <1>5. DecodePosition(r) = n - 1
    BY <1>2 DEF DecodePosition
  <1> QED BY <1>3, <1>4, <1>5

LEMMA RunningAreRequests ==
  ASSUME TypeOK
  PROVE  /\ Len(running) \in Nat /\ DOMAIN running = 1 .. Len(running)
         /\ \A i \in DOMAIN running : running[i] \in Requests /\ running[i] \in Range(running)
  BY LenProperties DEF TypeOK, Range

LEMMA FreeAreSlots ==
  ASSUME TypeOK
  PROVE  /\ Len(free) \in Nat /\ DOMAIN free = 1 .. Len(free)
         /\ \A i \in DOMAIN free : free[i] \in 1 .. MaxSlots /\ free[i] \in Range(free)
  <1>1. Len(free) \in Nat /\ free \in [1 .. Len(free) -> 1 .. MaxSlots]
    BY LenProperties DEF TypeOK
  <1> QED BY <1>1 DEF Range

\* What a lease takes from the front of the free list.
LEMMA FrontOfFree ==
  ASSUME TypeOK, SlotsAreOwn, free # <<>>
  PROVE  /\ Head(free) \in 1 .. MaxSlots /\ Head(free) \in Range(free)
         /\ Tail(free) \in Seq(1 .. MaxSlots)
         /\ \A i, j \in DOMAIN Tail(free) : Tail(free)[i] = Tail(free)[j] => i = j
         /\ Range(Tail(free)) = Range(free) \ {Head(free)}
  <1>1. free \in Seq(1 .. MaxSlots) /\ Len(free) \in Nat /\ DOMAIN free = 1 .. Len(free) /\ Len(free) # 0
    BY FreeAreSlots, EmptySeq DEF TypeOK
  <1>2. /\ Tail(free) \in Seq(1 .. MaxSlots) /\ Len(Tail(free)) = Len(free) - 1
        /\ Head(free) = free[1] /\ \A i \in 1 .. Len(free) - 1 : Tail(free)[i] = free[i + 1]
    BY <1>1, HeadTailProperties
  <1>3. DOMAIN Tail(free) = 1 .. Len(free) - 1
    BY <1>2, LenProperties
  <1>4. 1 \in DOMAIN free /\ \A i \in 1 .. Len(free) - 1 : i + 1 \in DOMAIN free /\ i + 1 # 1
    BY <1>1
  <1>5. \A i, j \in DOMAIN free : free[i] = free[j] => i = j
    BY DEF SlotsAreOwn
  <1>6. \A i, j \in DOMAIN Tail(free) : Tail(free)[i] = Tail(free)[j] => i = j
    <2> SUFFICES ASSUME NEW i \in 1 .. Len(free) - 1, NEW j \in 1 .. Len(free) - 1, free[i + 1] = free[j + 1]
                 PROVE  i = j
      BY <1>2, <1>3
    <2>1. i + 1 = j + 1
      BY <1>4, <1>5
    <2> QED BY <2>1
  <1>7. Range(Tail(free)) = Range(free) \ {Head(free)}
    <2>1. ASSUME NEW x \in Range(Tail(free)) PROVE x \in Range(free) \ {Head(free)}
      <3>1. PICK i \in 1 .. Len(free) - 1 : x = free[i + 1]
        BY <1>2, <1>3, <2>1 DEF Range
      <3> QED BY <1>2, <1>4, <1>5, <3>1 DEF Range
    <2>2. ASSUME NEW x \in Range(free) \ {Head(free)} PROVE x \in Range(Tail(free))
      <3>1. PICK i \in DOMAIN free : x = free[i]
        BY <2>2 DEF Range
      <3>2. i # 1
        BY <1>2, <2>2, <3>1
      <3>3. i - 1 \in 1 .. Len(free) - 1 /\ (i - 1) + 1 = i
        BY <1>1, <3>1, <3>2
      <3> QED BY <1>2, <1>3, <3>1, <3>3 DEF Range
    <2> QED BY <2>1, <2>2
  <1> QED BY <1>2, <1>4, <1>6, <1>7, FreeAreSlots

LEMMA AdmitKeepsInv ==
  ASSUME DecodeInv, NEW r \in Requests, Admit(r)
  PROVE  DecodeInv'
  <1> DEFINE s == Head(free)
             n == Len(running)
  <1>1. /\ idx = 0 /\ idx' = 0 /\ r \in waiting /\ free # <<>> /\ free' = Tail(free)
        /\ waiting' = waiting \ {r} /\ running' = Append(running, r) /\ done' = done
        /\ slot' = [slot EXCEPT ![r] = s] /\ generated' = generated
    BY DEF Admit
  <1>2. TypeOK /\ SlotsAreOwn /\ WaitingAreFresh /\ DoneAreBehind /\ CacheIsCurrent
    BY DEF DecodeInv
  <1>3. /\ n \in Nat /\ DOMAIN running = 1 .. n
        /\ \A i \in 1 .. n : running[i] \in Requests /\ running[i] \in Range(running)
    BY <1>2, RunningAreRequests
  <1>4. /\ s \in 1 .. MaxSlots /\ s \in Range(free) /\ s # 0
        /\ free' \in Seq(1 .. MaxSlots) /\ Range(free') = Range(free) \ {s}
        /\ \A i, j \in DOMAIN free' : free'[i] = free'[j] => i = j
    BY <1>1, <1>2, FrontOfFree
  <1>5. /\ running' \in Seq(Requests) /\ DOMAIN running' = 1 .. n + 1
        /\ running'[n + 1] = r /\ \A i \in 1 .. n : running'[i] = running[i]
    <2>1. running \in Seq(Requests)
      BY <1>2 DEF TypeOK
    <2> QED BY <1>1, <1>3, <2>1, AppendProperties, LenProperties
  <1>6. \A i \in 1 .. n : running[i] # r
    BY <1>1, <1>2, <1>3 DEF WaitingAreFresh
  <1>7. /\ slot' \in [Requests -> 0 .. MaxSlots] /\ slot'[r] = s
        /\ \A i \in 1 .. n : slot'[running[i]] = slot[running[i]]
    <2>1. slot \in [Requests -> 0 .. MaxSlots] /\ s \in 0 .. MaxSlots
      BY <1>2, <1>4 DEF TypeOK
    <2> QED BY <1>1, <1>3, <1>6, <2>1
  <1>8. DOMAIN layers' = 1 .. MaxSlots /\ \A l \in Layers : layers'[s][l] = Masked(Cached(Prompt[r]))[l]
    <2>1. DOMAIN layers = 1 .. MaxSlots
      BY <1>2 DEF TypeOK
    <2>2. \A l \in Layers : l < NumLayers
      BY DecodeStepAssumption DEF Layers
    <2>3. layers' = [layers EXCEPT ![s] =
             [l \in Layers |-> IF Prefilled(Prompt[r], NumLayers)[l] = <<>> THEN Allocate(s)[l]
                               ELSE Prefilled(Prompt[r], NumLayers)[l]]]
      BY DEF Admit, Lease
    <2>4. \A l \in Layers : /\ Prefilled(Prompt[r], NumLayers)[l] = Masked(Cached(Prompt[r]))[l]
                            /\ Allocate(s)[l] = <<>>
      BY <2>2 DEF Prefilled, Allocate
    <2>5. layers'[s] = [l \in Layers |-> IF Prefilled(Prompt[r], NumLayers)[l] = <<>> THEN Allocate(s)[l]
                                         ELSE Prefilled(Prompt[r], NumLayers)[l]]
      BY <1>4, <2>1, <2>3
    <2> QED BY <2>1, <2>3, <2>4, <2>5
  <1>9. \A i \in 1 .. n : layers'[slot[running[i]]] = layers[slot[running[i]]]
    <2>1. \A i \in 1 .. n : slot[running[i]] # s /\ slot[running[i]] \in 1 .. MaxSlots
      <3> SUFFICES ASSUME NEW i \in 1 .. n PROVE slot[running[i]] # s /\ slot[running[i]] \in 1 .. MaxSlots
        OBVIOUS
      <3>1. slot[running[i]] # 0 /\ slot[running[i]] # s
        BY <1>2, <1>3, <1>4 DEF SlotsAreOwn
      <3>2. slot[running[i]] \in 0 .. MaxSlots /\ MaxSlots \in Nat
        BY <1>2, <1>3, DecodeStepAssumption DEF TypeOK
      <3> QED BY <3>1, <3>2
    <2>2. DOMAIN layers = 1 .. MaxSlots
      BY <1>2 DEF TypeOK
    <2> QED BY <2>1, <2>2 DEF Admit, Lease
  <1> HIDE DEF s, n
  <1>10. TypeOK'
    BY <1>1, <1>2, <1>4, <1>5, <1>7, <1>8 DEF TypeOK
  <1>11. SlotsAreOwn'
    <2>1. \A i \in 1 .. n : slot[running[i]] # s /\ slot[running[i]] # 0 /\ slot[running[i]] \notin Range(free)
      BY <1>2, <1>3, <1>4 DEF SlotsAreOwn
    <2>2. \A i \in 1 .. n + 1 : i \in 1 .. n \/ i = n + 1
      BY <1>3
    <2>3. ASSUME NEW i \in 1 .. n + 1, NEW j \in 1 .. n + 1, slot'[running'[i]] = slot'[running'[j]]
          PROVE  i = j
      <3>1. \A k \in 1 .. n : slot'[running'[k]] = slot[running[k]] /\ slot[running[k]] # s
        BY <1>5, <1>7, <2>1
      <3>2. slot'[running'[n + 1]] = s
        BY <1>5, <1>7
      <3>3. CASE i \in 1 .. n /\ j \in 1 .. n
        <4>1. slot[running[i]] = slot[running[j]] /\ i \in DOMAIN running /\ j \in DOMAIN running
          BY <1>3, <2>3, <3>1, <3>3
        <4> QED BY <1>2, <4>1 DEF SlotsAreOwn
      <3>4. CASE i = n + 1 \/ j = n + 1
        BY <2>2, <2>3, <3>1, <3>2, <3>4
      <3> QED BY <2>2, <3>3, <3>4
    <2>4. ASSUME NEW i \in 1 .. n + 1
          PROVE  slot'[running'[i]] # 0 /\ slot'[running'[i]] \notin Range(free')
      <3>1. CASE i = n + 1
        BY <1>4, <1>5, <1>7, <3>1
      <3>2. CASE i # n + 1
        <4>1. i \in 1 .. n
          BY <2>2, <3>2
        <4> QED BY <1>4, <1>5, <1>7, <2>1, <4>1
      <3> QED BY <3>1, <3>2
    <2> QED BY <1>4, <1>5, <2>3, <2>4 DEF SlotsAreOwn
  <1>12. WaitingAreFresh'
    <2>1. Range(running') = Range(running) \cup {r}
      <3>1. \A i \in 1 .. n + 1 : i \in 1 .. n \/ i = n + 1
        BY <1>3
      <3>2. \A i \in 1 .. n : i \in 1 .. n + 1
        BY <1>3
      <3>3. n + 1 \in 1 .. n + 1
        BY <1>3
      <3> QED BY <1>3, <1>5, <3>1, <3>2, <3>3 DEF Range
    <2> QED BY <1>1, <1>2, <2>1 DEF WaitingAreFresh
  <1>13. DoneAreBehind'
    <2> SUFFICES ASSUME NEW i \in 1 .. n + 1, running'[i] \in done PROVE FALSE
      BY <1>1, <1>5 DEF DoneAreBehind
    <2>1. CASE i = n + 1
      BY <1>1, <1>2, <1>5, <2>1 DEF WaitingAreFresh
    <2>2. CASE i # n + 1
      <3>1. i \in 1 .. n
        BY <1>3, <2>2
      <3>2. i \in DOMAIN running /\ running[i] \in done
        BY <1>3, <1>5, <3>1
      <3>3. i < idx
        BY <1>2, <3>2 DEF DoneAreBehind
      <3> QED BY <1>1, <3>1, <3>3
    <2> QED BY <2>1, <2>2
  <1>14. CacheIsCurrent'
    <2>1. \A i : Fed(i)' = Cached(Tokens(running'[i]))
      BY <1>1 DEF Fed, Tokens, Cached
    <2>2. done' = done
      BY <1>1
    <2>3. DOMAIN running' = 1 .. n + 1
      BY <1>5
    <2> SUFFICES ASSUME NEW i \in 1 .. n + 1, running'[i] \notin done, NEW l \in Layers
                 PROVE  layers'[slot'[running'[i]]][l] = Masked(Cached(Tokens(running'[i])))[l]
      BY <2>1, <2>2, <2>3 DEF CacheIsCurrent, HasKeysOf
    <2>4. CASE i = n + 1
      <3>1. Tokens(r) = Prompt[r]
        BY <1>1, <1>2, TokensOfRequest DEF WaitingAreFresh
      <3> QED BY <1>5, <1>7, <1>8, <2>4, <3>1
    <2>5. CASE i # n + 1
      <3>1. i \in 1 .. n
        BY <1>3, <2>5
      <3>2. layers[slot[running[i]]][l] = Masked(Cached(Tokens(running[i])))[l]
        BY <1>1, <1>2, <1>3, <1>5, <3>1 DEF CacheIsCurrent, Fed, HasKeysOf
      <3> QED BY <1>5, <1>7, <1>9, <3>1, <3>2
    <2> QED BY <2>4, <2>5
  <1>15. BatchingIsInvisible'
    BY <1>1 DEF BatchingIsInvisible
  <1> QED BY <1>10, <1>11, <1>12, <1>13, <1>14, <1>15 DEF DecodeInv

\* Nothing in the batch changes, and no logits are in use.
LEMMA BatchStays ==
  ASSUME DecodeInv, idx = 0, waiting' \subseteq waiting,
         UNCHANGED <<idx, slot, running, generated, done>>,
         free' \in Seq(1 .. MaxSlots), Range(free') \subseteq Range(free),
         \A i, j \in DOMAIN free' : free'[i] = free'[j] => i = j,
         DOMAIN layers' = 1 .. MaxSlots,
         \A i \in DOMAIN running : layers'[slot[running[i]]] = layers[slot[running[i]]]
  PROVE  DecodeInv'
  <1>1. TypeOK'
    BY DEF DecodeInv, TypeOK
  <1>2. SlotsAreOwn'
    BY DEF DecodeInv, SlotsAreOwn
  <1>3. WaitingAreFresh' /\ DoneAreBehind' /\ BatchingIsInvisible'
    BY DEF DecodeInv, WaitingAreFresh, DoneAreBehind, BatchingIsInvisible
  <1>4. CacheIsCurrent'
    <2>1. \A i : Fed(i)' = Fed(i)
      BY DEF Fed, Tokens, Cached
    <2>2. CacheIsCurrent
      BY DEF DecodeInv
    <2> QED BY <2>1, <2>2 DEF CacheIsCurrent, HasKeysOf
  <1> QED BY <1>1, <1>2, <1>3, <1>4 DEF DecodeInv

\* The lease goes to the back of the free list.
LEMMA AdmitFailsKeepsInv ==
  ASSUME DecodeInv, NEW r \in Requests, AdmitFails(r)
  PROVE  DecodeInv'
  <1> DEFINE s == Head(free)
             n == Len(Tail(free))
  <1>1. /\ idx = 0 /\ free # <<>> /\ free' = Append(Tail(free), s) /\ waiting' \subseteq waiting
        /\ UNCHANGED <<idx, slot, running, generated, done>>
    BY DEF AdmitFails
  <1>2. TypeOK /\ SlotsAreOwn
    BY DEF DecodeInv
  <1>3. /\ s \in 1 .. MaxSlots /\ s \in Range(free) /\ Tail(free) \in Seq(1 .. MaxSlots)
        /\ \A i, j \in DOMAIN Tail(free) : Tail(free)[i] = Tail(free)[j] => i = j
        /\ Range(Tail(free)) = Range(free) \ {s}
    BY <1>1, <1>2, FrontOfFree
  <1>4. n \in Nat /\ DOMAIN Tail(free) = 1 .. n /\ \A i \in 1 .. n : Tail(free)[i] \in Range(free) \ {s}
    BY <1>3, LenProperties DEF Range
  <1>5. /\ free' \in Seq(1 .. MaxSlots) /\ DOMAIN free' = 1 .. n + 1
        /\ free'[n + 1] = s /\ \A i \in 1 .. n : free'[i] = Tail(free)[i]
    BY <1>1, <1>3, <1>4, AppendProperties, LenProperties
  <1>6. DOMAIN layers' = 1 .. MaxSlots /\ \A i \in DOMAIN running : layers'[slot[running[i]]] = layers[slot[running[i]]]
    <2>1. DOMAIN layers = 1 .. MaxSlots
      BY <1>2 DEF TypeOK
    <2>2. PICK m \in Layers : Lease(r, m)
      BY DEF AdmitFails
    <2>3. ASSUME NEW i \in DOMAIN running PROVE slot[running[i]] # s /\ slot[running[i]] \in 1 .. MaxSlots
      <3>1. slot[running[i]] # 0 /\ slot[running[i]] # s
        BY <1>2, <1>3 DEF SlotsAreOwn
      <3>2. slot[running[i]] \in 0 .. MaxSlots /\ MaxSlots \in Nat
        BY <1>2, RunningAreRequests, DecodeStepAssumption DEF TypeOK
      <3> QED BY <3>1, <3>2
    <2> QED BY <2>1, <2>2, <2>3 DEF Lease
  <1> HIDE DEF s, n
  <1>7. \A i \in 1 .. n + 1 : i \in 1 .. n \/ i = n + 1
    BY <1>4
  <1>8. ASSUME NEW i \in DOMAIN free', NEW j \in DOMAIN free', free'[i] = free'[j]
        PROVE  i = j
    BY <1>3, <1>4, <1>5, <1>7, <1>8
  <1>9. Range(free') \subseteq Range(free)
    <2> SUFFICES ASSUME NEW i \in 1 .. n + 1 PROVE free'[i] \in Range(free)
      BY <1>5 DEF Range
    <2> QED BY <1>3, <1>4, <1>5, <1>7
  <1> QED BY <1>1, <1>5, <1>6, <1>8, <1>9, BatchStays

\* What a forward writes in the slot of a sequence of the batch.
LEMMA WrittenForRunning ==
  ASSUME DecodeInv, NEW i \in DOMAIN running, NEW l \in Layers
  PROVE  Written(NumLayers, 0)[slot[running[i]]][l] = RowHidden(running[i])[l + 1]
  <1> DEFINE s == slot[running[i]]
             At(k) == k \in DOMAIN running /\ slot[running[k]] = s
  <1>1. TypeOK /\ SlotsAreOwn
    BY DEF DecodeInv
  <1>2. s \in 1 .. MaxSlots /\ DOMAIN layers = 1 .. MaxSlots
    <2>1. s # 0 /\ s \in 0 .. MaxSlots /\ MaxSlots \in Nat
      BY <1>1, RunningAreRequests, DecodeStepAssumption DEF SlotsAreOwn, TypeOK
    <2> QED BY <1>1, <2>1 DEF TypeOK
  <1>3. l < NumLayers
    BY DecodeStepAssumption DEF Layers
  <1>4. (CHOOSE k \in DOMAIN running : slot[running[k]] = s) = i
    <2>1. \A k \in DOMAIN running : slot[running[k]] = s => k = i
      BY <1>1 DEF SlotsAreOwn
    <2> QED BY <2>1
  <1>5. \E k \in DOMAIN running :
           slot[running[k]] = s /\ (l < NumLayers \/ (l = NumLayers /\ k <= 0))
    BY <1>3
  <1> HIDE DEF s
  <1> QED BY <1>2, <1>4, <1>5 DEF Written

(* A forward feeds each row the last token of its sequence on top of the keys  *)
(* of the others: the row, and what it leaves in the slot, are those of one    *)
(* pass over the sequence's own tokens.                                        *)
LEMMA ForwardKeepsInv ==
  ASSUME DecodeInv, Forward
  PROVE  DecodeInv'
  <1>1. /\ idx = 0 /\ idx' = 1 /\ layers' = Written(NumLayers, 0)
        /\ logits' = [i \in DOMAIN running |-> RowHidden(running[i])[NumLayers]]
        /\ UNCHANGED <<waiting, free, slot, running, generated, done>>
    BY DEF Forward
  <1>2. TypeOK /\ SlotsAreOwn /\ WaitingAreFresh /\ DoneAreBehind /\ CacheIsCurrent
    BY DEF DecodeInv
  <1>3. Len(running) \in Nat /\ DOMAIN running = 1 .. Len(running)
    BY <1>2, RunningAreRequests
  <1>4. \A i \in DOMAIN running : running[i] \notin done
    <2>1. \A i \in DOMAIN running : ~(i < 0)
      BY <1>3
    <2> QED BY <1>1, <1>2, <2>1 DEF DoneAreBehind
  <1>5. ASSUME NEW i \in DOMAIN running, NEW n, n = Len(Tokens(running[i]))
        PROVE  /\ n \in Nat \ {0} /\ IsList(Tokens(running[i]), n)
               /\ \A l \in 0 .. NumLayers : RowHidden(running[i])[l] = Masked(Tokens(running[i]))[l][n]
    <2>1. running[i] \in Requests
      BY <1>2, RunningAreRequests
    <2>2. n \in Nat \ {0} /\ IsList(Tokens(running[i]), n) /\ DecodePosition(running[i]) = n - 1
      BY <1>2, <1>5, <2>1, TokensOfRequest
    <2>3. HasKeysOf(slot[running[i]], Cached(Tokens(running[i])))
      BY <1>1, <1>2, <1>4 DEF CacheIsCurrent, Fed
    <2> QED BY <2>2, <2>3, RowIsMasked
  <1>6. TypeOK'
    <2>1. DOMAIN layers' = 1 .. MaxSlots
      BY <1>1, <1>2 DEF TypeOK, Written
    <2> QED BY <1>1, <1>2, <2>1 DEF TypeOK
  <1>7. SlotsAreOwn' /\ WaitingAreFresh'
    BY <1>1, <1>2 DEF SlotsAreOwn, WaitingAreFresh
  <1>8. DoneAreBehind'
    BY <1>1, <1>4 DEF DoneAreBehind
  <1>9. CacheIsCurrent'
    <2>1. \A i \in DOMAIN running : Fed(i)' = Tokens(running[i])
      <3>1. \A i \in DOMAIN running : ~(i < 1 \/ 1 = 0)
        BY <1>3
      <3> QED BY <1>1, <3>1 DEF Fed, Tokens
    <2>2. ASSUME NEW i \in DOMAIN running, NEW l \in Layers
          PROVE  layers'[slot[running[i]]][l] = Masked(Tokens(running[i]))[l]
      <3> DEFINE n == Len(Tokens(running[i]))
      <3>1. l + 1 \in 0 .. NumLayers
        BY DecodeStepAssumption DEF Layers
      <3>2. layers'[slot[running[i]]][l] = RowHidden(running[i])[l + 1]
        BY <1>1, WrittenForRunning
      <3>3. RowHidden(running[i])[l + 1] = Masked(Tokens(running[i]))[l + 1][n]
        BY <1>5, <3>1
      <3>4. Masked(Tokens(running[i]))[l + 1][n] = Masked(Tokens(running[i]))[l]
        BY <1>5, LastSeesAll
      <3> QED BY <3>2, <3>3, <3>4
    <2> QED BY <1>1, <2>1, <2>2 DEF CacheIsCurrent, HasKeysOf
  <1>10. BatchingIsInvisible'
    <2>1. NumLayers \in 0 .. NumLayers
      BY DecodeStepAssumption
    <2>2. \A i \in DOMAIN running :
            logits'[i] = Masked(Tokens(running[i]))[NumLayers][Len(Tokens(running[i]))]
      BY <1>1, <1>5, <2>1
    <2>3. Len(running') = Len(running) /\ \A i \in idx' .. Len(running) : i \in DOMAIN running
      BY <1>1, <1>3
    <2>4. \A i : Tokens(running[i])' = Tokens(running[i])
      BY <1>1 DEF Tokens
    <2> QED BY <1>1, <2>2, <2>3, <2>4 DEF BatchingIsInvisible
  <1> QED BY <1>6, <1>7, <1>8, <1>9, <1>10 DEF DecodeInv

LEMMA OrderIsInjective ==
  ASSUME NEW m \in Nat, NEW K \in SUBSET (1 .. m), NEW f \in InOrder(K), NEW n, n = Cardinality(K)
  PROVE  /\ n \in Nat /\ f \in [1 .. n -> K] /\ DOMAIN f = 1 .. n
         /\ \A i, j \in 1 .. n : f[i] = f[j] => i = j
  <1>1. n \in Nat
    <2>1. IsFiniteSet(1 .. m)
      <3>1. 1 \in Int /\ m \in Int
        OBVIOUS
      <3> QED BY <3>1, FS_Interval
    <2>2. IsFiniteSet(K)
      BY <2>1, FS_Subset
    <2> QED BY <2>2, FS_CardinalityType
  <1>2. f \in [1 .. n -> K] /\ DOMAIN f = 1 .. n /\ \A i, j \in 1 .. n : i < j => f[i] < f[j]
    BY DEF InOrder
  <1>3. ASSUME NEW i \in 1 .. n, NEW j \in 1 .. n, f[i] = f[j] PROVE i = j
    <2>1. f[i] \in Nat
      <3>1. f[i] \in K
        BY <1>2
      <3>2. K \subseteq Nat
        OBVIOUS
      <3> QED BY <3>1, <3>2
    <2>2. \A x \in Nat : ~(x < x)
      OBVIOUS
    <2>3. ~(i < j) /\ ~(j < i)
      BY <1>2, <1>3, <2>1, <2>2
    <2> QED BY <1>1, <2>3
  <1> QED BY <1>1, <1>2, <1>3

(* What leaves the batch gives its slot back once, what stays keeps its own.   *)
LEMMA ReleaseKeepsSlots ==
  ASSUME TypeOK, SlotsAreOwn, NEW gone, Release(gone)
  PROVE  /\ running' \in Seq(Requests) /\ free' \in Seq(1 .. MaxSlots)
         /\ slot' \in [Requests -> 0 .. MaxSlots]
         /\ \A i \in DOMAIN running' : \E k \in DOMAIN running :
              running'[i] = running[k] /\ running[k] \notin gone /\ slot'[running[k]] = slot[running[k]]
         /\ SlotsAreOwn'
  <1> DEFINE leaving == {i \in DOMAIN running : running[i] \in gone}
             staying == DOMAIN running \ leaving
             n == Cardinality(staying)
             m == Cardinality(leaving)
  <1>1. PICK stay \in InOrder(staying), leave \in InOrder(leaving) :
          /\ running' = [i \in DOMAIN stay |-> running[stay[i]]]
          /\ free' = free \o [i \in DOMAIN leave |-> slot[running[leave[i]]]]
          /\ slot' = [r \in Requests |-> IF r \in gone THEN 0 ELSE slot[r]]
    BY DEF Release
  <1>2. /\ Len(running) \in Nat /\ DOMAIN running = 1 .. Len(running)
        /\ \A i \in DOMAIN running : running[i] \in Requests
    BY RunningAreRequests
  <1>3. \A i \in staying : i \in DOMAIN running /\ running[i] \notin gone
    OBVIOUS
  <1>4. \A i \in leaving : i \in DOMAIN running /\ running[i] \in gone
    OBVIOUS
  <1>5. /\ n \in Nat /\ stay \in [1 .. n -> staying] /\ DOMAIN stay = 1 .. n
        /\ \A i, j \in 1 .. n : stay[i] = stay[j] => i = j
    <2>1. staying \in SUBSET (1 .. Len(running))
      BY <1>2
    <2> HIDE DEF staying
    <2> QED BY <1>2, <2>1, OrderIsInjective
  <1>6. /\ m \in Nat /\ leave \in [1 .. m -> leaving] /\ DOMAIN leave = 1 .. m
        /\ \A i, j \in 1 .. m : leave[i] = leave[j] => i = j
    <2>1. leaving \in SUBSET (1 .. Len(running))
      BY <1>2
    <2> HIDE DEF leaving
    <2> QED BY <1>2, <2>1, OrderIsInjective
  <1> HIDE DEF leaving, staying, n, m
  <1>7. ASSUME NEW i \in DOMAIN running PROVE slot[running[i]] \in 1 .. MaxSlots
    <2>1. slot[running[i]] # 0 /\ slot[running[i]] \in 0 .. MaxSlots /\ MaxSlots \in Nat
      BY <1>2, DecodeStepAssumption DEF SlotsAreOwn, TypeOK
    <2> QED BY <2>1
  <1>8. /\ running' \in Seq(Requests) /\ DOMAIN running' = 1 .. n
        /\ \A i \in 1 .. n : running'[i] = running[stay[i]] /\ stay[i] \in staying
    <2>1. running' \in [1 .. n -> Requests] /\ \A i \in 1 .. n : running'[i] = running[stay[i]] /\ stay[i] \in staying
      BY <1>1, <1>2, <1>3, <1>5
    <2> QED BY <1>5, <2>1, SeqDef
  <1>9. slot' \in [Requests -> 0 .. MaxSlots]
    <2>1. slot \in [Requests -> 0 .. MaxSlots] /\ 0 \in 0 .. MaxSlots
      BY DecodeStepAssumption DEF TypeOK
    <2> QED BY <1>1, <2>1
  <1>10. \A k \in staying : slot'[running[k]] = slot[running[k]]
    BY <1>1, <1>2, <1>3
  <1> DEFINE back == [i \in DOMAIN leave |-> slot[running[leave[i]]]]
             f == Len(free)
  <1>11. /\ back \in Seq(1 .. MaxSlots) /\ Len(back) = m
         /\ \A i \in 1 .. m : back[i] = slot[running[leave[i]]] /\ leave[i] \in leaving
    <2>1. back \in [1 .. m -> 1 .. MaxSlots] /\ \A i \in 1 .. m : back[i] = slot[running[leave[i]]] /\ leave[i] \in leaving
      BY <1>4, <1>6, <1>7
    <2> HIDE DEF back
    <2>2. m \in Nat /\ back \in [1 .. m -> 1 .. MaxSlots]
      BY <1>6, <2>1
    <2>3. back \in Seq(1 .. MaxSlots)
      BY <2>2, SeqDef
    <2>4. Len(back) = m
      BY <2>2, <2>3, LenProperties
    <2> QED BY <2>1, <2>3, <2>4
  <1>12. free' = free \o back
    BY <1>1
  <1> HIDE DEF back
  <1>13. /\ f \in Nat /\ DOMAIN free = 1 .. f /\ \A i \in 1 .. f : free[i] \in Range(free)
         /\ free \in Seq(1 .. MaxSlots)
    BY FreeAreSlots DEF TypeOK
  <1>14. /\ free' \in Seq(1 .. MaxSlots) /\ DOMAIN free' = 1 .. f + m
         /\ \A i \in 1 .. f + m : free'[i] = IF i <= f THEN free[i] ELSE back[i - f]
    BY <1>11, <1>12, <1>13, ConcatProperties, LenProperties
  <1> HIDE DEF f
  <1>15. ASSUME NEW i \in 1 .. f + m
         PROVE  \/ i \in 1 .. f /\ free'[i] = free[i]
                \/ i - f \in 1 .. m /\ free'[i] = slot[running[leave[i - f]]] /\ leave[i - f] \in leaving
    <2>1. i <= f => i \in 1 .. f
      BY <1>13
    <2>2. ~(i <= f) => i - f \in 1 .. m
      BY <1>6, <1>13
    <2> QED BY <1>11, <1>14, <2>1, <2>2
  <1>16. \A i, j \in DOMAIN running : slot[running[i]] = slot[running[j]] => i = j
    BY DEF SlotsAreOwn
  <1>17. \A i \in DOMAIN running : slot[running[i]] # 0 /\ slot[running[i]] \notin Range(free)
    BY DEF SlotsAreOwn
  <1>18. ASSUME NEW i \in 1 .. n, NEW j \in 1 .. n, slot'[running'[i]] = slot'[running'[j]] PROVE i = j
    <2>1. stay[i] = stay[j]
      BY <1>3, <1>8, <1>10, <1>16, <1>18
    <2> QED BY <1>5, <2>1
  <1>19. ASSUME NEW i \in 1 .. f + m, NEW j \in 1 .. f + m, free'[i] = free'[j] PROVE i = j
    <2>1. CASE i \in 1 .. f /\ j \in 1 .. f /\ free'[i] = free[i] /\ free'[j] = free[j]
      BY <1>13, <1>19, <2>1 DEF SlotsAreOwn
    <2>2. CASE /\ i - f \in 1 .. m /\ free'[i] = slot[running[leave[i - f]]] /\ leave[i - f] \in leaving
               /\ j - f \in 1 .. m /\ free'[j] = slot[running[leave[j - f]]] /\ leave[j - f] \in leaving
      <3>1. leave[i - f] = leave[j - f]
        BY <1>4, <1>16, <1>19, <2>2
      <3>2. i - f = j - f
        BY <1>6, <2>2, <3>1
      <3> QED BY <1>13, <3>2
    <2>3. ASSUME NEW a \in 1 .. f, NEW b \in leaving PROVE free[a] # slot[running[b]]
      BY <1>4, <1>13, <1>17
    <2> QED BY <1>15, <1>19, <2>1, <2>2, <2>3
  <1>20. ASSUME NEW i \in 1 .. n PROVE slot'[running'[i]] # 0 /\ slot'[running'[i]] \notin Range(free')
    <2>1. slot'[running'[i]] = slot[running[stay[i]]] /\ stay[i] \in staying
      BY <1>8, <1>10
    <2>2. ASSUME NEW j \in 1 .. f + m PROVE free'[j] # slot[running[stay[i]]]
      <3>1. CASE j \in 1 .. f /\ free'[j] = free[j]
        BY <1>3, <1>13, <1>17, <2>1, <3>1
      <3>2. CASE free'[j] = slot[running[leave[j - f]]] /\ leave[j - f] \in leaving
        <4>1. leave[j - f] # stay[i]
          BY <1>3, <1>4, <2>1, <3>2
        <4> QED BY <1>3, <1>4, <1>16, <2>1, <3>2, <4>1
      <3> QED BY <1>15, <3>1, <3>2
    <2> QED BY <1>3, <1>14, <1>17, <2>1, <2>2 DEF Range
  <1>21. SlotsAreOwn'
    BY <1>8, <1>14, <1>18, <1>19, <1>20 DEF SlotsAreOwn
  <1>22. ASSUME NEW i \in DOMAIN running'
         PROVE  \E k \in DOMAIN running :
                  running'[i] = running[k] /\ running[k] \notin gone /\ slot'[running[k]] = slot[running[k]]
    BY <1>3, <1>8, <1>10, <1>22
  <1> QED BY <1>8, <1>9, <1>14, <1>21, <1>22

LEMMA ForwardFailsKeepsInv ==
  ASSUME DecodeInv, ForwardFails
  PROVE  DecodeInv'
  <1>1. /\ idx = 0 /\ UNCHANGED <<waiting, generated, done, logits, idx>> /\ Release(ToSet(running))
    BY DEF ForwardFails, FailBatch
  <1>2. TypeOK /\ SlotsAreOwn
    BY DEF DecodeInv
  <1>3. /\ running' \in Seq(Requests) /\ free' \in Seq(1 .. MaxSlots)
        /\ slot' \in [Requests -> 0 .. MaxSlots] /\ SlotsAreOwn'
        /\ \A i \in DOMAIN running' : \E k \in DOMAIN running : running[k] \notin ToSet(running)
    BY <1>1, <1>2, ReleaseKeepsSlots
  <1>4. DOMAIN running' = {}
    BY <1>3 DEF ToSet
  <1>5. DOMAIN layers' = 1 .. MaxSlots
    BY <1>2 DEF ForwardFails, Written, TypeOK
  <1>6. TypeOK'
    BY <1>1, <1>2, <1>3, <1>5 DEF TypeOK
  <1>7. WaitingAreFresh'
    <2>1. Range(running') = {}
      BY <1>4 DEF Range
    <2> QED BY <1>1, <2>1 DEF DecodeInv, WaitingAreFresh
  <1>8. DoneAreBehind' /\ CacheIsCurrent' /\ BatchingIsInvisible'
    BY <1>1, <1>4 DEF DoneAreBehind, CacheIsCurrent, BatchingIsInvisible
  <1> QED BY <1>3, <1>6, <1>7, <1>8 DEF DecodeInv

\* The row loop goes on behind row idx, whose sequence is done or has one more
\* token, which no slot has keys of yet.
LEMMA RowKeepsInv ==
  ASSUME DecodeInv, idx \in DOMAIN running, NEW r, r = running[idx], idx' = idx + 1,
         UNCHANGED <<waiting, free, slot, layers, running, logits>>,
         done \subseteq done', done' \subseteq done \cup {r},
         DOMAIN generated' = Requests,
         \A q \in Requests \ {r} : generated'[q] = generated[q],
         generated'[r] \in Seq(Range(generated'[r])),
         r \in done' \/ Cached(Tokens(r))' = Tokens(r)
  PROVE  DecodeInv'
  <1>1. TypeOK /\ SlotsAreOwn /\ WaitingAreFresh /\ DoneAreBehind /\ CacheIsCurrent /\ BatchingIsInvisible
    BY DEF DecodeInv
  <1>2. /\ Len(running) \in Nat /\ DOMAIN running = 1 .. Len(running)
        /\ \A i \in DOMAIN running : running[i] \in Requests /\ running[i] \in Range(running)
        /\ idx \in Nat /\ idx > 0
    BY <1>1, RunningAreRequests DEF TypeOK
  <1>3. \A i \in DOMAIN running : i # idx => running[i] # r
    BY <1>1 DEF SlotsAreOwn
  <1>4. TypeOK'
    <2>1. r \in Requests /\ done' \subseteq Requests /\ idx' \in Nat
      BY <1>1, <1>2 DEF TypeOK
    <2>2. \A q \in Requests : generated'[q] \in Seq(Range(generated'[q]))
      BY <1>1, <2>1 DEF TypeOK
    <2> QED BY <1>1, <2>1, <2>2 DEF TypeOK
  <1>5. SlotsAreOwn'
    BY <1>1 DEF SlotsAreOwn
  <1>6. WaitingAreFresh'
    <2>1. r \notin waiting
      BY <1>1, <1>2 DEF WaitingAreFresh
    <2>2. \A q \in waiting : q \in Requests \ {r}
      BY <1>1, <2>1 DEF TypeOK
    <2> QED BY <1>1, <2>1, <2>2 DEF WaitingAreFresh
  <1>7. DoneAreBehind'
    <2> SUFFICES ASSUME NEW i \in DOMAIN running, running[i] \in done' PROVE i < idx + 1
      BY DEF DoneAreBehind
    <2>1. CASE i = idx
      BY <1>2, <2>1
    <2>2. CASE i # idx
      <3>1. i < idx
        BY <1>1, <1>3, <2>2 DEF DoneAreBehind
      <3> QED BY <1>2, <3>1
    <2> QED BY <2>1, <2>2
  <1>8. ASSUME NEW i \in DOMAIN running, i # idx
        PROVE  Tokens(running[i])' = Tokens(running[i]) /\ Fed(i)' = Fed(i)
    <2>1. Tokens(running[i])' = Tokens(running[i])
      BY <1>2, <1>3, <1>8 DEF Tokens
    <2>2. (i < idx + 1 <=> i < idx) /\ idx + 1 # 0 /\ idx # 0
      BY <1>2, <1>8
    <2> QED BY <2>1, <2>2 DEF Fed, Cached
  <1>9. CacheIsCurrent'
    <2> SUFFICES ASSUME NEW i \in DOMAIN running, running[i] \notin done', NEW l \in Layers
                 PROVE  layers[slot[running[i]]][l] = Masked(Fed(i)')[l]
      BY DEF CacheIsCurrent, HasKeysOf
    <2>1. layers[slot[running[i]]][l] = Masked(Fed(i))[l]
      BY <1>1 DEF CacheIsCurrent, HasKeysOf
    <2>2. CASE i = idx
      <3>0. i < idx + 1 /\ ~(i < idx) /\ idx # 0
        BY <1>2, <2>2
      <3>1. Fed(i)' = Cached(Tokens(r))'
        BY <2>2, <3>0 DEF Fed, Tokens, Cached
      <3>2. Fed(i) = Tokens(r)
        BY <2>2, <3>0 DEF Fed
      <3> QED BY <2>1, <2>2, <3>1, <3>2
    <2>3. CASE i # idx
      BY <1>8, <2>1, <2>3
    <2> QED BY <2>2, <2>3
  <1>10. BatchingIsInvisible'
    <2> SUFFICES ASSUME NEW i \in idx + 1 .. Len(running)
                 PROVE  logits[i] = Masked(Tokens(running[i])')[NumLayers][Len(Tokens(running[i])')]
      BY DEF BatchingIsInvisible
    <2>1. i \in idx .. Len(running) /\ i \in DOMAIN running /\ i # idx
      BY <1>2
    <2>2. logits[i] = Masked(Tokens(running[i]))[NumLayers][Len(Tokens(running[i]))]
      BY <1>1, <1>2, <2>1 DEF BatchingIsInvisible
    <2> QED BY <1>8, <2>1, <2>2
  <1> QED BY <1>4, <1>5, <1>6, <1>7, <1>9, <1>10 DEF DecodeInv

LEMMA RowSkippedKeepsInv ==
  ASSUME DecodeInv, RowSkipped
  PROVE  DecodeInv'
  <1>1. DOMAIN generated = Requests /\ running[idx] \in Requests
    BY RunningAreRequests DEF RowSkipped, DecodeInv, TypeOK
  <1>2. generated[running[idx]] \in Seq(Range(generated[running[idx]]))
    BY <1>1 DEF DecodeInv, TypeOK
  <1> QED BY <1>1, <1>2, RowKeepsInv DEF RowSkipped

LEMMA RowSampledKeepsInv ==
  ASSUME DecodeInv, RowSampled
  PROVE  DecodeInv'
  <1>0. PICK r : r = running[idx]
    OBVIOUS
  <1>1. PICK row \in Rows, draw \in 0 .. Draws - 1 :
          /\ generated' = [generated EXCEPT ![r] = Append(@, Sample(row, Options[r], draw))]
          /\ done' = IF Last(generated'[r]) = Eos \/ Len(generated'[r]) >= MaxNew[r]
                       THEN done \cup {r} ELSE done
    BY <1>0 DEF RowSampled
  <1>2. /\ idx \in DOMAIN running /\ idx' = idx + 1
        /\ UNCHANGED <<waiting, free, slot, layers, running, logits>>
    BY DEF RowSampled
  <1>3. TypeOK /\ r \in Requests /\ DOMAIN generated = Requests
    BY <1>0, <1>2, RunningAreRequests DEF DecodeInv, TypeOK
  <1> DEFINE n == Len(Tokens(r))
  <1>9. PICK token : token = Sample(row, Options[r], draw)
    OBVIOUS
  <1>4. generated'[r] = Append(generated[r], token) /\ DOMAIN generated' = Requests
        /\ \A q \in Requests \ {r} : generated'[q] = generated[q]
    BY <1>1, <1>3, <1>9
  <1>5. PICK U : Prompt[r] \in Seq(U) /\ generated[r] \in Seq(U) /\ token \in U
    <2> DEFINE U == Nat \cup Range(generated[r]) \cup {token}
    <2>1. Prompt[r] \in Seq(Nat) /\ generated[r] \in Seq(Range(generated[r]))
      BY <1>3, DecodeStepAssumption DEF TypeOK
    <2>2. Prompt[r] \in Seq(U) /\ generated[r] \in Seq(U) /\ token \in U
      BY <2>1, SeqMonotonic
    <2> HIDE DEF U
    <2> QED BY <2>2
  <1>6. generated'[r] \in Seq(Range(generated'[r]))
    <2>1. generated'[r] \in Seq(U)
      BY <1>4, <1>5, AppendProperties
    <2>2. IsList(generated'[r], Len(generated'[r])) /\ Len(generated'[r]) \in Nat
      BY <2>1, SequenceIsList
    <2> QED BY <2>2, ListIsSequence
  <1>7. Cached(Tokens(r))' = Tokens(r)
    <2>1. Tokens(r)' = Append(Tokens(r), token)
      <3>1. Tokens(r)' = Prompt[r] \o Append(generated[r], token)
        BY <1>2, <1>4 DEF Tokens
      <3>2. Prompt[r] \o Append(generated[r], token) = Append(Prompt[r] \o generated[r], token)
        <4>1. PICK a, b : a = Prompt[r] /\ b = generated[r]
          OBVIOUS
        <4>2. a \in Seq(U) /\ b \in Seq(U) /\ token \in U
          BY <1>5, <4>1
        <4>3. a \o Append(b, token) = Append(a \o b, token)
          BY <4>2, AppendToConcat
        <4> QED BY <4>1, <4>3
      <3> QED BY <3>1, <3>2 DEF Tokens
    <2>2. n \in Nat \ {0} /\ IsList(Tokens(r), n)
      BY <1>3, TokensOfRequest
    <2>3. Append(Tokens(r), token) = [i \in 1 .. n + 1 |-> IF i = n + 1 THEN token ELSE Tokens(r)[i]]
      BY <2>2, AppendToList
    <2> DEFINE longer == Append(Tokens(r), token)
    <2>4. IsList(longer, n + 1)
      BY <2>3 DEF IsList
    <2>5. Cached(longer) = SubSeq(longer, 1, n)
      <3>1. Len(longer) = n + 1
        BY <2>2, <2>4, ListIsSequence
      <3>2. (n + 1) - 1 = n
        BY <2>2
      <3> QED BY <3>1, <3>2 DEF Cached
    <2>6. SubSeq(longer, 1, n) = [i \in 1 .. n |-> longer[i]]
      <3>1. n + 1 \in Nat /\ n \in 0 .. n + 1
        BY <2>2
      <3> HIDE DEF longer, n
      <3> QED BY <2>4, <3>1, PrefixOfList
    <2>7. \A i \in 1 .. n : longer[i] = Tokens(r)[i]
      <3>1. \A i \in 1 .. n : i \in 1 .. n + 1 /\ i # n + 1
        BY <2>2
      <3> QED BY <2>3, <3>1
    <2>8. Cached(longer) = Tokens(r)
      BY <2>2, <2>5, <2>6, <2>7 DEF IsList
    <2> QED BY <2>1, <2>8 DEF Cached
  <1>8. done \subseteq done' /\ done' \subseteq done \cup {r}
    BY <1>1
  <1> QED BY <1>0, <1>2, <1>4, <1>6, <1>7, <1>8, RowKeepsInv

LEMMA RowsEndKeepsInv ==
  ASSUME DecodeInv, RowsEnd
  PROVE  DecodeInv'
  <1>1. /\ idx > Len(running) /\ idx' = 0 /\ UNCHANGED <<waiting, layers, generated, done>> /\ Release(done)
    BY DEF RowsEnd
  <1>2. TypeOK /\ SlotsAreOwn /\ WaitingAreFresh /\ CacheIsCurrent
    BY DEF DecodeInv
  <1>3. /\ running' \in Seq(Requests) /\ free' \in Seq(1 .. MaxSlots)
        /\ slot' \in [Requests -> 0 .. MaxSlots] /\ SlotsAreOwn'
        /\ \A i \in DOMAIN running' : \E k \in DOMAIN running :
             running'[i] = running[k] /\ running[k] \notin done /\ slot'[running[k]] = slot[running[k]]
    BY <1>1, <1>2, ReleaseKeepsSlots
  <1>4. TypeOK'
    BY <1>1, <1>2, <1>3 DEF TypeOK
  <1>5. WaitingAreFresh'
    <2>1. Range(running') \subseteq Range(running)
      BY <1>3 DEF Range
    <2> QED BY <1>1, <1>2, <2>1 DEF WaitingAreFresh
  <1>6. DoneAreBehind' /\ BatchingIsInvisible'
    BY <1>1, <1>3 DEF DoneAreBehind, BatchingIsInvisible
  <1>7. CacheIsCurrent'
    <2>1. \A i : Fed(i)' = Cached(Tokens(running'[i]))
      BY <1>1 DEF Fed, Tokens, Cached
    <2> SUFFICES ASSUME NEW i \in DOMAIN running', NEW l \in Layers
                 PROVE  layers[slot'[running'[i]]][l] = Masked(Cached(Tokens(running'[i])))[l]
      BY <1>1, <2>1 DEF CacheIsCurrent, HasKeysOf
    <2>2. PICK k \in DOMAIN running :
            running'[i] = running[k] /\ running[k] \notin done /\ slot'[running[k]] = slot[running[k]]
      BY <1>3
    <2>3. k < idx
      BY <1>1, <1>2, RunningAreRequests DEF TypeOK
    <2>4. layers[slot[running[k]]][l] = Masked(Cached(Tokens(running[k])))[l]
      BY <1>2, <2>2, <2>3 DEF CacheIsCurrent, Fed, HasKeysOf
    <2> QED BY <2>2, <2>4
  <1> QED BY <1>3, <1>4, <1>5, <1>6, <1>7 DEF DecodeInv

LEMMA InitHasInv == Init => DecodeInv
  <1> SUFFICES ASSUME Init PROVE DecodeInv
    OBVIOUS
  <1>1. MaxSlots \in Nat
    BY DecodeStepAssumption
  <1>2. free \in Seq(1 .. MaxSlots) /\ DOMAIN free = 1 .. MaxSlots /\ \A i \in DOMAIN free : free[i] = i
    <2>1. free \in [1 .. MaxSlots -> 1 .. MaxSlots] /\ \A i \in 1 .. MaxSlots : free[i] = i
      BY DEF Init
    <2> QED BY <1>1, <2>1, SeqDef
  <1>3. running = <<>> /\ DOMAIN running = {} /\ running \in Seq(Requests)
    BY EmptySeq DEF Init
  <1>4. TypeOK
    <2>1. \A r \in Requests : generated[r] = <<>> /\ <<>> \in Seq(Range(generated[r]))
      BY EmptySeq DEF Init
    <2> QED BY <1>1, <1>2, <1>3, <2>1 DEF Init, TypeOK
  <1>5. SlotsAreOwn
    BY <1>2, <1>3 DEF SlotsAreOwn
  <1>6. WaitingAreFresh
    <2>1. Range(running) = {}
      BY <1>3 DEF Range
    <2> QED BY <2>1 DEF Init, WaitingAreFresh
  <1>7. DoneAreBehind /\ CacheIsCurrent /\ BatchingIsInvisible
    BY <1>3 DEF Init, DoneAreBehind, CacheIsCurrent, BatchingIsInvisible
  <1> QED BY <1>4, <1>5, <1>6, <1>7 DEF DecodeInv

-----------------------------------------------------------------------------
(* What Min returns, of a set that has a least element.                        *)
LEMMA MinOfNaturals ==
  ASSUME NEW S, S \subseteq Nat, S # {}
  PROVE  Min(S) \in S /\ \A y \in S : Min(S) <= y
  BY LeastOfNaturals DEF Min

-----------------------------------------------------------------------------
(* The sort.  Precedes orders the tokens of a row strictly, so each has a rank *)
(* of its own, and the listing by rank is a sorted one.                        *)

LEMMA PrecedesIsStrict ==
  ASSUME NEW row \in Seq(Int), NEW s \in DOMAIN row, NEW t \in DOMAIN row
  PROVE  /\ Precedes(row, s, t) => ~Precedes(row, t, s)
         /\ s = t \/ Precedes(row, s, t) \/ Precedes(row, t, s)
         /\ \A u \in DOMAIN row : Precedes(row, u, s) /\ Precedes(row, s, t) => Precedes(row, u, t)
  <1>1. s \in Int /\ t \in Int /\ row[s] \in Int /\ row[t] \in Int
    OBVIOUS
  <1>2. \A u \in DOMAIN row : u \in Int /\ row[u] \in Int
    OBVIOUS
  <1> QED BY <1>1, <1>2 DEF Precedes

(* s stands before t only if fewer tokens are ahead of it.                     *)
LEMMA RankFollowsOrder ==
  ASSUME NEW row \in Seq(Int), NEW s \in DOMAIN row, NEW t \in DOMAIN row
  PROVE  /\ Cardinality(Ahead(row, s)) \in 0 .. Len(row) - 1
         /\ Precedes(row, s, t) <=> Cardinality(Ahead(row, s)) < Cardinality(Ahead(row, t))
         /\ Cardinality(Ahead(row, s)) = Cardinality(Ahead(row, t)) => s = t
  <1>1. IsFiniteSet(DOMAIN row) /\ Cardinality(DOMAIN row) = Len(row) /\ Len(row) \in Nat
    <2>1. Len(row) \in Nat /\ DOMAIN row = 1 .. Len(row)
      OBVIOUS
    <2>2. PICK m \in Nat : m = Len(row)
      BY <2>1
    <2>3. IsFiniteSet(1 .. m) /\ Cardinality(1 .. m) = IF 1 > m THEN 0 ELSE m - 1 + 1
      BY FS_Interval
    <2>4. Cardinality(1 .. m) = m
      BY <2>3
    <2> QED BY <2>1, <2>2, <2>3, <2>4
  <1>2. ASSUME NEW u \in DOMAIN row
        PROVE  IsFiniteSet(Ahead(row, u)) /\ Cardinality(Ahead(row, u)) \in 0 .. Len(row) - 1
    <2>1. Ahead(row, u) \subseteq DOMAIN row \ {u}
      BY PrecedesIsStrict DEF Ahead
    <2>2. IsFiniteSet(DOMAIN row \ {u}) /\ Cardinality(DOMAIN row \ {u}) = Len(row) - 1
      BY <1>1, FS_RemoveElement
    <2>3. IsFiniteSet(Ahead(row, u)) /\ Cardinality(Ahead(row, u)) <= Len(row) - 1
      BY <2>1, <2>2, FS_Subset
    <2>4. Cardinality(Ahead(row, u)) \in Nat
      BY <2>3, FS_CardinalityType
    <2> QED BY <1>1, <2>3, <2>4
  <1>3. ASSUME NEW u \in DOMAIN row, NEW v \in DOMAIN row, Precedes(row, u, v)
        PROVE  Cardinality(Ahead(row, u)) < Cardinality(Ahead(row, v))
    <2>1. Ahead(row, u) \cup {u} \subseteq Ahead(row, v) /\ u \notin Ahead(row, u)
      BY <1>3, PrecedesIsStrict DEF Ahead
    <2>2. /\ IsFiniteSet(Ahead(row, u) \cup {u})
          /\ Cardinality(Ahead(row, u) \cup {u}) = Cardinality(Ahead(row, u)) + 1
      BY <1>2, <2>1, FS_AddElement
    <2>3. Cardinality(Ahead(row, u) \cup {u}) <= Cardinality(Ahead(row, v))
      BY <1>2, <2>1, FS_Subset
    <2> QED BY <1>1, <1>2, <2>2, <2>3
  <1>4. Cardinality(Ahead(row, s)) \in Int /\ Cardinality(Ahead(row, t)) \in Int
    BY <1>1, <1>2
  <1>5. s = t \/ Precedes(row, s, t) \/ Precedes(row, t, s)
    BY PrecedesIsStrict
  <1>6. Precedes(row, s, t) => Cardinality(Ahead(row, s)) < Cardinality(Ahead(row, t))
    BY <1>3
  <1>7. Precedes(row, t, s) => Cardinality(Ahead(row, t)) < Cardinality(Ahead(row, s))
    BY <1>3
  <1> QED BY <1>2, <1>4, <1>5, <1>6, <1>7

IsListing(row, order) ==
  /\ order \in [DOMAIN row -> DOMAIN row]
  /\ \A i, j \in DOMAIN row : i < j => Precedes(row, order[i], order[j])

LEMMA SortSorts ==
  ASSUME NEW row \in Seq(Int)
  PROVE  IsListing(row, Sorted(row))
  <1> DEFINE D == DOMAIN row
             rank == [t \in D |-> Cardinality(Ahead(row, t)) + 1]
             order == [i \in D |-> CHOOSE t \in D : rank[t] = i]
  <1>1. D = 1 .. Len(row) /\ Len(row) \in Nat /\ IsFiniteSet(D)
    BY FS_Interval
  <1>2. rank \in [D -> D]
    <2> SUFFICES ASSUME NEW t \in D PROVE Cardinality(Ahead(row, t)) + 1 \in D
      OBVIOUS
    <2>1. Cardinality(Ahead(row, t)) \in 0 .. Len(row) - 1
      BY RankFollowsOrder
    <2> QED BY <1>1, <2>1
  <1>3. \A s, t \in D : rank[s] = rank[t] => s = t
    <2> SUFFICES ASSUME NEW s \in D, NEW t \in D, rank[s] = rank[t] PROVE s = t
      OBVIOUS
    <2>1. Cardinality(Ahead(row, s)) \in Int /\ Cardinality(Ahead(row, t)) \in Int
      BY RankFollowsOrder
    <2> QED BY <2>1, RankFollowsOrder
  <1>4. rank \in Surjection(D, D)
    <2>1. rank \in Injection(D, D)
      BY <1>2, <1>3 DEF Injection, IsInjective
    <2> HIDE DEF rank, D
    <2> QED BY <1>1, <2>1, FS_Injection
  <1>5. \A i \in D : order[i] \in D /\ rank[order[i]] = i
    <2> SUFFICES ASSUME NEW i \in D PROVE order[i] \in D /\ rank[order[i]] = i
      OBVIOUS
    <2>1. \E t \in D : rank[t] = i
      BY <1>4 DEF Surjection
    <2> HIDE DEF rank
    <2> QED BY <2>1
  <1>6. \A i, j \in D : i < j => Precedes(row, order[i], order[j])
    <2> SUFFICES ASSUME NEW i \in D, NEW j \in D, i < j PROVE Precedes(row, order[i], order[j])
      OBVIOUS
    <2>1. PICK s \in D, t \in D : s = order[i] /\ t = order[j] /\ rank[s] = i /\ rank[t] = j
      <3> HIDE DEF rank, order
      <3> QED BY <1>5
    <2>2. Cardinality(Ahead(row, s)) + 1 < Cardinality(Ahead(row, t)) + 1
      BY <2>1
    <2>3. Cardinality(Ahead(row, s)) \in Int /\ Cardinality(Ahead(row, t)) \in Int
      BY RankFollowsOrder
    <2>4. Precedes(row, s, t)
      BY <2>2, <2>3, RankFollowsOrder
    <2> QED BY <2>1, <2>4
  <1>7. order \in [D -> D]
    BY <1>5
  <1>8. IsListing(row, order)
    BY <1>6, <1>7 DEF IsListing
  <1> HIDE DEF order, D
  <1>9. \E o \in [DOMAIN row -> DOMAIN row] :
          \A i, j \in DOMAIN row : i < j => Precedes(row, o[i], o[j])
    BY <1>8 DEF IsListing
  <1> QED BY <1>9 DEF IsListing, Sorted

(* Every token is listed, and once.                                            *)
LEMMA SortedListsAll ==
  ASSUME NEW row \in Seq(Int), NEW order, IsListing(row, order)
  PROVE  /\ \A i, j \in DOMAIN row : order[i] = order[j] => i = j
         /\ \A t \in DOMAIN row : \E i \in DOMAIN row : t = order[i]
         /\ \A i \in DOMAIN row : order[i] \in DOMAIN row
  <1> DEFINE D == DOMAIN row
  <1>1. D = 1 .. Len(row) /\ Len(row) \in Nat /\ IsFiniteSet(D)
    BY FS_Interval
  <1>2. order \in [D -> D]
    BY DEF IsListing
  <1>3. ASSUME NEW i \in D, NEW j \in D, order[i] = order[j] PROVE i = j
    <2>1. i \in Int /\ j \in Int
      BY <1>1
    <2>2. ~Precedes(row, order[i], order[i])
      BY <1>2, PrecedesIsStrict
    <2>3. ~(i < j) /\ ~(j < i)
      BY <1>3, <2>2 DEF IsListing
    <2> QED BY <2>1, <2>3
  <1>4. \A t \in D : \E i \in D : t = order[i]
    <2>1. order \in Injection(D, D)
      BY <1>2, <1>3 DEF Injection, IsInjective
    <2> HIDE DEF D
    <2>2. order \in Surjection(D, D)
      BY <1>1, <2>1, FS_Injection
    <2> QED BY <2>2 DEF Surjection
  <1> QED BY <1>2, <1>3, <1>4

(* What is ahead of the i-th token are the i - 1 listed before it.             *)
LEMMA AheadIsInFront ==
  ASSUME NEW row \in Seq(Int), NEW order, IsListing(row, order), NEW i \in DOMAIN row
  PROVE  /\ \A t \in Ahead(row, order[i]) : \E j \in 1 .. i - 1 : t = order[j]
         /\ \A j \in 1 .. i - 1 : order[j] \in Ahead(row, order[i])
         /\ Cardinality(Ahead(row, order[i])) = i - 1
  <1>1. DOMAIN row = 1 .. Len(row) /\ Len(row) \in Nat
    OBVIOUS
  <1>2. /\ order \in [DOMAIN row -> DOMAIN row]
        /\ \A a, b \in DOMAIN row : a < b => Precedes(row, order[a], order[b])
    BY DEF IsListing
  <1>3. /\ \A a, b \in DOMAIN row : order[a] = order[b] => a = b
        /\ \A t \in DOMAIN row : \E a \in DOMAIN row : t = order[a]
    BY SortedListsAll
  <1>4. i \in Nat /\ i - 1 \in Nat /\ \A j \in 1 .. i - 1 : j \in DOMAIN row /\ j < i
    BY <1>1
  <1>5. ASSUME NEW t \in DOMAIN row, Precedes(row, t, order[i]) PROVE \E j \in 1 .. i - 1 : t = order[j]
    <2>1. PICK j \in DOMAIN row : t = order[j]
      BY <1>3
    <2>2. j # i /\ ~(i < j)
      BY <1>2, <1>5, <2>1, PrecedesIsStrict
    <2>3. j \in 1 .. i - 1
      BY <1>1, <2>2
    <2> QED BY <2>1, <2>3
  <1>6. \A j \in 1 .. i - 1 : order[j] \in DOMAIN row /\ Precedes(row, order[j], order[i])
    BY <1>2, <1>4
  <1>7. Ahead(row, order[i]) = {order[j] : j \in 1 .. i - 1}
    BY <1>5, <1>6 DEF Ahead
  <1> DEFINE g == [j \in 1 .. i - 1 |-> order[j]]
             T == {order[j] : j \in 1 .. i - 1}
  <1>8. g \in Bijection(1 .. i - 1, T)
    <2>1. g \in [1 .. i - 1 -> T]
      OBVIOUS
    <2>2. \A j, k \in 1 .. i - 1 : g[j] = g[k] => j = k
      BY <1>3, <1>4
    <2>3. \A t \in T : \E j \in 1 .. i - 1 : g[j] = t
      OBVIOUS
    <2> QED BY <2>1, <2>2, <2>3 DEF Bijection, Injection, Surjection, IsInjective
  <1>9. Cardinality(T) = i - 1
    <2> HIDE DEF T, g
    <2> QED BY <1>4, <1>8, FS_CountingElements DEF ExistsBijection
  <1> QED BY <1>7, <1>9

(* The tokens of the top k are the first of the listing.                       *)
LEMMA TopKIsInFront ==
  ASSUME NEW row \in Seq(Int), row # <<>>, NEW order, IsListing(row, order),
         NEW k \in Nat
  PROVE  /\ Candidates(row, k) \in 1 .. Len(row)
         /\ \A t : t \in InTopK(row, k) => \E i \in 1 .. Candidates(row, k) : t = order[i]
         /\ \A i \in 1 .. Candidates(row, k) : order[i] \in InTopK(row, k)
  <1> DEFINE m == Candidates(row, k)
  <1>1. DOMAIN row = 1 .. Len(row) /\ Len(row) \in Nat \ {0}
    BY EmptySeq
  <1>2. PICK c \in Nat \ {0} : c = Max({1, k}) /\ c = (IF k > 1 THEN k ELSE 1)
    <2>1. Max({1, k}) = IF k > 1 THEN k ELSE 1
      <3> DEFINE c == IF k > 1 THEN k ELSE 1
      <3>1. c \in {1, k} /\ \A y \in {1, k} : c >= y
        OBVIOUS
      <3>2. \A x \in {1, k} : (\A y \in {1, k} : x >= y) => x = c
        OBVIOUS
      <3> HIDE DEF c
      <3> QED BY <3>1, <3>2 DEF Max
    <2> QED BY <2>1
  <1>3. m = IF Len(row) <= c THEN Len(row) ELSE c
    <2> DEFINE S == {Len(row), c}
               d == IF Len(row) <= c THEN Len(row) ELSE c
    <2>1. d \in S /\ \A y \in S : d <= y
      BY <1>1
    <2>2. \A x \in S : (\A y \in S : x <= y) => x = d
      BY <1>1
    <2>3. Min(S) = d
      <3> HIDE DEF S, d
      <3> QED BY <2>1, <2>2 DEF Min
    <2> QED BY <1>2, <2>3 DEF Candidates
  <1> HIDE DEF m
  <1>4. m \in 1 .. Len(row)
    BY <1>1, <1>3
  <1>5. \A i \in DOMAIN row : order[i] \in InTopK(row, k) <=> i <= m
    <2> SUFFICES ASSUME NEW i \in DOMAIN row PROVE order[i] \in InTopK(row, k) <=> i <= m
      OBVIOUS
    <2>1. order[i] \in DOMAIN row /\ Cardinality(Ahead(row, order[i])) = i - 1
      BY AheadIsInFront, SortedListsAll
    <2>2. i - 1 < c <=> i <= m
      BY <1>1, <1>3
    <2> QED BY <1>2, <2>1, <2>2 DEF InTopK
  <1>6. InTopK(row, k) \subseteq {order[i] : i \in 1 .. m}
    <2> SUFFICES ASSUME NEW t \in InTopK(row, k) PROVE t \in {order[i] : i \in 1 .. m}
      OBVIOUS
    <2>1. t \in DOMAIN row
      BY DEF InTopK
    <2>2. PICK i \in DOMAIN row : t = order[i]
      BY <2>1, SortedListsAll
    <2>3. i \in 1 .. m
      BY <1>1, <1>4, <1>5, <2>2
    <2> QED BY <2>2, <2>3
  <1>7. {order[i] : i \in 1 .. m} \subseteq InTopK(row, k)
    <2> SUFFICES ASSUME NEW i \in 1 .. m PROVE order[i] \in InTopK(row, k)
      OBVIOUS
    <2>1. i \in DOMAIN row /\ i <= m
      BY <1>1, <1>4
    <2> QED BY <1>5, <2>1
  <1> QED BY <1>4, <1>6, <1>7 DEF m

-----------------------------------------------------------------------------
(* Sums.                                                                       *)

IsSum(f, w, n) == f[0] = 0 /\ \A i \in 1 .. n : f[i] = f[i - 1] + w[i]

LEMMA SumExists ==
  ASSUME NEW n \in Nat, NEW w \in [1 .. n -> Nat]
  PROVE  \E f \in [0 .. n -> Nat] : IsSum(f, w, n)
  <1> DEFINE S == {m \in 0 .. n : \E f \in [0 .. m -> Nat] : IsSum(f, w, m)}
  <1>1. 0 \in S
    <2> DEFINE f == [i \in 0 .. 0 |-> 0]
    <2>1. f \in [0 .. 0 -> Nat] /\ IsSum(f, w, 0) /\ 0 \in 0 .. n
      BY DEF IsSum
    <2> HIDE DEF f
    <2> QED BY <2>1
  <1>2. ASSUME NEW m \in 1 .. n, m - 1 \in S PROVE m \in S
    <2>1. m \in Nat /\ m - 1 \in Nat /\ m # 0 /\ w[m] \in Nat
      OBVIOUS
    <2>2. PICK f \in [0 .. m - 1 -> Nat] : IsSum(f, w, m - 1)
      BY <1>2
    <2> DEFINE g == [i \in 0 .. m |-> IF i = m THEN f[m - 1] + w[m] ELSE f[i]]
    <2>3. \A i \in 0 .. m - 1 : i \in 0 .. m /\ g[i] = f[i] /\ f[i] \in Nat
      BY <2>1
    <2>4. g[m] = f[m - 1] + w[m] /\ f[m - 1] \in Nat
      BY <2>1
    <2>5. g \in [0 .. m -> Nat]
      <3>1. \A i \in 0 .. m : i = m \/ i \in 0 .. m - 1
        BY <2>1
      <3>2. \A i \in 0 .. m : g[i] \in Nat
        <4> HIDE DEF g
        <4> QED BY <2>1, <2>3, <2>4, <3>1
      <3> QED BY <3>2
    <2>6. IsSum(g, w, m)
      <3>1. g[0] = 0
        BY <2>1, <2>2, <2>3 DEF IsSum
      <3>2. ASSUME NEW i \in 1 .. m PROVE g[i] = g[i - 1] + w[i]
        <4>1. i - 1 \in 0 .. m - 1
          BY <2>1
        <4>2. CASE i = m
          BY <2>3, <2>4, <4>1, <4>2
        <4>3. CASE i # m
          <5>1. i \in 1 .. m - 1 /\ i \in 0 .. m - 1
            BY <2>1, <4>3
          <5> QED BY <2>2, <2>3, <4>1, <5>1 DEF IsSum
        <4> QED BY <4>2, <4>3
      <3> QED BY <3>1, <3>2 DEF IsSum
    <2> HIDE DEF g
    <2> QED BY <2>5, <2>6
  <1>3. \A m \in 0 .. n : m \in S
    <2> HIDE DEF S
    <2> QED BY <1>1, <1>2, Reaches
  <1>4. n \in S
    <2>1. n \in 0 .. n
      OBVIOUS
    <2> HIDE DEF S
    <2> QED BY <1>3, <2>1
  <1> QED BY <1>4

LEMMA WeightSumIsSum ==
  ASSUME NEW n \in Nat, NEW w, NEW f \in [0 .. n -> Nat], IsSum(f, w, n)
  PROVE  WeightSum(w, n) = f[n]
  <1> DEFINE Table(g) == g = [i \in 0 .. n |-> IF i = 0 THEN 0 ELSE g[i - 1] + w[i]]
             sum == CHOOSE g : Table(g)
  <1>1. Table(f)
    <2>1. \A i \in 0 .. n : f[i] = IF i = 0 THEN 0 ELSE f[i - 1] + w[i]
      <3>1. \A i \in 0 .. n : i = 0 \/ i \in 1 .. n
        OBVIOUS
      <3> QED BY <3>1 DEF IsSum
    <2> QED BY <2>1
  <1>2. Table(sum)
    <2> HIDE DEF Table
    <2> QED BY <1>1
  <1>3. sum[0] = 0 /\ \A i \in 1 .. n : sum[i] = sum[i - 1] + w[i]
    <2>1. \A i \in 0 .. n : sum[i] = IF i = 0 THEN 0 ELSE sum[i - 1] + w[i]
      <3>1. sum = [i \in 0 .. n |-> IF i = 0 THEN 0 ELSE sum[i - 1] + w[i]]
        BY <1>2
      <3> HIDE DEF sum
      <3> QED BY <3>1
    <2> HIDE DEF sum
    <2>2. \A i \in 1 .. n : i \in 0 .. n /\ i # 0
      OBVIOUS
    <2>3. 0 \in 0 .. n
      OBVIOUS
    <2> QED BY <2>1, <2>2, <2>3
  <1> DEFINE S == {i \in 0 .. n : sum[i] = f[i]}
  <1>4. n \in S
    <2>1. 0 \in S
      <3>1. 0 \in 0 .. n
        OBVIOUS
      <3> HIDE DEF sum
      <3> QED BY <1>3, <3>1 DEF IsSum
    <2>2. \A i \in 1 .. n : i - 1 \in S => i \in S
      <3>1. \A i \in 1 .. n : i \in 0 .. n /\ i - 1 \in 0 .. n
        OBVIOUS
      <3> HIDE DEF sum
      <3> QED BY <1>3, <3>1 DEF IsSum
    <2>3. \A i \in 0 .. n : i \in S
      <3> HIDE DEF S
      <3> QED BY <2>1, <2>2, Reaches
    <2>4. n \in 0 .. n
      OBVIOUS
    <2> HIDE DEF S
    <2> QED BY <2>3, <2>4
  <1>5. WeightSum(w, n) = sum[n]
    BY DEF WeightSum
  <1> HIDE DEF sum
  <1> QED BY <1>4, <1>5

(* Each weight adds to the sum of those before.                                *)
LEMMA SumsUp ==
  ASSUME NEW n \in Nat, NEW w \in [1 .. n -> Nat]
  PROVE  /\ WeightSum(w, 0) = 0
         /\ \A i \in 0 .. n : WeightSum(w, i) \in Nat
         /\ \A i \in 1 .. n : WeightSum(w, i) = WeightSum(w, i - 1) + w[i]
  <1>1. PICK f \in [0 .. n -> Nat] : IsSum(f, w, n)
    BY SumExists
  <1>2. ASSUME NEW i \in 0 .. n PROVE WeightSum(w, i) = f[i]
    <2> DEFINE g == [k \in 0 .. i |-> f[k]]
    <2>1. \A k \in 0 .. i : k \in 0 .. n /\ f[k] \in Nat
      OBVIOUS
    <2>2. g \in [0 .. i -> Nat] /\ \A k \in 0 .. i : g[k] = f[k]
      BY <2>1
    <2>3. \A k \in 1 .. i : k \in 1 .. n /\ k \in 0 .. i /\ k - 1 \in 0 .. i
      OBVIOUS
    <2>4. i \in Nat /\ 0 \in 0 .. i /\ i \in 0 .. i
      OBVIOUS
    <2> HIDE DEF g
    <2>5. IsSum(g, w, i)
      BY <1>1, <2>2, <2>3, <2>4 DEF IsSum
    <2> QED BY <2>2, <2>4, <2>5, WeightSumIsSum
  <1>3. 0 \in 0 .. n /\ \A i \in 1 .. n : i \in 0 .. n /\ i - 1 \in 0 .. n
    OBVIOUS
  <1> QED BY <1>1, <1>2, <1>3 DEF IsSum

LEMMA SumsGrow ==
  ASSUME NEW n \in Nat, NEW w \in [1 .. n -> Nat], NEW i \in 0 .. n, NEW j \in i .. n
  PROVE  WeightSum(w, i) <= WeightSum(w, j)
  <1> DEFINE Sum(k) == WeightSum(w, k)
             S == {k \in 0 .. n : i <= k => Sum(i) <= Sum(k)}
  <1>1. /\ Sum(0) = 0 /\ \A k \in 0 .. n : Sum(k) \in Nat
        /\ \A k \in 1 .. n : Sum(k) = Sum(k - 1) + w[k]
    BY SumsUp
  <1> HIDE DEF Sum
  <1>2. 0 \in S
    BY <1>1
  <1>3. ASSUME NEW k \in 1 .. n, k - 1 \in S PROVE k \in S
    <2>1. /\ k \in 0 .. n /\ k - 1 \in 0 .. n /\ w[k] \in Nat
          /\ i <= k => i = k \/ i <= k - 1
      OBVIOUS
    <2>2. Sum(k) = Sum(k - 1) + w[k] /\ Sum(k - 1) \in Nat /\ Sum(i) \in Nat /\ Sum(k) \in Nat
      BY <1>1, <2>1
    <2>3. CASE i = k
      BY <2>1, <2>2, <2>3
    <2>4. CASE i <= k - 1
      <3>1. Sum(i) <= Sum(k - 1)
        BY <1>3, <2>4
      <3>2. Sum(i) <= Sum(k)
        BY <2>1, <2>2, <3>1
      <3> QED BY <2>1, <3>2
    <2> QED BY <2>1, <2>3, <2>4
  <1>4. \A k \in 0 .. n : k \in S
    <2> HIDE DEF S
    <2> QED BY <1>2, <1>3, Reaches
  <1> QED BY <1>4 DEF Sum

LEMMA SumOfNothing ==
  ASSUME NEW n \in Nat, NEW w \in [1 .. n -> Nat], \A i \in 1 .. n : w[i] = 0
  PROVE  WeightSum(w, n) = 0
  <1> DEFINE S == {i \in 0 .. n : WeightSum(w, i) = 0}
  <1>1. 0 \in S
    BY SumsUp
  <1>2. \A i \in 1 .. n : i - 1 \in S => i \in S
    BY SumsUp
  <1>3. \A i \in 0 .. n : i \in S
    <2> HIDE DEF S
    <2> QED BY <1>1, <1>2, Reaches
  <1> QED BY <1>3

(* Where one weight is larger by x, the sum is.                                *)
LEMMA SumOfOneMore ==
  ASSUME NEW n \in Nat, NEW v \in [1 .. n -> Nat], NEW w \in [1 .. n -> Nat],
         NEW t \in 1 .. n, NEW x \in Nat, w[t] = v[t] + x,
         \A i \in 1 .. n : i # t => w[i] = v[i]
  PROVE  WeightSum(w, n) = WeightSum(v, n) + x
  <1> DEFINE S == {i \in 0 .. n : WeightSum(w, i) = WeightSum(v, i) + (IF t <= i THEN x ELSE 0)}
  <1>1. 0 \in S
    <2>1. ~(t <= 0) /\ 0 \in 0 .. n
      OBVIOUS
    <2>2. WeightSum(w, 0) = 0 /\ WeightSum(v, 0) = 0
      BY SumsUp
    <2> QED BY <2>1, <2>2
  <1>2. ASSUME NEW i \in 1 .. n, i - 1 \in S PROVE i \in S
    <2>1. WeightSum(w, i) = WeightSum(w, i - 1) + w[i] /\ WeightSum(v, i) = WeightSum(v, i - 1) + v[i]
      BY SumsUp
    <2>2. i \in 0 .. n /\ i - 1 \in 0 .. n
      OBVIOUS
    <2>3. WeightSum(w, i - 1) \in Nat /\ WeightSum(v, i - 1) \in Nat /\ v[i] \in Nat /\ w[i] \in Nat
      BY <2>2, SumsUp
    <2>4. WeightSum(w, i - 1) = WeightSum(v, i - 1) + (IF t <= i - 1 THEN x ELSE 0)
      BY <1>2
    <2>5. WeightSum(w, i) = WeightSum(v, i) + (IF t <= i THEN x ELSE 0)
      <3>1. CASE t < i
        <4>1. t <= i /\ t <= i - 1 /\ w[i] = v[i]
          BY <3>1
        <4> QED BY <2>1, <2>3, <2>4, <4>1
      <3>2. CASE t = i
        <4>1. t <= i /\ ~(t <= i - 1) /\ w[i] = v[i] + x
          BY <3>2
        <4> QED BY <2>1, <2>3, <2>4, <4>1
      <3>3. CASE t > i
        <4>1. ~(t <= i) /\ ~(t <= i - 1) /\ w[i] = v[i]
          BY <3>3
        <4> QED BY <2>1, <2>3, <2>4, <4>1
      <3> QED BY <3>1, <3>2, <3>3
    <2> QED BY <2>2, <2>5
  <1>3. \A i \in 0 .. n : i \in S
    <2> HIDE DEF S
    <2> QED BY <1>1, <1>2, Reaches
  <1>4. n \in 0 .. n /\ t <= n
    OBVIOUS
  <1> QED BY <1>3, <1>4

-----------------------------------------------------------------------------
(* The mass of sets of tokens, and of the tokens at the front of the listing.  *)

LEMMA WeightsAreNatural ==
  /\ \A d : Weight(d) \in Nat
  /\ Weight(0) > 0
  BY SamplerAssumption DEF Weight

(* The weights of the tokens of a set, 0 for the others.                       *)
Shares(row, tokens) == [t \in DOMAIN row |-> IF t \in tokens THEN TokenWeight(row, t) ELSE 0]

LEMMA MassAddsUp ==
  ASSUME NEW row \in Seq(Int)
  PROVE  /\ Mass(row, {}) = 0
         /\ \A tokens : Mass(row, tokens) \in Nat
         /\ \A tokens : \A t \in DOMAIN row \ tokens :
              Mass(row, tokens \cup {t}) = Mass(row, tokens) + TokenWeight(row, t)
         /\ \A t \in DOMAIN row : Mass(row, {t}) = TokenWeight(row, t) /\ TokenWeight(row, t) \in Nat
  <1>1. PICK n \in Nat : n = Len(row) /\ DOMAIN row = 1 .. n
    OBVIOUS
  <1>2. \A t : TokenWeight(row, t) \in Nat
    BY WeightsAreNatural DEF TokenWeight
  <1>3. \A tokens : Shares(row, tokens) \in [1 .. n -> Nat] /\ Mass(row, tokens) = WeightSum(Shares(row, tokens), n)
    BY <1>1, <1>2 DEF Shares, Mass
  <1>4. \A tokens : Mass(row, tokens) \in Nat
    <2> SUFFICES ASSUME NEW tokens PROVE Mass(row, tokens) \in Nat
      OBVIOUS
    <2>1. PICK w \in [1 .. n -> Nat] : w = Shares(row, tokens)
      BY <1>3
    <2>2. n \in 0 .. n
      OBVIOUS
    <2> QED BY <1>3, <2>1, <2>2, SumsUp
  <1>5. Mass(row, {}) = 0
    <2>1. PICK w \in [1 .. n -> Nat] : w = Shares(row, {})
      BY <1>3
    <2>2. \A i \in 1 .. n : w[i] = 0
      BY <1>1, <2>1 DEF Shares
    <2> QED BY <1>3, <2>1, <2>2, SumOfNothing
  <1>6. ASSUME NEW tokens, NEW t \in DOMAIN row \ tokens
        PROVE  Mass(row, tokens \cup {t}) = Mass(row, tokens) + TokenWeight(row, t)
    <2>1. PICK v \in [1 .. n -> Nat], w \in [1 .. n -> Nat] :
            v = Shares(row, tokens) /\ w = Shares(row, tokens \cup {t})
      BY <1>3
    <2>2. t \in 1 .. n /\ v[t] = 0 /\ w[t] = TokenWeight(row, t)
      BY <1>1, <2>1 DEF Shares
    <2>3. \A i \in 1 .. n : i # t => w[i] = v[i]
      BY <1>1, <2>1 DEF Shares
    <2>4. PICK x \in Nat : x = TokenWeight(row, t)
      BY <1>2
    <2>5. w[t] = v[t] + x
      BY <2>2, <2>4
    <2>6. WeightSum(w, n) = WeightSum(v, n) + x
      <3>1. PICK s \in 1 .. n : s = t
        BY <2>2
      <3>2. w[s] = v[s] + x /\ \A i \in 1 .. n : i # s => w[i] = v[i]
        BY <2>3, <2>5, <3>1
      <3> QED BY ONLY <3>2, SumOfOneMore
    <2> QED BY <1>3, <2>1, <2>4, <2>6
  <1>7. ASSUME NEW t \in DOMAIN row PROVE Mass(row, {t}) = TokenWeight(row, t)
    <2>1. Mass(row, {} \cup {t}) = Mass(row, {}) + TokenWeight(row, t)
      BY <1>6
    <2>2. {} \cup {t} = {t}
      OBVIOUS
    <2> QED BY <1>2, <1>5, <2>1, <2>2
  <1> QED BY <1>2, <1>4, <1>5, <1>6, <1>7

(* The weights sample() computes are those of the tokens it listed, of which   *)
(* the first has the largest logit.                                            *)
LEMMA WeightsOfListed ==
  ASSUME NEW row \in Seq(Int), row # <<>>, NEW order, IsListing(row, order),
         NEW m \in 1 .. Len(row), NEW w, w = WeightsOf(row, order, m)
  PROVE  /\ w \in [1 .. m -> Nat] /\ Len(w) = m /\ w[1] > 0
         /\ \A i \in 1 .. m : order[i] \in DOMAIN row /\ w[i] = TokenWeight(row, order[i])
  <1>1. DOMAIN row = 1 .. Len(row) /\ Len(row) \in Nat \ {0} /\ m \in Nat /\ 1 \in 1 .. m
    BY EmptySeq
  <1>2. \A i \in 1 .. m : i \in DOMAIN row /\ order[i] \in DOMAIN row
    BY <1>1 DEF IsListing
  <1> DEFINE Levels == {row[s] : s \in DOMAIN row}
             top == row[order[1]]
  <1>3. top \in Levels /\ \A y \in Levels : top >= y
    <2>1. order[1] \in DOMAIN row
      BY <1>1, <1>2
    <2>2. ASSUME NEW s \in DOMAIN row PROVE top >= row[s]
      <3>1. PICK i \in DOMAIN row : s = order[i]
        BY SortedListsAll
      <3>2. i = 1 \/ 1 < i
        BY <1>1
      <3>3. row[s] \in Int /\ top \in Int
        BY <2>1
      <3>4. 1 \in DOMAIN row
        BY <1>1
      <3>5. 1 < i => Precedes(row, order[1], s)
        BY <3>1, <3>4 DEF IsListing
      <3> QED BY <3>1, <3>2, <3>3, <3>5 DEF Precedes
    <2> QED BY <2>1, <2>2
  <1>4. Levels \subseteq Int
    OBVIOUS
  <1>5. Max(Levels) = top
    <2>1. \A x \in Levels : (\A y \in Levels : x >= y) => x = top
      <3> SUFFICES ASSUME NEW x \in Levels, \A y \in Levels : x >= y PROVE x = top
        OBVIOUS
      <3>1. x >= top /\ top >= x /\ x \in Int /\ top \in Int
        BY <1>3, <1>4
      <3> QED BY <3>1
    <2> HIDE DEF Levels, top
    <2> QED BY <1>3, <2>1 DEF Max
  <1>6. \A i \in 1 .. m : w[i] = Weight(top - row[order[i]]) /\ w[i] = TokenWeight(row, order[i])
    BY <1>5 DEF WeightsOf, TokenWeight
  <1>7. w \in [1 .. m -> Nat]
    BY WeightsAreNatural DEF WeightsOf
  <1>8. Len(w) = m
    <2>1. w \in Seq(Nat)
      BY <1>1, <1>7, SeqDef
    <2> QED BY <1>1, <1>7, <2>1
  <1>9. w[1] > 0
    <2>1. top \in Int
      BY <1>3, <1>4
    <2>2. top - top = 0
      BY <2>1
    <2> HIDE DEF top
    <2>3. w[1] = Weight(top - row[order[1]])
      BY <1>1, <1>6
    <2> QED BY <2>2, <2>3, WeightsAreNatural DEF top
  <1> QED BY <1>2, <1>6, <1>7, <1>8, <1>9

(* The mass of the first i listed tokens is the sum of their weights, whether  *)
(* or not those without weight are counted.                                    *)
LEMMA MassOfFront ==
  ASSUME NEW row \in Seq(Int), row # <<>>, NEW order, IsListing(row, order),
         NEW m \in 1 .. Len(row), NEW w, w = WeightsOf(row, order, m),
         NEW i \in 0 .. m, NEW A, \A t \in A : \E j \in 1 .. i : t = order[j],
         \A j \in 1 .. i : order[j] \in A \/ w[j] = 0
  PROVE  Mass(row, A) = WeightSum(w, i)
  <1> DEFINE T == {j \in 1 .. i : order[j] \in A}
             Listed(k) == {order[j] : j \in (1 .. k) \cap T}
             S == {k \in 0 .. i : Mass(row, Listed(k)) = WeightSum(w, k)}
  <1>1. \A a, b \in DOMAIN row : order[a] = order[b] => a = b
    BY SortedListsAll
  <1>2. /\ w \in [1 .. m -> Nat]
        /\ \A j \in 1 .. m : order[j] \in DOMAIN row /\ w[j] = TokenWeight(row, order[j])
    BY WeightsOfListed
  <1>3. /\ m \in Nat /\ i \in Nat /\ DOMAIN row = 1 .. Len(row)
        /\ \A j \in 1 .. m : j \in DOMAIN row
        /\ \A j \in 1 .. i : j \in 1 .. m
    OBVIOUS
  <1>4. 0 \in S
    <2>1. Listed(0) = {} /\ 0 \in 0 .. i
      BY <1>3
    <2>2. WeightSum(w, 0) = 0 /\ Mass(row, {}) = 0
      BY <1>2, <1>3, SumsUp, MassAddsUp
    <2> HIDE DEF Listed
    <2> QED BY <2>1, <2>2
  <1>5. ASSUME NEW k \in 1 .. i, k - 1 \in S PROVE k \in S
    <2>1. k \in 0 .. i /\ k - 1 \in 0 .. i /\ k \in 1 .. m /\ k - 1 \in 0 .. m /\ k \in 1 .. k /\ k \notin 1 .. k - 1
          /\ \A j : j \in 1 .. k <=> j = k \/ j \in 1 .. k - 1
      BY <1>3
    <2>2. WeightSum(w, k) = WeightSum(w, k - 1) + w[k] /\ WeightSum(w, k - 1) \in Nat
      BY <1>2, <1>3, <2>1, SumsUp
    <2>3. Mass(row, Listed(k - 1)) = WeightSum(w, k - 1)
      BY <1>5
    <2>4. CASE k \in T
      <3>1. Listed(k) = Listed(k - 1) \cup {order[k]}
        BY <2>1, <2>4
      <3>2. order[k] \notin Listed(k - 1)
        <4>1. \A j \in 1 .. k - 1 : j \in 1 .. i /\ j \in DOMAIN row /\ j # k
          BY <1>3, <2>1
        <4>2. k \in DOMAIN row
          BY <1>3
        <4>3. \A j \in 1 .. k - 1 : order[j] # order[k]
          BY <1>1, <4>1, <4>2
        <4> QED BY <4>3
      <3> HIDE DEF Listed
      <3>3. order[k] \in DOMAIN row \ Listed(k - 1)
        BY <1>2, <3>2
      <3>4. Mass(row, Listed(k)) = Mass(row, Listed(k - 1)) + TokenWeight(row, order[k])
        <4>1. \A tokens : \A t \in DOMAIN row \ tokens :
                Mass(row, tokens \cup {t}) = Mass(row, tokens) + TokenWeight(row, t)
          BY MassAddsUp
        <4>2. PICK L, t : L = Listed(k - 1) /\ t = order[k]
          OBVIOUS
        <4>3. t \in DOMAIN row \ L /\ Listed(k) = L \cup {t}
          BY <3>1, <3>3, <4>2
        <4>4. Mass(row, L \cup {t}) = Mass(row, L) + TokenWeight(row, t)
          BY <4>1, <4>3
        <4> QED BY <4>2, <4>3, <4>4
      <3> QED BY <1>2, <2>1, <2>2, <2>3, <3>4
    <2>5. CASE k \notin T
      <3>1. Listed(k) = Listed(k - 1)
        <4>1. (1 .. k) \cap T = (1 .. k - 1) \cap T
          BY <2>1, <2>5
        <4> HIDE DEF T
        <4> QED BY <4>1
      <3>2. w[k] = 0
        <4>1. order[k] \notin A
          BY <2>5
        <4> QED BY <4>1
      <3> HIDE DEF Listed
      <3> QED BY <2>1, <2>2, <2>3, <3>1, <3>2
    <2> QED BY <2>4, <2>5
  <1>6. \A k \in 0 .. i : k \in S
    <2> HIDE DEF S
    <2> QED BY <1>3, <1>4, <1>5, Reaches
  <1>7. A = Listed(i)
    <2>1. \A t \in A : t \in Listed(i)
      <3> SUFFICES ASSUME NEW t \in A PROVE t \in Listed(i)
        OBVIOUS
      <3>1. PICK j \in 1 .. i : t = order[j]
        OBVIOUS
      <3> QED BY <3>1
    <2> QED BY <2>1
  <1> HIDE DEF Listed
  <1>8. i \in 0 .. i
    BY <1>3
  <1> QED BY <1>6, <1>7, <1>8

-----------------------------------------------------------------------------
(* Draws that fall between two sums.                                           *)

LEMMA ProductsGrow ==
  ASSUME NEW a \in Nat, NEW b \in Nat, NEW c \in Nat, a <= b
  PROVE  a * c \in Nat /\ b * c \in Nat /\ a * c <= b * c /\ (a < b /\ c # 0 => a * c < b * c)
  <1>1. PICK d \in Nat : b = a + d /\ (a < b => d # 0)
    <2>1. b - a \in Nat /\ b = a + (b - a) /\ (a < b => b - a # 0)
      OBVIOUS
    <2> QED BY <2>1
  <1>2. b * c = a * c + d * c /\ a * c \in Nat /\ d * c \in Nat
    BY <1>1
  <1>3. d # 0 /\ c # 0 => d * c > 0
    OBVIOUS
  <1> QED BY <1>1, <1>2, <1>3

LEMMA QuotientExists ==
  ASSUME NEW x \in Nat, NEW c \in Nat \ {0}
  PROVE  \E q \in Nat : q * c <= x /\ x < (q + 1) * c
  <1> DEFINE Above == {n \in Nat : x < n * c}
  <1>1. Above # {}
    <2>1. (x + 1) * 1 <= (x + 1) * c
      <3>1. 1 * (x + 1) <= c * (x + 1)
        BY ProductsGrow
      <3> QED BY <3>1
    <2>2. x < (x + 1) * c
      BY <2>1
    <2>3. x + 1 \in Above
      BY <2>2
    <2> QED BY <2>3
  <1>2. PICK n \in Above : \A y \in Above : n <= y
    <2> HIDE DEF Above
    <2>1. Above \subseteq Nat
      BY DEF Above
    <2> QED BY <1>1, <2>1, LeastOfNaturals
  <1>3. n # 0
    OBVIOUS
  <1>4. n - 1 \in Nat /\ (n - 1) + 1 = n /\ ~(n <= n - 1)
    BY <1>3
  <1>5. ~(x < (n - 1) * c)
    BY <1>2, <1>4
  <1>6. (n - 1) * c \in Nat
    BY <1>4
  <1>7. (n - 1) * c <= x
    BY <1>5, <1>6
  <1> QED BY <1>4, <1>7

(* How many draws fall between two bounds: as many as their distance holds     *)
(* steps, give or take one.                                                    *)
LEMMA DrawsBetween ==
  ASSUME NEW D \in Nat \ {0}, NEW W \in Nat \ {0}, NEW A \in Nat, NEW B \in Nat,
         A <= B, B <= D * W, NEW first \in BOOLEAN, first => A = 0,
         NEW S, S \subseteq 0 .. D - 1,
         \A d \in 0 .. D - 1 : d \in S <=> d * W <= B /\ (first \/ A < d * W)
  PROVE  /\ Cardinality(S) \in Nat
         /\ Cardinality(S) * W <= (B - A) + W
         /\ B - A <= Cardinality(S) * W + W
  <1>1. PICK p \in Nat : p * W <= A /\ A < (p + 1) * W
    BY QuotientExists
  <1>2. PICK q \in Nat : q * W <= B /\ B < (q + 1) * W
    BY QuotientExists
  <1>3. ASSUME NEW d \in Nat PROVE (d * W <= B <=> d <= q) /\ (A < d * W <=> p + 1 <= d)
    <2>1. d <= q => d * W <= q * W
      BY ProductsGrow
    <2>2. q + 1 <= d => (q + 1) * W <= d * W
      BY ProductsGrow
    <2>3. d <= p => d * W <= p * W
      BY ProductsGrow
    <2>4. p + 1 <= d => (p + 1) * W <= d * W
      BY ProductsGrow
    <2>5. d * W \in Nat /\ q * W \in Nat /\ p * W \in Nat /\ (q + 1) * W \in Nat /\ (p + 1) * W \in Nat
      OBVIOUS
    <2> QED BY <1>1, <1>2, <2>1, <2>2, <2>3, <2>4, <2>5
  <1>4. p <= q /\ q <= D
    <2>1. p * W <= B
      <3>1. p * W \in Nat
        OBVIOUS
      <3> QED BY <1>1, <3>1
    <2>2. p <= q
      BY <1>3, <2>1
    <2>3. D + 1 <= q => (D + 1) * W <= q * W
      BY ProductsGrow
    <2>4. (D + 1) * W = D * W + W /\ D * W \in Nat /\ q * W \in Nat
      OBVIOUS
    <2> QED BY <1>2, <2>2, <2>3, <2>4
  <1> DEFINE low == IF first THEN 0 ELSE p + 1
             high == IF q = D THEN D - 1 ELSE q
  <1>5. S = low .. high
    <2>1. \A d \in 0 .. D - 1 : d \in Nat /\ (d <= high <=> d <= q)
      BY <1>4
    <2>2. \A d \in low .. high : d \in 0 .. D - 1
      BY <1>4
    <2>3. \A d \in 0 .. D - 1 : d \in low .. high <=> d * W <= B /\ (first \/ A < d * W)
      BY <1>3, <2>1
    <2> HIDE DEF low, high
    <2> QED BY <2>2, <2>3
  <1>6. low \in Int /\ high \in Int
    BY <1>4
  <1> DEFINE c == Cardinality(S)
  <1>7. c = IF low > high THEN 0 ELSE high - low + 1
    <2> HIDE DEF low, high
    <2> QED BY <1>5, <1>6, FS_Interval
  <1>8. /\ q * W \in Nat /\ p * W \in Nat /\ D * W \in Nat
        /\ (q + 1) * W = q * W + W /\ (p + 1) * W = p * W + W
        /\ (q - p) * W = q * W - p * W
        /\ (q - 1 - p) * W = q * W - W - p * W
    OBVIOUS
  <1>9. CASE first
    <2>1. low = 0 /\ A = 0 /\ high \in {q, q - 1} /\ high >= 0 /\ (high = q - 1 => q = D)
      BY <1>4, <1>9
    <2>2. c = high + 1
      BY <1>6, <1>7, <2>1
    <2>3. CASE high = q
      <3>1. c = q + 1
        BY <2>2, <2>3
      <3>2. c * W = q * W + W
        BY <1>8, <3>1
      <3> HIDE DEF c
      <3> QED BY <1>2, <1>8, <2>1, <3>1, <3>2 DEF c
    <2>4. CASE high = q - 1
      <3>1. c = q /\ q = D
        BY <2>1, <2>2, <2>4
      <3> HIDE DEF c
      <3> QED BY <1>2, <1>8, <2>1, <3>1 DEF c
    <2> QED BY <2>1, <2>3, <2>4
  <1>10. CASE ~first
    <2>1. low = p + 1 /\ high \in {q, q - 1} /\ (high = q - 1 => q = D)
      BY <1>4, <1>10
    <2>2. CASE high = q
      <3>1. c = q - p /\ c \in Nat
        BY <1>4, <1>7, <2>1, <2>2
      <3>2. c * W = q * W - p * W
        BY <1>8, <3>1
      <3> HIDE DEF c
      <3> QED BY <1>1, <1>2, <1>8, <3>1, <3>2 DEF c
    <2>3. CASE high = q - 1 /\ p < q
      <3>1. c = q - 1 - p /\ c \in Nat
        BY <1>4, <1>7, <2>1, <2>3
      <3>2. c * W = q * W - W - p * W
        BY <1>8, <3>1
      <3>3. q = D
        BY <2>1, <2>3
      <3> HIDE DEF c
      <3> QED BY <1>1, <1>2, <1>8, <3>1, <3>2, <3>3 DEF c
    <2>4. CASE high = q - 1 /\ p = q
      <3>1. c = 0 /\ q = D
        BY <1>4, <1>7, <2>1, <2>4
      <3>2. c * W = 0
        BY <3>1
      <3>3. B - A <= 0 /\ B - A >= 0
        BY <1>1, <1>8, <2>4, <3>1
      <3> HIDE DEF c
      <3> QED BY <3>1, <3>2, <3>3 DEF c
    <2> QED BY <1>4, <2>1, <2>2, <2>3, <2>4
  <1> QED BY <1>9, <1>10

-----------------------------------------------------------------------------
(* Top p.  The last weight that is kept is the one that reaches it and the     *)
(* least share honoured, and all of those before it do not; a top_p close to 1 *)
(* keeps all.                                                                  *)

IsTopP(topP) == topP \in [parts : Nat, of : Nat \ {0}]

(* A sum of weights does not suffice yet.                                      *)
Wanting(sum, total, topP) ==
  sum * topP.of < topP.parts * total \/ sum * TopPGrain < total \/ CutsNothing(topP)

LEMMA NucleusIsAFront ==
  ASSUME NEW m \in Nat \ {0}, NEW w \in [1 .. m -> Nat], Len(w) = m, w[1] > 0,
         NEW topP, IsTopP(topP), NEW kept, kept = Nucleus(w, topP)
  PROVE  /\ kept \in 1 .. m /\ WeightSum(w, kept) > 0
         /\ \A i \in 1 .. m : w[i] > 0 => (i <= kept <=> Wanting(WeightSum(w, i - 1), WeightSum(w, m), topP))
  <1>1. PICK parts \in Nat, of \in Nat \ {0}, grain \in Nat \ {0} :
          topP.parts = parts /\ topP.of = of /\ TopPGrain = grain
    BY SamplerAssumption DEF IsTopP
  <1> DEFINE Sum(i) == WeightSum(w, i)
             total == Sum(m)
  <1>2. /\ Sum(0) = 0 /\ \A i \in 0 .. m : Sum(i) \in Nat
        /\ \A i \in 1 .. m : Sum(i) = Sum(i - 1) + w[i]
    BY SumsUp
  <1>3. \A i \in 0 .. m : \A j \in i .. m : Sum(i) <= Sum(j)
    BY SumsGrow
  <1>4. \A i \in 1 .. m : i \in 0 .. m /\ i - 1 \in 0 .. m /\ i \in Nat /\ i >= 1 /\ m \in i .. m /\ i \in 1 .. i
    OBVIOUS
  <1>5. 1 \in 1 .. m /\ 1 - 1 = 0 /\ m \in 0 .. m /\ m \in 1 .. m
    OBVIOUS
  <1> HIDE DEF Sum
  <1>6. total \in Nat /\ Sum(1) \in Nat /\ Sum(1) > 0 /\ total > 0
    <2>1. Sum(1) = Sum(0) + w[1] /\ w[1] \in Nat
      BY <1>2, <1>5
    <2>2. Sum(1) <= total
      BY <1>3, <1>4, <1>5
    <2>3. total \in Nat
      BY <1>2, <1>5
    <2> QED BY <1>2, <2>1, <2>2, <2>3
  <1> HIDE DEF total
  <1>7. CASE CutsNothing(topP)
    <2>1. kept = m
      BY <1>1, <1>7 DEF Nucleus
    <2>2. \A i \in 1 .. m : i <= kept
      BY <2>1
    <2> QED BY <1>5, <1>6, <1>7, <2>1, <2>2 DEF Wanting, total, Sum
  <1>8. CASE ~CutsNothing(topP)
    <2> DEFINE Reached == {n \in 1 .. m : Sum(n) * of >= parts * total /\ Sum(n) * grain >= total}
    <2>1. DOMAIN w = 1 .. m
      OBVIOUS
    <2>2. kept = Min({m} \cup Reached)
      BY <1>1, <1>8, <2>1 DEF Nucleus, Sum, total
    <2>3. kept \in {m} \cup Reached /\ \A n \in {m} \cup Reached : kept <= n
      <3>1. {m} \cup Reached \subseteq Nat
        OBVIOUS
      <3> HIDE DEF Reached
      <3> QED BY <2>2, <3>1, MinOfNaturals
    <2>4. kept \in 1 .. m
      BY <1>5, <2>3
    <2>5. ASSUME NEW i \in 1 .. m, w[i] > 0, i <= kept
          PROVE  Sum(i - 1) * of < parts * total \/ Sum(i - 1) * grain < total
      <3>1. Sum(i - 1) \in Nat /\ Sum(i - 1) * of \in Nat /\ Sum(i - 1) * grain \in Nat /\ parts * total \in Nat
        BY <1>2, <1>4, <1>6
      <3>2. CASE i = 1
        <4>1. Sum(i - 1) = 0
          BY <1>2, <1>5, <3>2
        <4>2. Sum(i - 1) * grain = 0
          BY <4>1
        <4> QED BY <1>6, <4>2
      <3>3. CASE i # 1
        <4>1. i - 1 \in 1 .. m /\ ~(kept <= i - 1)
          BY <1>4, <2>4, <2>5, <3>3
        <4>2. ~(Sum(i - 1) * of >= parts * total /\ Sum(i - 1) * grain >= total)
          BY <2>3, <4>1
        <4> QED BY <1>6, <3>1, <4>2
      <3> QED BY <3>2, <3>3
    <2>6. ASSUME NEW i \in 1 .. m, ~(i <= kept)
          PROVE  ~(Sum(i - 1) * of < parts * total) /\ ~(Sum(i - 1) * grain < total)
      <3>1. kept # m /\ kept \in 0 .. m /\ i - 1 \in kept .. m /\ i - 1 \in 0 .. m
        BY <2>4, <2>6
      <3>2. Sum(kept) * of >= parts * total /\ Sum(kept) * grain >= total
        BY <2>3, <3>1
      <3>3. Sum(kept) <= Sum(i - 1) /\ Sum(kept) \in Nat /\ Sum(i - 1) \in Nat
        BY <1>2, <1>3, <3>1
      <3>4. Sum(kept) * of <= Sum(i - 1) * of /\ Sum(kept) * of \in Nat /\ Sum(i - 1) * of \in Nat
        BY <3>3, ProductsGrow
      <3>5. Sum(kept) * grain <= Sum(i - 1) * grain /\ Sum(kept) * grain \in Nat /\ Sum(i - 1) * grain \in Nat
        BY <3>3, ProductsGrow
      <3>6. parts * total \in Nat /\ total \in Nat
        BY <1>6
      <3> QED BY <3>2, <3>4, <3>5, <3>6
    <2>7. Sum(kept) > 0
      <3>1. kept \in 1 .. m /\ 1 \in 0 .. m /\ Sum(kept) \in Nat
        BY <1>2, <1>4, <1>5, <2>4
      <3>2. Sum(1) <= Sum(kept)
        BY <1>3, <2>4, <3>1
      <3> QED BY <1>6, <3>1, <3>2
    <2> QED BY <1>1, <1>8, <2>4, <2>5, <2>6, <2>7 DEF Wanting, total, Sum
  <1> QED BY <1>7, <1>8

-----------------------------------------------------------------------------
(* Sampling.                                                                   *)

IsOptions(options) ==
  options \in [greedy : BOOLEAN, topK : Nat, topP : [parts : Nat, of : Nat \ {0}]]

LEMMA ArgmaxIsFirstLargest ==
  ASSUME NEW row \in Seq(Int), NEW ordered, ordered = {t \in DOMAIN row : ~IsNaN(row[t])},
         ordered # {}
  PROVE  /\ Argmax(row) \in ordered
         /\ \A t \in ordered : row[t] <= row[Argmax(row)] /\ (row[t] = row[Argmax(row)] => Argmax(row) <= t)
  <1> DEFINE largest == {t \in ordered : \A s \in ordered : row[s] <= row[t]}
  <1>1. PICK t \in ordered : \A s \in ordered : s = t \/ Precedes(row, t, s)
    <2> DEFINE S == {i \in DOMAIN row : Sorted(row)[i] \in ordered}
    <2>1. IsListing(row, Sorted(row))
      BY SortSorts
    <2>2. PICK order : order = Sorted(row) /\ IsListing(row, order)
      BY <2>1
    <2>3. \A s \in DOMAIN row : \E i \in DOMAIN row : s = order[i]
      <3>1. IsListing(row, order)
        BY <2>2
      <3> QED BY ONLY <3>1, row \in Seq(Int), SortedListsAll
    <2>4. S # {} /\ S \subseteq Nat
      <3>1. PICK s \in DOMAIN row : s \in ordered
        OBVIOUS
      <3>2. PICK i \in DOMAIN row : s = order[i]
        BY <2>3
      <3>3. i \in S
        BY <2>2, <3>1, <3>2
      <3>4. \A k \in DOMAIN row : k \in Nat
        OBVIOUS
      <3> QED BY <3>3, <3>4
    <2>5. PICK i \in S : \A j \in S : i <= j
      <3> HIDE DEF S
      <3> QED BY <2>4, LeastOfNaturals
    <2>6. ASSUME NEW s \in ordered PROVE s = order[i] \/ Precedes(row, order[i], s)
      <3>1. PICK j \in DOMAIN row : s = order[j]
        BY <2>3
      <3>2. j \in S /\ i <= j /\ i \in DOMAIN row /\ i \in Int /\ j \in Int
        BY <2>2, <2>5, <3>1
      <3>3. i = j \/ i < j
        BY <3>2
      <3> QED BY <2>2, <3>1, <3>2, <3>3 DEF IsListing
    <2>7. order[i] \in ordered
      BY <2>2
    <2> QED BY <2>6, <2>7
  <1>2. \A s \in ordered : s \in DOMAIN row /\ s \in Int /\ row[s] \in Int
    OBVIOUS
  <1>3. \A s \in ordered : row[s] <= row[t] /\ (row[s] = row[t] => t <= s)
    <2> SUFFICES ASSUME NEW s \in ordered PROVE row[s] <= row[t] /\ (row[s] = row[t] => t <= s)
      OBVIOUS
    <2>1. s = t \/ Precedes(row, t, s)
      BY <1>1
    <2> QED BY <1>2, <2>1 DEF Precedes
  <1>4. t \in largest /\ \A y \in largest : t <= y
    <2>1. t \in largest
      BY <1>3
    <2>2. ASSUME NEW y \in largest PROVE t <= y
      <3>1. row[t] <= row[y] /\ row[y] <= row[t] /\ row[t] \in Int /\ row[y] \in Int
        BY <1>2, <1>3
      <3> QED BY <1>3, <3>1
    <2> QED BY <2>1, <2>2
  <1>5. Min(largest) = t
    <2>1. \A x \in largest : (\A y \in largest : x <= y) => x = t
      <3> SUFFICES ASSUME NEW x \in largest, \A y \in largest : x <= y PROVE x = t
        OBVIOUS
      <3>1. x <= t /\ t <= x /\ x \in Int /\ t \in Int
        BY <1>2, <1>4
      <3> QED BY <3>1
    <2> HIDE DEF largest
    <2> QED BY <1>4, <2>1 DEF Min
  <1>6. Argmax(row) = t
    BY <1>5 DEF Argmax
  <1> QED BY <1>3, <1>6

(* Neither greedy, nor a NaN among the candidates.                             *)
LEMMA WalkStopsBetweenSums ==
  ASSUME NEW row \in Seq(Int), row # <<>>, NEW order, order = Sorted(row),
         NEW options, IsOptions(options), ~IsDeterministic(row, options),
         NEW m, m = Candidates(row, options.topK), NEW w, w = WeightsOf(row, order, m),
         NEW kept, kept = Nucleus(w, options.topP), NEW draw \in 0 .. Draws - 1
  PROVE  \E i \in 1 .. kept :
           /\ Sample(row, options, draw) = order[i]
           /\ draw * WeightSum(w, kept) <= Draws * WeightSum(w, i)
           /\ i = 1 \/ Draws * WeightSum(w, i - 1) < draw * WeightSum(w, kept)
  <1>1. IsListing(row, order) /\ Draws \in Nat \ {0} /\ IsTopP(options.topP) /\ options.topK \in Nat
        /\ ~options.greedy
    BY SortSorts, SamplerAssumption DEF IsOptions, IsTopP, IsDeterministic
  <1>2. m \in 1 .. Len(row) /\ \A i \in 1 .. m : order[i] \in InTopK(row, options.topK)
    <2>1. PICK k \in Nat : k = options.topK
      BY <1>1
    <2>2. m = Candidates(row, k) /\ IsListing(row, order)
      BY <1>1, <2>1
    <2>3. m \in 1 .. Len(row) /\ \A i \in 1 .. m : order[i] \in InTopK(row, k)
      BY <2>2, TopKIsInFront
    <2> QED BY <2>1, <2>3
  <1>3. w \in [1 .. m -> Nat] /\ Len(w) = m /\ w[1] > 0
    BY <1>1, <1>2, WeightsOfListed
  <1>4. m \in Nat \ {0}
    BY <1>2
  <1>5. kept \in 1 .. m
    BY <1>1, <1>3, <1>4, NucleusIsAFront
  <1>6. \A i \in 0 .. m : WeightSum(w, i) \in Nat
    BY <1>3, <1>4, SumsUp
  <1> DEFINE reached == {n \in 1 .. kept : draw * WeightSum(w, kept) <= Draws * WeightSum(w, n)}
             i == Min(reached)
  <1>7. reached # {} /\ reached \subseteq Nat
    <2>1. kept \in 1 .. kept /\ WeightSum(w, kept) \in Nat /\ draw \in Nat /\ draw <= Draws
      BY <1>1, <1>5, <1>6
    <2>2. draw * WeightSum(w, kept) <= Draws * WeightSum(w, kept)
      BY <1>1, <2>1, ProductsGrow
    <2>3. kept \in reached
      BY <2>1, <2>2
    <2> QED BY <2>3
  <1>8. i \in reached /\ \A n \in reached : i <= n
    <2> HIDE DEF reached
    <2> QED BY <1>7, MinOfNaturals
  <1>9. i \in 1 .. kept /\ draw * WeightSum(w, kept) <= Draws * WeightSum(w, i)
    <2> HIDE DEF i
    <2> QED BY <1>8
  <1>10. ASSUME i # 1 PROVE Draws * WeightSum(w, i - 1) < draw * WeightSum(w, kept)
    <2> HIDE DEF i
    <2>1. i - 1 \in 1 .. kept /\ ~(i <= i - 1) /\ i - 1 \in 0 .. m /\ kept \in 0 .. m
      BY <1>4, <1>5, <1>9, <1>10
    <2>2. ~(draw * WeightSum(w, kept) <= Draws * WeightSum(w, i - 1))
      BY <1>8, <2>1
    <2>3. WeightSum(w, i - 1) \in Nat /\ WeightSum(w, kept) \in Nat /\ draw \in Nat
      BY <1>6, <2>1
    <2>4. draw * WeightSum(w, kept) \in Nat /\ Draws * WeightSum(w, i - 1) \in Nat
      BY <1>1, <2>3
    <2> QED BY <2>2, <2>4
  <1>11. Sample(row, options, draw) = order[i]
    <2>1. DOMAIN w = 1 .. m
      BY <1>3
    <2>2. \A j \in DOMAIN w : ~IsNaN(row[order[j]])
      BY <1>2, <2>1 DEF IsDeterministic
    <2>3. Walk(row, order, w, kept, draw) = order[i]
      BY <1>7, <2>2 DEF Walk
    <2> QED BY <1>1, <2>3 DEF Sample
  <1> HIDE DEF i
  <1> QED BY <1>9, <1>10, <1>11

(* The nucleus as its definition has it, without sorting, is what is kept but  *)
(* for tokens without weight; and its mass is the sum up to there.             *)
LEMMA KeptIsNucleus ==
  ASSUME NEW row \in Seq(Int), row # <<>>, NEW order, IsListing(row, order),
         NEW options, IsOptions(options),
         NEW m, m = Candidates(row, options.topK), NEW w, w = WeightsOf(row, order, m),
         NEW kept, kept = Nucleus(w, options.topP)
  PROVE  /\ \A t : t \in InNucleus(row, options) => \E i \in 1 .. kept : t = order[i] /\ w[i] > 0
         /\ \A i \in 1 .. kept : w[i] > 0 => order[i] \in InNucleus(row, options)
         /\ Mass(row, InNucleus(row, options)) = WeightSum(w, kept)
  <1>1. PICK k \in Nat : k = options.topK
    BY DEF IsOptions
  <1>2. /\ m \in 1 .. Len(row)
        /\ \A t : t \in InTopK(row, k) => \E i \in 1 .. m : t = order[i]
        /\ \A i \in 1 .. m : order[i] \in InTopK(row, k)
    <2>1. m = Candidates(row, k)
      BY <1>1
    <2>2. m \in 1 .. Len(row)
      BY <2>1, TopKIsInFront
    <2>3. \A t : t \in InTopK(row, k) => \E i \in 1 .. m : t = order[i]
      BY <2>1, TopKIsInFront
    <2>4. \A i \in 1 .. m : order[i] \in InTopK(row, k)
      BY <2>1, TopKIsInFront
    <2> QED BY <2>2, <2>3, <2>4
  <1>3. /\ w \in [1 .. m -> Nat] /\ Len(w) = m /\ w[1] > 0
        /\ \A i \in 1 .. m : order[i] \in DOMAIN row /\ w[i] = TokenWeight(row, order[i])
    <2>1. m \in 1 .. Len(row)
      BY <1>2
    <2> QED BY <2>1, WeightsOfListed
  <1>4. \A i \in 1 .. m : w[i] \in Nat
    <2>1. w \in [1 .. m -> Nat]
      BY <1>3
    <2> QED BY <2>1
  <1>5. m \in Nat \ {0} /\ DOMAIN row = 1 .. Len(row) /\ \A i \in 1 .. m : i \in DOMAIN row
    BY <1>2
  <1>6. /\ kept \in 1 .. m
        /\ \A i \in 1 .. m : w[i] > 0 =>
             (i <= kept <=> Wanting(WeightSum(w, i - 1), WeightSum(w, m), options.topP))
    <2>1. PICK topP : topP = options.topP
      OBVIOUS
    <2>2. IsTopP(topP)
      BY <2>1 DEF IsOptions, IsTopP
    <2>3. kept = Nucleus(w, topP)
      BY <2>1
    <2>4. w \in [1 .. m -> Nat] /\ Len(w) = m /\ w[1] > 0 /\ m \in Nat \ {0}
      BY <1>3, <1>5
    <2>5. /\ kept \in 1 .. m
          /\ \A i \in 1 .. m : w[i] > 0 =>
               (i <= kept <=> Wanting(WeightSum(w, i - 1), WeightSum(w, m), topP))
      BY <2>2, <2>3, <2>4, NucleusIsAFront
    <2> QED BY <2>1, <2>5
  <1>7. m \in 1 .. Len(row) /\ m \in 0 .. m
    BY <1>2, <1>5
  <1>8. Mass(row, InTopK(row, k)) = WeightSum(w, m)
    <2>1. /\ \A t \in InTopK(row, k) : \E i \in 1 .. m : t = order[i]
          /\ \A i \in 1 .. m : order[i] \in InTopK(row, k) \/ w[i] = 0
      BY <1>2
    <2> QED BY <1>7, <2>1, MassOfFront
  <1>9. ASSUME NEW i \in 1 .. m PROVE Mass(row, Ahead(row, order[i])) = WeightSum(w, i - 1)
    <2>1. i \in DOMAIN row
      BY <1>5
    <2>2. \A t \in Ahead(row, order[i]) : \E j \in 1 .. i - 1 : t = order[j]
      BY <2>1, AheadIsInFront
    <2>3. \A j \in 1 .. i - 1 : order[j] \in Ahead(row, order[i])
      BY <2>1, AheadIsInFront
    <2>4. PICK before, A : before \in 0 .. m /\ before = i - 1 /\ A = Ahead(row, order[i])
      BY <1>5
    <2>5. /\ \A t \in A : \E j \in 1 .. before : t = order[j]
          /\ \A j \in 1 .. before : order[j] \in A \/ w[j] = 0
      BY <2>2, <2>3, <2>4
    <2>6. Mass(row, A) = WeightSum(w, before)
      <3>1. before \in 0 .. m
        BY <2>4
      <3> QED BY <1>7, <2>5, <3>1, MassOfFront
    <2> QED BY <2>4, <2>6
  <1>10. ASSUME NEW i \in 1 .. m PROVE order[i] \in InNucleus(row, options) <=> i <= kept /\ w[i] > 0
    <2>1. Mass(row, {order[i]}) = w[i]
      BY <1>3, MassAddsUp
    <2>2. order[i] \in InNucleus(row, options)
            <=> w[i] > 0 /\ Wanting(WeightSum(w, i - 1), WeightSum(w, m), options.topP)
      BY <1>1, <1>2, <1>8, <1>9, <2>1 DEF InNucleus, Wanting, CutsNothing
    <2> QED BY <1>6, <2>2
  <1>11. \A i \in 1 .. kept : i \in 1 .. m /\ i <= kept
    BY <1>5, <1>6
  <1>12. \A t : t \in InNucleus(row, options) => \E i \in 1 .. kept : t = order[i] /\ w[i] > 0
    <2> SUFFICES ASSUME NEW t \in InNucleus(row, options)
                 PROVE  \E i \in 1 .. kept : t = order[i] /\ w[i] > 0
      OBVIOUS
    <2>1. t \in InTopK(row, k)
      BY <1>1 DEF InNucleus
    <2>2. PICK i \in 1 .. m : t = order[i]
      BY <1>2, <2>1
    <2>3. i <= kept /\ w[i] > 0
      BY <1>10, <2>2
    <2>4. i \in 1 .. kept
      BY <1>5, <1>6, <2>3
    <2> QED BY <2>2, <2>3, <2>4
  <1>13. Mass(row, InNucleus(row, options)) = WeightSum(w, kept)
    <2>1. /\ \A t \in InNucleus(row, options) : \E j \in 1 .. kept : t = order[j]
          /\ \A j \in 1 .. kept : order[j] \in InNucleus(row, options) \/ w[j] = 0
      BY <1>10, <1>11, <1>12, <1>4
    <2>2. kept \in 0 .. m
      BY <1>6
    <2> QED BY <1>7, <2>1, <2>2, MassOfFront
  <1> QED BY <1>10, <1>11, <1>12, <1>13

(* Each draw of sample() stops at the token its target falls to, so the draws  *)
(* of a token are those between two sums.                                      *)
LEMMA SharesFollowWeights ==
  ASSUME NEW row \in Seq(Int), row # <<>>, NEW options, IsOptions(options),
         ~IsDeterministic(row, options)
  PROVE  FollowsTheWeights(row, options)
  <1>1. PICK order : order = Sorted(row) /\ IsListing(row, order)
    BY SortSorts
  <1>2. IsListing(row, order)
    BY <1>1
  <1>3. PICK m : m = Candidates(row, options.topK)
    OBVIOUS
  <1>4. PICK w : w = WeightsOf(row, order, m)
    OBVIOUS
  <1>5. PICK kept : kept = Nucleus(w, options.topP)
    OBVIOUS
  <1>6. Draws \in Nat \ {0}
    BY SamplerAssumption
  <1>7. /\ m \in 1 .. Len(row) /\ m \in Nat \ {0}
        /\ w \in [1 .. m -> Nat] /\ Len(w) = m /\ w[1] > 0
        /\ \A i \in 1 .. m : i \in DOMAIN row /\ order[i] \in DOMAIN row /\ w[i] = TokenWeight(row, order[i])
    <2>1. PICK k \in Nat : k = options.topK
      BY DEF IsOptions
    <2>2. m = Candidates(row, k)
      BY <1>3, <2>1
    <2>3. m \in 1 .. Len(row)
      BY <1>2, <2>2, TopKIsInFront
    <2>4. /\ w \in [1 .. m -> Nat] /\ Len(w) = m /\ w[1] > 0
          /\ \A i \in 1 .. m : order[i] \in DOMAIN row /\ w[i] = TokenWeight(row, order[i])
      BY <1>2, <1>4, <2>3, WeightsOfListed
    <2>5. m \in Nat \ {0} /\ \A i \in 1 .. m : i \in DOMAIN row
      BY <2>3
    <2> QED BY <2>3, <2>4, <2>5
  <1>8. m \in Nat \ {0}
    BY <1>7
  <1>9. w \in [1 .. m -> Nat]
    BY <1>7
  <1>10. w[1] > 0
    BY <1>7
  <1>11. \A i \in 1 .. m : w[i] \in Nat
    BY <1>9
  <1>12. \A i \in 1 .. m : i \in DOMAIN row /\ order[i] \in DOMAIN row /\ w[i] = TokenWeight(row, order[i])
    BY <1>7
  <1>13. kept \in 1 .. m /\ WeightSum(w, kept) > 0
    <2>1. IsTopP(options.topP)
      BY DEF IsOptions, IsTopP
    <2> QED BY <1>5, <1>7, <2>1, NucleusIsAFront
  <1>14. /\ \A t : t \in InNucleus(row, options) => \E i \in 1 .. kept : t = order[i] /\ w[i] > 0
         /\ \A i \in 1 .. kept : w[i] > 0 => order[i] \in InNucleus(row, options)
         /\ Mass(row, InNucleus(row, options)) = WeightSum(w, kept)
    BY <1>1, <1>3, <1>4, <1>5, KeptIsNucleus
  <1> DEFINE Sum(i) == WeightSum(w, i)
             W == Sum(kept)
             Chosen(t) == {draw \in 0 .. Draws - 1 : Sample(row, options, draw) = t}
  <1>15. /\ \A i \in 0 .. m : Sum(i) \in Nat
         /\ \A i \in 1 .. m : Sum(i) = Sum(i - 1) + w[i]
         /\ Sum(0) = 0
    BY <1>7, SumsUp
  <1>16. \A i \in 0 .. m : \A j \in i .. m : Sum(i) <= Sum(j)
    BY <1>7, SumsGrow
  <1>17. \A draw \in 0 .. Draws - 1 : \E i \in 1 .. kept :
           /\ Sample(row, options, draw) = order[i]
           /\ draw * W <= Draws * Sum(i)
           /\ i = 1 \/ Draws * Sum(i - 1) < draw * W
    BY <1>1, <1>3, <1>4, <1>5, WalkStopsBetweenSums
  <1>18. W \in Nat \ {0} /\ W = WeightSum(w, kept)
    BY <1>7, <1>13, <1>15
  <1>19. \A a, b \in DOMAIN row : order[a] = order[b] => a = b
    BY <1>2, SortedListsAll
  <1>20. kept \in 1 .. m
    BY <1>13
  <1>21. \A i \in 1 .. kept : /\ i \in 1 .. m /\ i \in 0 .. m /\ i - 1 \in 0 .. m /\ i \in Nat /\ i >= 1
                              /\ kept \in i .. m /\ i \in (i - 1) .. m
    BY <1>8, <1>20
  <1> HIDE DEF Sum, W
  <1>22. ASSUME NEW i \in 0 .. m, NEW j \in i .. m
         PROVE  Draws * Sum(i) \in Nat /\ Draws * Sum(j) \in Nat /\ Draws * Sum(i) <= Draws * Sum(j)
    <2>1. j \in 0 .. m /\ Sum(i) \in Nat /\ Sum(j) \in Nat /\ Sum(i) <= Sum(j)
      BY <1>8, <1>15, <1>16
    <2>2. Sum(i) * Draws <= Sum(j) * Draws
      BY <1>6, <2>1, ProductsGrow
    <2> QED BY <1>6, <2>1, <2>2
  <1>23. \A draw \in 0 .. Draws - 1 : draw * W \in Nat
    BY <1>18
  <1>24. ASSUME NEW i \in 1 .. kept
         PROVE  Chosen(order[i]) = {draw \in 0 .. Draws - 1 : draw * W <= Draws * Sum(i)
                                      /\ (i = 1 \/ Draws * Sum(i - 1) < draw * W)}
    <2> SUFFICES ASSUME NEW draw \in 0 .. Draws - 1
                 PROVE  Sample(row, options, draw) = order[i]
                          <=> draw * W <= Draws * Sum(i) /\ (i = 1 \/ Draws * Sum(i - 1) < draw * W)
      OBVIOUS
    <2>1. PICK j \in 1 .. kept :
            /\ Sample(row, options, draw) = order[j] /\ draw * W <= Draws * Sum(j)
            /\ j = 1 \/ Draws * Sum(j - 1) < draw * W
      BY <1>17
    <2>2. i \in 1 .. m /\ j \in 1 .. m /\ i \in Nat /\ j \in Nat /\ i >= 1 /\ j >= 1
          /\ i \in 0 .. m /\ j \in 0 .. m /\ i - 1 \in 0 .. m /\ j - 1 \in 0 .. m
      BY <1>21
    <2>3. order[i] = order[j] => i = j
      BY <1>12, <1>19, <2>2
    <2>4. ASSUME draw * W <= Draws * Sum(i), i = 1 \/ Draws * Sum(i - 1) < draw * W, i # j PROVE FALSE
      <3>1. CASE j < i
        <4>1. i - 1 \in j .. m /\ i # 1
          BY <2>2, <3>1
        <4>2. Draws * Sum(j) <= Draws * Sum(i - 1) /\ Draws * Sum(j) \in Nat /\ Draws * Sum(i - 1) \in Nat
          BY <1>22, <2>2, <4>1
        <4> QED BY <1>23, <2>1, <2>4, <4>1, <4>2
      <3>2. CASE i < j
        <4>1. j - 1 \in i .. m /\ j # 1
          BY <2>2, <3>2
        <4>2. Draws * Sum(i) <= Draws * Sum(j - 1) /\ Draws * Sum(i) \in Nat /\ Draws * Sum(j - 1) \in Nat
          BY <1>22, <2>2, <4>1
        <4> QED BY <1>23, <2>1, <2>4, <4>1, <4>2
      <3> QED BY <2>2, <2>4, <3>1, <3>2
    <2> QED BY <2>1, <2>3, <2>4
  <1>25. ASSUME NEW t \in DOMAIN row, t \notin InNucleus(row, options)
         PROVE  Cardinality(Chosen(t)) = 0
    <2>1. ASSUME NEW draw \in Chosen(t) PROVE FALSE
      <3>1. PICK j \in 1 .. kept :
              /\ Sample(row, options, draw) = order[j] /\ draw * W <= Draws * Sum(j)
              /\ j = 1 \/ Draws * Sum(j - 1) < draw * W
        BY <1>17
      <3>2. t = order[j] /\ draw \in 0 .. Draws - 1
        BY <3>1
      <3>3. w[j] \in Nat /\ ~(w[j] > 0)
        BY <1>11, <1>14, <1>21, <1>25, <3>2
      <3>4. j # 1 /\ w[j] = 0
        BY <1>10, <3>3
      <3>5. Sum(j) = Sum(j - 1) /\ Sum(j) \in Nat
        BY <1>15, <1>21, <3>4
      <3>6. Draws * Sum(j) \in Nat /\ draw * W \in Nat
        BY <1>6, <1>23, <3>2, <3>5
      <3> QED BY <3>1, <3>4, <3>5, <3>6
    <2>2. Chosen(t) = {}
      BY <2>1
    <2> HIDE DEF Chosen
    <2> QED BY <2>2, FS_EmptySet
  <1>26. ASSUME NEW i \in 1 .. kept
         PROVE  LET c == Cardinality(Chosen(order[i]))
                IN  c * W <= Draws * w[i] + W /\ Draws * w[i] <= c * W + W
    <2> DEFINE A == Draws * Sum(i - 1)
               B == Draws * Sum(i)
               S == Chosen(order[i])
    <2>1. Sum(i) = Sum(i - 1) + w[i] /\ Sum(i - 1) \in Nat /\ Sum(i) \in Nat /\ w[i] \in Nat
      BY <1>11, <1>15, <1>21
    <2>2. A \in Nat /\ B \in Nat /\ A <= B /\ B <= Draws * W
      <3>1. A \in Nat /\ B \in Nat /\ A <= B
        BY <1>21, <1>22
      <3>2. B <= Draws * Sum(kept)
        BY <1>21, <1>22
      <3> QED BY <3>1, <3>2 DEF W
    <2>3. B - A = Draws * w[i]
      BY <1>6, <2>1
    <2>4. S = {draw \in 0 .. Draws - 1 : draw * W <= B /\ (i = 1 \/ A < draw * W)}
      BY <1>24
    <2>5. i = 1 => A = 0
      <3>1. Sum(0) = 0
        BY <1>15
      <3>2. i = 1 => Sum(i - 1) = Sum(0)
        OBVIOUS
      <3> QED BY <1>6, <3>1, <3>2
    <2> HIDE DEF A, B, S
    <2> DEFINE first == i = 1
    <2>6. S \subseteq 0 .. Draws - 1
          /\ \A draw \in 0 .. Draws - 1 : draw \in S <=> draw * W <= B /\ (first \/ A < draw * W)
      BY <2>4
    <2>7. first \in BOOLEAN /\ (first => A = 0)
      BY <2>5
    <2> HIDE DEF first
    <2>8. /\ Cardinality(S) \in Nat /\ Cardinality(S) * W <= (B - A) + W
          /\ B - A <= Cardinality(S) * W + W
      BY <1>6, <1>18, <2>2, <2>6, <2>7, DrawsBetween
    <2> QED BY <2>3, <2>8 DEF S
  <1>27. ASSUME NEW t \in DOMAIN row
         PROVE  LET share == Chances(row, options, t) * Mass(row, InNucleus(row, options))
                    due   == Draws * Mass(row, {t})
                IN  IF t \in InNucleus(row, options)
                      THEN /\ share <= due + Mass(row, InNucleus(row, options))
                           /\ due <= share + Mass(row, InNucleus(row, options))
                      ELSE Chances(row, options, t) = 0
    <2>1. CASE t \in InNucleus(row, options)
      <3>1. PICK i \in 1 .. kept : t = order[i]
        BY <1>14, <2>1
      <3>2. Mass(row, {t}) = w[i]
        BY <1>12, <1>21, <3>1, MassAddsUp
      <3>3. Chances(row, options, t) = Cardinality(Chosen(order[i]))
        BY <3>1 DEF Chances
      <3>4. Mass(row, InNucleus(row, options)) = W
        <4>1. Mass(row, InNucleus(row, options)) = WeightSum(w, kept)
          BY <1>14
        <4>2. W = WeightSum(w, kept)
          BY <1>18
        <4> QED BY <4>1, <4>2
      <3> QED BY <1>26, <2>1, <3>2, <3>3, <3>4
    <2>2. CASE t \notin InNucleus(row, options)
      BY <1>25, <2>2 DEF Chances
    <2> QED BY <2>1, <2>2
  <1> QED BY <1>27 DEF FollowsTheWeights

(* What one call of sample() may return.                                       *)
LEMMA SampleKeepsToOptions ==
  ASSUME NEW row \in Seq(Int), row # <<>>, NEW options, IsOptions(options),
         NEW draw \in 0 .. Draws - 1
  PROVE  KeepsToOptions(row, options, Sample(row, options, draw))
  <1> DEFINE ordered == {t \in DOMAIN row : ~IsNaN(row[t])}
  <1>1. PICK order : order = Sorted(row) /\ IsListing(row, order)
    BY SortSorts
  <1>2. PICK k \in Nat : k = options.topK
    BY DEF IsOptions
  <1>3. PICK m : m = Candidates(row, k)
    OBVIOUS
  <1>4. PICK w : w = WeightsOf(row, order, m)
    OBVIOUS
  <1>5. /\ m \in 1 .. Len(row)
        /\ \A t : t \in InTopK(row, k) => \E i \in 1 .. m : t = order[i]
        /\ \A i \in 1 .. m : order[i] \in InTopK(row, k)
    <2>1. IsListing(row, order)
      BY <1>1
    <2>2. m \in 1 .. Len(row)
      BY <1>3, <2>1, TopKIsInFront
    <2>3. \A t : t \in InTopK(row, k) => \E i \in 1 .. m : t = order[i]
      BY <1>3, <2>1, TopKIsInFront
    <2>4. \A i \in 1 .. m : order[i] \in InTopK(row, k)
      BY <1>3, <2>1, TopKIsInFront
    <2> QED BY <2>2, <2>3, <2>4
  <1>6. /\ w \in [1 .. m -> Nat] /\ Len(w) = m /\ w[1] > 0
        /\ \A i \in 1 .. m : order[i] \in DOMAIN row
    <2>1. IsListing(row, order) /\ m \in 1 .. Len(row)
      BY <1>1, <1>5
    <2> QED BY <1>4, <2>1, WeightsOfListed
  <1>7. CASE IsDeterministic(row, options)
    <2>1. Sample(row, options, draw) = Argmax(row)
      <3>1. CASE options.greedy
        BY <3>1 DEF Sample
      <3>2. CASE ~options.greedy
        <4>1. PICK t \in InTopK(row, k) : IsNaN(row[t])
          BY <1>2, <1>7, <3>2 DEF IsDeterministic
        <4>2. PICK i \in 1 .. m : t = order[i]
          BY <1>5, <4>1
        <4>3. i \in DOMAIN w /\ IsNaN(row[order[i]])
          BY <1>6, <4>1, <4>2
        <4>4. \A kept : Walk(row, order, w, kept, draw) = Argmax(row)
          BY <4>3 DEF Walk
        <4> QED BY <1>1, <1>2, <1>3, <1>4, <3>2, <4>4 DEF Sample
      <3> QED BY <3>1, <3>2
    <2>2. ordered # {} =>
            /\ Argmax(row) \in ordered
            /\ \A t \in ordered : row[t] <= row[Argmax(row)] /\ (row[t] = row[Argmax(row)] => Argmax(row) <= t)
      BY ArgmaxIsFirstLargest
    <2> QED BY <1>7, <2>1, <2>2 DEF KeepsToOptions
  <1>8. CASE ~IsDeterministic(row, options)
    <2>1. FollowsTheWeights(row, options)
      BY <1>8, SharesFollowWeights
    <2>2. PICK kept : kept = Nucleus(w, options.topP)
      OBVIOUS
    <2>3. m = Candidates(row, options.topK)
      BY <1>2, <1>3
    <2>4. PICK i \in 1 .. kept : Sample(row, options, draw) = order[i]
      BY <1>1, <1>4, <1>8, <2>2, <2>3, WalkStopsBetweenSums
    <2>5. kept \in 1 .. m
      <3>1. IsTopP(options.topP) /\ m \in Nat \ {0}
        BY <1>5 DEF IsOptions, IsTopP
      <3> QED BY <1>6, <2>2, <3>1, NucleusIsAFront
    <2>6. i \in 1 .. m
      BY <1>5, <2>5
    <2>7. order[i] \in InTopK(row, k) /\ order[i] \in DOMAIN row
      BY <1>5, <1>6, <2>6
    <2>8. ~IsNaN(row[order[i]])
      BY <1>2, <1>8, <2>7 DEF IsDeterministic
    <2> QED BY <1>8, <2>1, <2>4, <2>7, <2>8 DEF KeepsToOptions
  <1> QED BY <1>7, <1>8

-----------------------------------------------------------------------------
(* Theorems.                                                                   *)

(* The inductive invariant: slots are free once or one sequence's own, and the *)
(* keys in a sequence's slot are those of one pass over what was fed so far.   *)
THEOREM DecodeInvariant == Spec => []DecodeInv
  <1>1. ASSUME DecodeInv, [Next]_vars PROVE DecodeInv'
    <2>1. CASE UNCHANGED vars
      <3>1. UNCHANGED <<waiting, free, slot, layers, running, generated, done, logits, idx, sampled>>
        BY <2>1 DEF vars
      <3>2. TypeOK' /\ SlotsAreOwn' /\ WaitingAreFresh' /\ DoneAreBehind'
        BY <1>1, <3>1 DEF DecodeInv, TypeOK, SlotsAreOwn, WaitingAreFresh, DoneAreBehind
      <3>3. CacheIsCurrent' /\ BatchingIsInvisible'
        BY <1>1, <3>1 DEF DecodeInv, CacheIsCurrent, Fed, HasKeysOf, Tokens, Cached, BatchingIsInvisible
      <3> QED BY <3>2, <3>3 DEF DecodeInv
    <2>2. ASSUME NEW r \in Requests, Admit(r) PROVE DecodeInv'
      BY <1>1, <2>2, AdmitKeepsInv
    <2>3. ASSUME NEW r \in Requests, AdmitFails(r) PROVE DecodeInv'
      BY <1>1, <2>3, AdmitFailsKeepsInv
    <2>4. CASE Forward
      BY <1>1, <2>4, ForwardKeepsInv
    <2>5. CASE ForwardFails
      BY <1>1, <2>5, ForwardFailsKeepsInv
    <2>6. CASE RowSkipped
      BY <1>1, <2>6, RowSkippedKeepsInv
    <2>7. CASE RowSampled
      BY <1>1, <2>7, RowSampledKeepsInv
    <2>8. CASE RowsEnd
      BY <1>1, <2>8, RowsEndKeepsInv
    <2> QED BY <1>1, <2>1, <2>2, <2>3, <2>4, <2>5, <2>6, <2>7, <2>8 DEF Next
  <1> QED BY <1>1, InitHasInv, PTL DEF Spec

(* Types of the batch, the free list, the slots and the tokens.                *)
THEOREM DecodeTypes == Spec => []TypeOK
  <1>1. DecodeInv => TypeOK
    BY DEF DecodeInv
  <1> QED BY <1>1, DecodeInvariant, PTL

(* Whoever shares the batch, joins or leaves it, fails in it or had the slot   *)
(* before, the logits a sequence is sampled from are those of one pass over    *)
(* its own prompt and tokens (Gpt2::forward, Scheduler::run).                  *)
THEOREM BatchIsInvisible == Spec => []BatchingIsInvisible
  <1>1. DecodeInv => BatchingIsInvisible
    BY DEF DecodeInv
  <1> QED BY <1>1, DecodeInvariant, PTL

(* Each token of a response is the first of the largest logits if its request  *)
(* is greedy or a NaN is among the candidates; and otherwise it is one of the  *)
(* nucleus (all of the top k, if top_p is too close to 1 to cut), drawn as     *)
(* often as its weight says, for any logits, any top_k and top_p and any       *)
(* number of draws (Sampler::sample).                                          *)
THEOREM SamplesKeepToOptions == Spec => []SampledFromTheNucleus
  <1>1. Init => SampledFromTheNucleus
    BY DEF Init, SampledFromTheNucleus
  <1>2. ASSUME DecodeInv, SampledFromTheNucleus, [Next]_vars PROVE SampledFromTheNucleus'
    <2>1. CASE RowSampled
      <3>1. PICK r \in Requests : r = running[idx]
        <4>1. idx \in DOMAIN running
          BY <2>1 DEF RowSampled
        <4> QED BY <1>2, <4>1, RunningAreRequests DEF DecodeInv
      <3>2. PICK row \in Rows, draw \in 0 .. Draws - 1 :
              /\ generated' = [generated EXCEPT ![r] = Append(@, Sample(row, Options[r], draw))]
              /\ sampled' = [row |-> row, options |-> Options[r], token |-> Last(generated'[r])]
        BY <2>1, <3>1 DEF RowSampled
      <3>3. PICK token : token = Sample(row, Options[r], draw)
        OBVIOUS
      <3>4. row \in Seq(Int) /\ row # <<>> /\ IsOptions(Options[r])
        BY DecodeStepAssumption DEF IsOptions
      <3>5. KeepsToOptions(row, Options[r], token)
        BY <3>3, <3>4, SampleKeepsToOptions
      <3>6. Last(generated'[r]) = token
        <4>1. generated'[r] = Append(generated[r], token)
          BY <1>2, <3>2, <3>3 DEF DecodeInv, TypeOK
        <4> DEFINE g == generated[r]
        <4>2. PICK U : g \in Seq(U) /\ token \in U
          <5>1. PICK V : g \in Seq(V)
            BY <1>2 DEF DecodeInv, TypeOK
          <5>2. g \in Seq(V \cup {token})
            BY <5>1, SeqMonotonic
          <5> QED BY <5>2
        <4>3. Len(Append(g, token)) = Len(g) + 1 /\ Append(g, token)[Len(g) + 1] = token
          <5> HIDE DEF g
          <5> QED BY <4>2, AppendProperties
        <4> QED BY <4>1, <4>3 DEF Last
      <3>7. sampled'.row = row /\ sampled'.options = Options[r] /\ sampled'.token = token
        BY <3>2, <3>6
      <3> QED BY <3>5, <3>7 DEF SampledFromTheNucleus
    <2>2. CASE UNCHANGED vars
      BY <1>2, <2>2 DEF vars, SampledFromTheNucleus
    <2>3. CASE ~RowSampled /\ ~UNCHANGED vars
      <3>1. sampled' = Nothing
        BY <1>2, <2>3 DEF Next, Admit, AdmitFails, Forward, ForwardFails, RowSkipped, RowsEnd
      <3> QED BY <3>1 DEF SampledFromTheNucleus
    <2> QED BY <2>1, <2>2, <2>3
  <1>3. DecodeInv /\ SampledFromTheNucleus /\ [Next]_vars => SampledFromTheNucleus'
    BY <1>2
  <1> QED BY <1>1, <1>3, DecodeInvariant, PTL DEF Spec
=============================================================================
