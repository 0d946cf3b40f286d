------------------------- MODULE Substitute_proofs -------------------------
(***************************************************************************)
(* Proofs that the two loops of subst.go compute the expansion of every    *)
(* text, and that escaping is complete, for texts of any length.           *)
(***************************************************************************)
EXTENDS Substitute, SequenceTheorems, WellFoundedInduction, TLAPS

(* Every set of natural numbers has a least one, and the induction that    *)
(* follows, with a set in the place of a predicate.                        *)
LEMMA LeastNatural ==
    ASSUME NEW T \in SUBSET Nat, T # {}
    PROVE  \E x \in T : \A y \in T : x =< y
<1> DEFINE R == OpToRel(<, Nat)
<1>1. \A x, y \in Nat : x < y => <<x, y>> \in R
  BY DEF OpToRel
<1>2. IsWellFoundedOn(R, Nat)  BY NatLessThanWellFounded
<1> HIDE DEF R
<1>3. PICK x \in T : \A y \in T : ~ (<<y, x>> \in R)
  BY <1>2, WFMin
<1>4. x \in Nat /\ \A y \in T : y \in Nat /\ ~ (y < x)
  BY <1>1, <1>3
<1> QED  BY <1>4

(* Induction over a set of natural numbers. *)
LEMMA NatSetInduction ==
    ASSUME NEW S, 0 \in S, \A k \in Nat : k \in S => k + 1 \in S
    PROVE  Nat \subseteq S
<1> SUFFICES ASSUME Nat \ S # {} PROVE FALSE
  OBVIOUS
<1>1. PICK x \in Nat \ S : \A y \in Nat \ S : x =< y
  BY LeastNatural
<1>2. x - 1 \in Nat /\ ~ (x =< x - 1)  BY <1>1
<1>3. x - 1 \in S  BY <1>1, <1>2
<1> QED  BY <1>1, <1>2, <1>3

(* A bounded set of integers that is not empty has a maximum. *)
LEMMA GreatestInteger ==
    ASSUME NEW a \in Int, NEW z \in Int, NEW T \in SUBSET (a .. z), T # {}
    PROVE  Max(T) \in T /\ \A e \in T : e =< Max(T)
<1> DEFINE D == {z - e : e \in T}
<1>1. D \in SUBSET Nat /\ D # {}
  <2>1. \A e \in T : z - e \in Nat  OBVIOUS
  <2> QED  BY <2>1
<1>2. PICK d \in D : \A x \in D : d =< x
  <2> HIDE DEF D
  <2> QED  BY <1>1, LeastNatural
<1>3. PICK e \in T : d = z - e  BY <1>2
<1>4. \A x \in T : e >= x  BY <1>2, <1>3
<1>5. \E x \in T : \A y \in T : x >= y  BY <1>4
<1>6. Max(T) \in T /\ \A y \in T : Max(T) >= y  BY <1>5 DEF Max
<1> QED  BY <1>6

(* Concatenation is associative. *)
LEMMA Reassociated ==
    \A C : \A x, y, z \in Seq(C) : (x \o y) \o z = x \o (y \o z)
BY ConcatAssociative
-----------------------------------------------------------------------------
(* findValidKeyFromIndex finds one parameter or none, within the text. *)
LEMMA KeyEndBounds ==
    ASSUME NEW C, NEW s \in Seq(C), NEW j \in 1 .. (Len(s) + 1)
    PROVE  KeyEnd(s, j) \in (j - 1) .. Len(s)
<1> DEFINE T == {e \in (j - 1) .. Len(s) : /\ e >= j => s[j] \in KeyStart
                                           /\ \A k \in j .. e : s[k] \in KeyChar}
<1>1. j - 1 \in Int /\ Len(s) \in Int /\ j - 1 =< Len(s)  OBVIOUS
<1>2. T \in SUBSET ((j - 1) .. Len(s)) /\ j - 1 \in T  BY <1>1
<1>3. KeyEnd(s, j) = Max(T)  BY DEF KeyEnd
<1> HIDE DEF T
<1>4. Max(T) \in T  BY <1>1, <1>2, GreatestInteger
<1> QED  BY <1>2, <1>3, <1>4

Parameters(C) == [Start : Nat, End : Nat, Key : Seq(C), Escape : BOOLEAN]

(* findValidKeyFromIndex returns a parameter that starts where it looks. *)
LEMMA OneKey ==
    ASSUME NEW C, NEW s \in Seq(C), NEW j \in 1 .. Len(s), FindValidKey(s, j) # {}
    PROVE  \E p \in Parameters(C) :
              /\ FindValidKey(s, j) = {p}
              /\ p.Start = j /\ p.End \in (j + 1) .. Len(s) /\ ~ p.Escape
<1> DEFINE braced == KeyEnd(s, j + 2)
           unbraced == KeyEnd(s, j + 1)
           B == /\ j < Len(s) /\ s[j + 1] = "{"
                /\ braced >= j + 2 /\ braced < Len(s) /\ s[braced + 1] = "}"
           one == Parameter(j, braced + 1, SubSeq(s, j + 2, braced), FALSE)
           two == Parameter(j, unbraced, SubSeq(s, j + 1, unbraced), FALSE)
<1>1. Len(s) \in Nat /\ \A k \in 1 .. Len(s) : s[k] \in C
  BY LenProperties, ElementOfSeq
<1>2. FindValidKey(s, j) = IF B THEN {one}
                           ELSE IF j < Len(s) /\ unbraced > j THEN {two} ELSE {}
  BY DEF FindValidKey
<1>3. j + 1 =< Len(s)
  <2>1. B => j < Len(s)  OBVIOUS
  <2> HIDE DEF one, two, braced, unbraced, B
  <2>2. j < Len(s)  BY <1>2, <2>1
  <2> QED  BY <1>1, <2>2
<1> HIDE DEF one, two, B
<1>4. braced \in (j + 1) .. Len(s) /\ unbraced \in j .. Len(s)
  BY <1>1, <1>3, KeyEndBounds
<1> HIDE DEF braced, unbraced
<1>5. CASE B
  <2>1. FindValidKey(s, j) = {one}  BY <1>2, <1>3, <1>5
  <2>2. braced + 1 \in (j + 1) .. Len(s)
    <3>1. braced < Len(s)  BY <1>5 DEF B
    <3> QED  BY <1>1, <1>4, <3>1
  <2>3. SubSeq(s, j + 2, braced) \in Seq(C)
    <3>1. j + 2 \in Int /\ braced \in Int /\ \A k \in (j + 2) .. braced : s[k] \in C
      BY <1>1, <1>4
    <3> QED  BY <3>1, SubSeqProperties
  <2>4. one \in Parameters(C) /\ one.Start = j /\ one.End = braced + 1 /\ ~ one.Escape
    BY <2>2, <2>3 DEF one, Parameter, Parameters
  <2> QED  BY <2>1, <2>2, <2>4
<1>6. CASE ~ B
  <2>1. FindValidKey(s, j) = {two} /\ unbraced > j  BY <1>2, <1>3, <1>6
  <2>2. unbraced \in (j + 1) .. Len(s)  BY <1>4, <2>1
  <2>3. SubSeq(s, j + 1, unbraced) \in Seq(C)
    <3>1. j + 1 \in Int /\ unbraced \in Int /\ \A k \in (j + 1) .. unbraced : s[k] \in C
      BY <1>1, <1>4
    <3> QED  BY <3>1, SubSeqProperties
  <2>4. two \in Parameters(C) /\ two.Start = j /\ two.End = unbraced /\ ~ two.Escape
    BY <2>2, <2>3 DEF two, Parameter, Parameters
  <2> QED  BY <2>1, <2>2, <2>4
<1> QED  BY <1>5, <1>6

(* KeyAt has it, and it ends within the text. *)
LEMMA KeyAtFacts ==
    ASSUME NEW C, NEW s \in Seq(C), NEW j \in 1 .. Len(s), FindValidKey(s, j) # {}
    PROVE  /\ FindValidKey(s, j) = {KeyAt(s, j)}
           /\ KeyAt(s, j) \in Parameters(C)
           /\ KeyAt(s, j).Start = j /\ KeyAt(s, j).End \in (j + 1) .. Len(s)
           /\ ~ KeyAt(s, j).Escape
<1>1. PICK p \in Parameters(C) :
         /\ FindValidKey(s, j) = {p}
         /\ p.Start = j /\ p.End \in (j + 1) .. Len(s) /\ ~ p.Escape
  BY OneKey
<1>2. KeyAt(s, j) = p  BY <1>1 DEF KeyAt
<1> QED  BY <1>1, <1>2

(* A parameter is replaced by a text. *)
LEMMA ValueType ==
    ASSUME NEW C, "$" \in C, NEW R, \A k \in DOMAIN R : R[k] \in Seq(C),
           NEW p \in Parameters(C)
    PROVE  ValueOf(R, p) \in Seq(C)
<1>1. <<"$">> \in Seq(C) /\ << >> \in Seq(C) /\ p.Escape \in BOOLEAN
  BY DEF Parameters
<1>2. ValueOf(R, p) = IF p.Escape THEN <<"$">>
                      ELSE IF p.Key \in DOMAIN R THEN R[p.Key] ELSE << >>
  BY <1>1 DEF ValueOf
<1> QED  BY <1>1, <1>2
-----------------------------------------------------------------------------
(* The suffixes that Expand is defined by: f has the expansion of each. *)
Suffix(R, s, f, j) ==
    IF j > Len(s) THEN << >>
    ELSE IF IsEscape(s, j) THEN <<"$">> \o f[j + 2]
    ELSE IF s[j] = "$" /\ FindValidKey(s, j) # {}
         THEN ValueOf(R, KeyAt(s, j)) \o f[KeyAt(s, j).End + 1]
         ELSE <<s[j]>> \o f[j + 1]

(* A suffix depends on shorter ones. *)
LEMMA SuffixAgrees ==
    ASSUME NEW C, NEW s \in Seq(C), NEW R, NEW f, NEW g, NEW j \in 1 .. (Len(s) + 2),
           \A k \in (j + 1) .. (Len(s) + 2) : f[k] = g[k]
    PROVE  Suffix(R, s, f, j) = Suffix(R, s, g, j)
<1>1. Len(s) \in Nat  BY LenProperties
<1>2. CASE j > Len(s)
  BY <1>2 DEF Suffix
<1>3. CASE j =< Len(s) /\ s[j] = "$" /\ ~ IsEscape(s, j) /\ FindValidKey(s, j) # {}
  <2>1. j \in 1 .. Len(s)  BY <1>1, <1>3
  <2>2. KeyAt(s, j).End \in (j + 1) .. Len(s)
    BY <1>3, <2>1, KeyAtFacts
  <2>3. \A h : Suffix(R, s, h, j) = ValueOf(R, KeyAt(s, j)) \o h[KeyAt(s, j).End + 1]
    BY <1>1, <1>3, <2>1 DEF Suffix
  <2>4. f[KeyAt(s, j).End + 1] = g[KeyAt(s, j).End + 1]
    BY <1>1, <2>2
  <2> QED  BY <2>3, <2>4
<1>4. CASE j =< Len(s) /\ IsEscape(s, j)
  <2>1. \A h : Suffix(R, s, h, j) = <<"$">> \o h[j + 2]
    BY <1>1, <1>4 DEF Suffix
  <2>2. f[j + 2] = g[j + 2]  BY <1>1, <1>4
  <2> QED  BY <2>1, <2>2
<1>5. CASE j =< Len(s) /\ ~ IsEscape(s, j) /\ ~ (s[j] = "$" /\ FindValidKey(s, j) # {})
  <2>1. \A h : Suffix(R, s, h, j) = <<s[j]>> \o h[j + 1]
    BY <1>1, <1>5 DEF Suffix
  <2>2. f[j + 1] = g[j + 1]  BY <1>1, <1>5
  <2> QED  BY <2>1, <2>2
<1> QED  BY <1>1, <1>2, <1>3, <1>4, <1>5

(* Expand's function of the suffixes from m on. *)
IsExpansion(R, s, m, f) == f = [j \in m .. (Len(s) + 2) |-> Suffix(R, s, f, j)]

(* Expand's recursive function exists, from the last suffix backwards. *)
LEMMA ExpansionExists ==
    ASSUME NEW C, NEW s \in Seq(C), NEW R
    PROVE  \E f : IsExpansion(R, s, 1, f)
<1> DEFINE L == Len(s)
           S == {k \in Nat : k =< L + 1 => \E f : IsExpansion(R, s, L + 2 - k, f)}
<1>1. L \in Nat  BY LenProperties
<1> HIDE DEF L
<1>2. 0 \in S
  <2> DEFINE f == [j \in (L + 2) .. (L + 2) |-> << >>]
  <2>1. \A j \in (L + 2) .. (L + 2) : Suffix(R, s, f, j) = << >>
    BY <1>1 DEF Suffix, L
  <2>2. IsExpansion(R, s, L + 2, f)
    <3>1. f = [j \in (L + 2) .. (L + 2) |-> Suffix(R, s, f, j)]
      BY <2>1
    <3> QED  BY <3>1 DEF IsExpansion, L
  <2>3. L + 2 - 0 = L + 2  BY <1>1
  <2> HIDE DEF f
  <2> QED  BY <2>2, <2>3
<1>3. ASSUME NEW k \in Nat, k \in S PROVE k + 1 \in S
  <2> SUFFICES ASSUME k + 1 =< L + 1 PROVE \E f : IsExpansion(R, s, L + 2 - (k + 1), f)
    OBVIOUS
  <2>1. PICK f : IsExpansion(R, s, L + 2 - k, f)  BY <1>1, <1>3
  <2> DEFINE m == L + 2 - (k + 1)
             h == [j \in m .. (L + 2) |-> IF j = m THEN Suffix(R, s, f, m) ELSE f[j]]
  <2>2. m \in 1 .. (L + 1) /\ L + 2 - k = m + 1  BY <1>1
  <2> HIDE DEF m
  <2>3. \A j \in (m + 1) .. (L + 2) : f[j] = Suffix(R, s, f, j)
    <3>1. f = [j \in (m + 1) .. (L + 2) |-> Suffix(R, s, f, j)]
      BY <2>1, <2>2 DEF IsExpansion, L
    <3> QED  BY <3>1
  <2>4. /\ \A j \in (m + 1) .. (L + 2) : h[j] = f[j]
        /\ \A j \in m .. (L + 2) : h[j] = Suffix(R, s, f, j)
    <3>1. \A j \in (m + 1) .. (L + 2) : j \in m .. (L + 2) /\ j # m  BY <1>1, <2>2
    <3>2. \A j \in m .. (L + 2) : j = m \/ j \in (m + 1) .. (L + 2)  BY <1>1, <2>2
    <3> QED  BY <2>3, <3>1, <3>2
  <2>5. DOMAIN h = m .. (L + 2) /\ h = [j \in DOMAIN h |-> h[j]]  OBVIOUS
  <2> HIDE DEF h
  <2>6. \A j \in m .. (L + 2) : Suffix(R, s, h, j) = Suffix(R, s, f, j)
    <3> TAKE j \in m .. (L + 2)
    <3>1. j \in 1 .. (Len(s) + 2) /\ \A i_ \in (j + 1) .. (Len(s) + 2) : h[i_] = f[i_]
      BY <1>1, <2>2, <2>4 DEF L
    <3> QED  BY <3>1, SuffixAgrees
  <2>7. h = [j \in m .. (L + 2) |-> Suffix(R, s, h, j)]
    BY <2>4, <2>5, <2>6
  <2> QED  BY <2>7 DEF IsExpansion, L, m
<1> HIDE DEF S
<1>4. Nat \subseteq S  BY <1>2, <1>3, NatSetInduction
<1>5. L + 1 \in S /\ L + 2 - (L + 1) = 1  BY <1>1, <1>4
<1> QED  BY <1>1, <1>5 DEF S

(* The expansions of the suffixes of s, as Expand has them. *)
Suffixes(R, s) == LET from[j \in 1 .. (Len(s) + 2)] == Suffix(R, s, from, j) IN from

(* It is the one that Expand uses. *)
LEMMA SuffixesFacts ==
    ASSUME NEW C, NEW s \in Seq(C), NEW R
    PROVE  /\ Expand(R, s) = Suffixes(R, s)[1]
           /\ \A j \in 1 .. (Len(s) + 2) :
                 Suffixes(R, s)[j] = Suffix(R, s, Suffixes(R, s), j)
<1> DEFINE f == CHOOSE f : IsExpansion(R, s, 1, f)
<1>1. IsExpansion(R, s, 1, f)  BY ExpansionExists
<1>2. Suffixes(R, s) = f  BY DEF Suffixes, IsExpansion
<1>3. Expand(R, s) = f[1]  BY DEF Expand, IsExpansion, Suffix
<1> HIDE DEF f
<1> QED  BY <1>1, <1>2, <1>3 DEF IsExpansion

(* What the scanner sees at an index, in terms of suffixes. *)
SeenAt(R, s, F, j) ==
    /\ IsEscape(s, j) => j + 1 =< Len(s) /\ F[j] = <<"$">> \o F[j + 2]
    /\ ~ IsEscape(s, j) /\ s[j] = "$" /\ FindValidKey(s, j) # {} =>
          F[j] = ValueOf(R, KeyAt(s, j)) \o F[KeyAt(s, j).End + 1]
    /\ ~ IsEscape(s, j) /\ ~ (s[j] = "$" /\ FindValidKey(s, j) # {}) =>
          F[j] = <<s[j]>> \o F[j + 1]

(* The suffix at each index, by what the scanner sees there. *)
LEMMA SuffixCases ==
    ASSUME NEW C, NEW s \in Seq(C), NEW R
    PROVE  /\ Suffixes(R, s)[Len(s) + 1] = << >> /\ Suffixes(R, s)[Len(s) + 2] = << >>
           /\ \A j \in 1 .. Len(s) : SeenAt(R, s, Suffixes(R, s), j)
<1> DEFINE F == Suffixes(R, s)
<1>1. Len(s) \in Nat  BY LenProperties
<1>2. \A k \in 1 .. (Len(s) + 2) : F[k] = Suffix(R, s, F, k)
  BY SuffixesFacts
<1> HIDE DEF F
<1>3. F[Len(s) + 1] = << >> /\ F[Len(s) + 2] = << >>
  <2>1. /\ Len(s) + 1 \in 1 .. (Len(s) + 2) /\ Len(s) + 2 \in 1 .. (Len(s) + 2)
        /\ Len(s) + 1 > Len(s) /\ Len(s) + 2 > Len(s)
    BY <1>1
  <2> QED  BY <1>2, <2>1 DEF Suffix
<1>4. ASSUME NEW j \in 1 .. Len(s) PROVE SeenAt(R, s, F, j)
  <2>1. j \in 1 .. (Len(s) + 2) /\ ~ (j > Len(s))  BY <1>1
  <2>2. F[j] = Suffix(R, s, F, j)  BY <1>2, <2>1
  <2>3. IsEscape(s, j) => j + 1 =< Len(s)  BY <1>1 DEF IsEscape
  <2> QED  BY <2>1, <2>2, <2>3 DEF SeenAt, Suffix
<1> QED  BY <1>3, <1>4 DEF F

(* Suffixes of texts are expanded to texts. *)
LEMMA SuffixesType ==
    ASSUME NEW C, "$" \in C, NEW s \in Seq(C),
           NEW R, \A k \in DOMAIN R : R[k] \in Seq(C),
           NEW j \in 1 .. (Len(s) + 2)
    PROVE  Suffixes(R, s)[j] \in Seq(C)
<1> DEFINE F == Suffixes(R, s)
           L == Len(s)
           P(k) == \A m \in 1 .. (L + 2) : m >= L + 2 - k => F[m] \in Seq(C)
           S == {k \in Nat : P(k)}
<1>0. F = Suffixes(R, s)  OBVIOUS
<1>1. L \in Nat /\ \A k \in 1 .. L : s[k] \in C  BY LenProperties, ElementOfSeq
<1>2. F[L + 1] = << >> /\ F[L + 2] = << >>  BY SuffixCases
<1> HIDE DEF F
<1>3. << >> \in Seq(C) /\ <<"$">> \in Seq(C) /\ \A c \in C : <<c>> \in Seq(C)
  OBVIOUS
<1>4. ASSUME NEW m \in 1 .. L, \A k \in (m + 1) .. (L + 2) : F[k] \in Seq(C)
      PROVE  F[m] \in Seq(C)
  <2>0. SeenAt(R, s, F, m)  BY <1>0, SuffixCases
  <2>1. CASE IsEscape(s, m)
    <3>1. F[m] = <<"$">> \o F[m + 2]  BY <2>0, <2>1 DEF SeenAt
    <3>2. F[m + 2] \in Seq(C)  BY <1>1, <1>4
    <3> QED  BY <1>3, <3>1, <3>2, ConcatProperties
  <2>2. CASE ~ IsEscape(s, m) /\ s[m] = "$" /\ FindValidKey(s, m) # {}
    <3>1. F[m] = ValueOf(R, KeyAt(s, m)) \o F[KeyAt(s, m).End + 1]  BY <2>0, <2>2 DEF SeenAt
    <3>2. KeyAt(s, m) \in Parameters(C) /\ KeyAt(s, m).End \in (m + 1) .. L
      BY <2>2, KeyAtFacts
    <3>3. ValueOf(R, KeyAt(s, m)) \in Seq(C)  BY <3>2, ValueType
    <3>4. F[KeyAt(s, m).End + 1] \in Seq(C)  BY <1>1, <1>4, <3>2
    <3> QED  BY <3>1, <3>3, <3>4, ConcatProperties
  <2>3. CASE ~ IsEscape(s, m) /\ ~ (s[m] = "$" /\ FindValidKey(s, m) # {})
    <3>1. F[m] = <<s[m]>> \o F[m + 1]  BY <2>0, <2>3 DEF SeenAt
    <3>2. F[m + 1] \in Seq(C)  BY <1>1, <1>4
    <3>3. <<s[m]>> \in Seq(C)  BY <1>1, <1>3, <1>4
    <3> QED  BY <3>1, <3>2, <3>3, ConcatProperties
  <2> QED  BY <2>1, <2>2, <2>3
<1> HIDE DEF L
<1>5. 0 \in S
  <2>1. \A m \in 1 .. (L + 2) : m >= L + 2 - 0 => m = L + 2  BY <1>1
  <2>2. P(0)  BY <1>2, <1>3, <2>1
  <2> QED  BY <2>2
<1>6. ASSUME NEW k \in Nat, k \in S PROVE k + 1 \in S
  <2> SUFFICES ASSUME NEW m \in 1 .. (L + 2), m >= L + 2 - (k + 1) PROVE F[m] \in Seq(C)
    OBVIOUS
  <2>1. CASE m > L
    <3>1. m = L + 1 \/ m = L + 2  BY <1>1, <2>1
    <3> QED  BY <1>2, <1>3, <3>1
  <2>2. CASE m =< L
    <3>1. m \in 1 .. L  BY <1>1, <2>2
    <3>2. \A x \in (m + 1) .. (L + 2) : x \in 1 .. (L + 2) /\ x >= L + 2 - k  BY <1>1
    <3>3. \A x \in (m + 1) .. (L + 2) : F[x] \in Seq(C)  BY <1>6, <3>2
    <3> QED  BY <1>4, <3>1, <3>3
  <2> QED  BY <1>1, <2>1, <2>2
<1>7. Nat \subseteq S
  <2> HIDE DEF S
  <2> QED  BY <1>5, <1>6, NatSetInduction
<1>8. P(L + 2)
  <2> HIDE DEF P
  <2>1. L + 2 \in S  BY <1>1, <1>7
  <2> QED  BY <2>1
<1>9. j >= L + 2 - (L + 2) /\ j \in 1 .. (L + 2)
  <2>1. L \in Nat /\ j \in 1 .. (L + 2)  BY <1>1 DEF L
  <2> QED  BY <2>1
<1> QED  BY <1>0, <1>8, <1>9

(* A text is expanded to a text. *)
LEMMA ExpandType ==
    ASSUME NEW C, "$" \in C, NEW s \in Seq(C),
           NEW R, \A k \in DOMAIN R : R[k] \in Seq(C)
    PROVE  Expand(R, s) \in Seq(C)
<1>1. 1 \in 1 .. (Len(s) + 2)  BY LenProperties
<1> QED  BY <1>1, SuffixesFacts, SuffixesType
-----------------------------------------------------------------------------
(* The keys that KeysIn finds in each suffix, as Suffix for Expand. *)
KeysFrom(s, f, j) ==
    IF j > Len(s) THEN {}
    ELSE IF IsEscape(s, j) THEN f[j + 2]
    ELSE IF s[j] = "$" /\ FindValidKey(s, j) # {}
         THEN {KeyAt(s, j).Key} \cup f[KeyAt(s, j).End + 1]
         ELSE f[j + 1]

(* The keys of a suffix depend on those of shorter ones. *)
LEMMA KeysAgree ==
    ASSUME NEW C, NEW s \in Seq(C), NEW f, NEW g, NEW j \in 1 .. (Len(s) + 2),
           \A k \in (j + 1) .. (Len(s) + 2) : f[k] = g[k]
    PROVE  KeysFrom(s, f, j) = KeysFrom(s, g, j)
<1>1. Len(s) \in Nat  BY LenProperties
<1>2. CASE j > Len(s)
  BY <1>2 DEF KeysFrom
<1>3. CASE j =< Len(s) /\ s[j] = "$" /\ ~ IsEscape(s, j) /\ FindValidKey(s, j) # {}
  <2>1. j \in 1 .. Len(s)  BY <1>1, <1>3
  <2>2. KeyAt(s, j).End \in (j + 1) .. Len(s)  BY <1>3, <2>1, KeyAtFacts
  <2>3. \A h : KeysFrom(s, h, j) = {KeyAt(s, j).Key} \cup h[KeyAt(s, j).End + 1]
    BY <1>1, <1>3, <2>1 DEF KeysFrom
  <2>4. f[KeyAt(s, j).End + 1] = g[KeyAt(s, j).End + 1]  BY <1>1, <2>2
  <2> QED  BY <2>3, <2>4
<1>4. CASE j =< Len(s) /\ IsEscape(s, j)
  <2>1. \A h : KeysFrom(s, h, j) = h[j + 2]  BY <1>1, <1>4 DEF KeysFrom
  <2>2. f[j + 2] = g[j + 2]  BY <1>1, <1>4
  <2> QED  BY <2>1, <2>2
<1>5. CASE j =< Len(s) /\ ~ IsEscape(s, j) /\ ~ (s[j] = "$" /\ FindValidKey(s, j) # {})
  <2>1. \A h : KeysFrom(s, h, j) = h[j + 1]  BY <1>1, <1>5 DEF KeysFrom
  <2>2. f[j + 1] = g[j + 1]  BY <1>1, <1>5
  <2> QED  BY <2>1, <2>2
<1> QED  BY <1>1, <1>2, <1>3, <1>4, <1>5

(* KeysIn's function of the suffixes from m on. *)
IsKeys(s, m, f) == f = [j \in m .. (Len(s) + 2) |-> KeysFrom(s, f, j)]

(* KeysIn's recursive function exists, from the last suffix backwards. *)
LEMMA KeysExist ==
    ASSUME NEW C, NEW s \in Seq(C)
    PROVE  \E f : IsKeys(s, 1, f)
<1> DEFINE L == Len(s)
           S == {k \in Nat : k =< L + 1 => \E f : IsKeys(s, L + 2 - k, f)}
<1>1. L \in Nat  BY LenProperties
<1> HIDE DEF L
<1>2. 0 \in S
  <2> DEFINE f == [j \in (L + 2) .. (L + 2) |-> {}]
  <2>1. \A j \in (L + 2) .. (L + 2) : KeysFrom(s, f, j) = {}
    BY <1>1 DEF KeysFrom, L
  <2>2. f = [j \in (L + 2) .. (L + 2) |-> KeysFrom(s, f, j)]
    BY <2>1
  <2>3. L + 2 - 0 = L + 2  BY <1>1
  <2> HIDE DEF f
  <2> QED  BY <2>2, <2>3 DEF IsKeys, L
<1>3. ASSUME NEW k \in Nat, k \in S PROVE k + 1 \in S
  <2> SUFFICES ASSUME k + 1 =< L + 1 PROVE \E f : IsKeys(s, L + 2 - (k + 1), f)
    OBVIOUS
  <2>1. PICK f : IsKeys(s, L + 2 - k, f)  BY <1>1, <1>3
  <2> DEFINE m == L + 2 - (k + 1)
             h == [j \in m .. (L + 2) |-> IF j = m THEN KeysFrom(s, f, m) ELSE f[j]]
  <2>2. m \in 1 .. (L + 1) /\ L + 2 - k = m + 1  BY <1>1
  <2> HIDE DEF m
  <2>3. \A j \in (m + 1) .. (L + 2) : f[j] = KeysFrom(s, f, j)
    <3>1. f = [j \in (m + 1) .. (L + 2) |-> KeysFrom(s, f, j)]
      BY <2>1, <2>2 DEF IsKeys, L
    <3> QED  BY <3>1
  <2>4. /\ \A j \in (m + 1) .. (L + 2) : h[j] = f[j]
        /\ \A j \in m .. (L + 2) : h[j] = KeysFrom(s, f, j)
    <3>1. \A j \in (m + 1) .. (L + 2) : j \in m .. (L + 2) /\ j # m  BY <1>1, <2>2
    <3>2. \A j \in m .. (L + 2) : j = m \/ j \in (m + 1) .. (L + 2)  BY <1>1, <2>2
    <3> QED  BY <2>3, <3>1, <3>2
  <2>5. DOMAIN h = m .. (L + 2) /\ h = [j \in DOMAIN h |-> h[j]]  OBVIOUS
  <2> HIDE DEF h
  <2>6. \A j \in m .. (L + 2) : KeysFrom(s, h, j) = KeysFrom(s, f, j)
    <3> TAKE j \in m .. (L + 2)
    <3>1. j \in 1 .. (Len(s) + 2) /\ \A i_ \in (j + 1) .. (Len(s) + 2) : h[i_] = f[i_]
      BY <1>1, <2>2, <2>4 DEF L
    <3> QED  BY <3>1, KeysAgree
  <2>7. h = [j \in m .. (L + 2) |-> KeysFrom(s, h, j)]
    BY <2>4, <2>5, <2>6
  <2> QED  BY <2>7 DEF IsKeys, L, m
<1> HIDE DEF S
<1>4. Nat \subseteq S  BY <1>2, <1>3, NatSetInduction
<1>5. L + 1 \in S /\ L + 2 - (L + 1) = 1  BY <1>1, <1>4
<1> QED  BY <1>1, <1>5 DEF S

(* The keys of the suffixes of s, as KeysIn has them. *)
SuffixKeys(s) == LET from[j \in 1 .. (Len(s) + 2)] == KeysFrom(s, from, j) IN from

(* It is the one that KeysIn uses. *)
LEMMA SuffixKeysFacts ==
    ASSUME NEW C, NEW s \in Seq(C)
    PROVE  /\ KeysIn(s) = SuffixKeys(s)[1]
           /\ \A j \in 1 .. (Len(s) + 2) :
                 SuffixKeys(s)[j] = KeysFrom(s, SuffixKeys(s), j)
<1> DEFINE f == CHOOSE f : IsKeys(s, 1, f)
<1>1. IsKeys(s, 1, f)  BY KeysExist
<1>2. SuffixKeys(s) = f  BY DEF SuffixKeys, IsKeys
<1>3. KeysIn(s) = f[1]  BY DEF KeysIn, IsKeys, KeysFrom
<1> HIDE DEF f
<1> QED  BY <1>1, <1>2, <1>3 DEF IsKeys

(* Induction over the suffixes of a text, from the last one backwards. *)
LEMMA SuffixInduction ==
    ASSUME NEW L \in Nat, NEW T, L + 1 \in T, L + 2 \in T,
           \A m \in 1 .. L : (\A k \in (m + 1) .. (L + 2) : k \in T) => m \in T
    PROVE  \A j \in 1 .. (L + 2) : j \in T
<1> DEFINE U == (1 .. (L + 2)) \ T
<1> SUFFICES ASSUME U # {} PROVE FALSE
  OBVIOUS
<1>1. PICK m \in U : \A e \in U : e =< m
  <2>1. U \in SUBSET (1 .. (L + 2)) /\ 1 \in Int /\ L + 2 \in Int  OBVIOUS
  <2> HIDE DEF U
  <2>2. Max(U) \in U /\ \A e \in U : e =< Max(U)  BY <2>1, GreatestInteger
  <2> QED  BY <2>2
<1>2. m \in 1 .. L  BY <1>1
<1>3. \A k \in (m + 1) .. (L + 2) : k \in T
  <2> TAKE k \in (m + 1) .. (L + 2)
  <2>1. k \in 1 .. (L + 2) /\ ~ (k =< m)  BY <1>2
  <2> QED  BY <1>1, <2>1
<1> QED  BY <1>1, <1>2, <1>3

(* Where the scanner goes on after index j. *)
After(s, j) ==
    IF IsEscape(s, j) THEN j + 2
    ELSE IF s[j] = "$" /\ FindValidKey(s, j) # {} THEN KeyAt(s, j).End + 1
    ELSE j + 1

(* The key at j, if there is one. *)
KeyHere(s, j) ==
    IF ~ IsEscape(s, j) /\ s[j] = "$" /\ FindValidKey(s, j) # {} THEN {KeyAt(s, j).Key} ELSE {}

(* The keys of a suffix are the one where it starts and those of the rest. *)
LEMMA SuffixKeysCases ==
    ASSUME NEW C, NEW s \in Seq(C)
    PROVE  /\ SuffixKeys(s)[Len(s) + 1] = {} /\ SuffixKeys(s)[Len(s) + 2] = {}
           /\ \A j \in 1 .. Len(s) :
                 /\ After(s, j) \in (j + 1) .. (Len(s) + 2)
                 /\ SuffixKeys(s)[j] = KeyHere(s, j) \cup SuffixKeys(s)[After(s, j)]
<1> DEFINE K == SuffixKeys(s)
<1>1. Len(s) \in Nat  BY LenProperties
<1>2. \A k \in 1 .. (Len(s) + 2) : K[k] = KeysFrom(s, K, k)
  BY SuffixKeysFacts
<1> HIDE DEF K
<1>3. K[Len(s) + 1] = {} /\ K[Len(s) + 2] = {}
  <2>1. /\ Len(s) + 1 \in 1 .. (Len(s) + 2) /\ Len(s) + 2 \in 1 .. (Len(s) + 2)
        /\ Len(s) + 1 > Len(s) /\ Len(s) + 2 > Len(s)
    BY <1>1
  <2> QED  BY <1>2, <2>1 DEF KeysFrom
<1>4. ASSUME NEW j \in 1 .. Len(s)
      PROVE  After(s, j) \in (j + 1) .. (Len(s) + 2) /\ K[j] = KeyHere(s, j) \cup K[After(s, j)]
  <2>1. j \in 1 .. (Len(s) + 2) /\ ~ (j > Len(s))  BY <1>1
  <2>2. K[j] = KeysFrom(s, K, j)  BY <1>2, <2>1
  <2>3. K[j] = KeyHere(s, j) \cup K[After(s, j)]
    BY <2>1, <2>2 DEF KeysFrom, KeyHere, After
  <2>4. CASE s[j] = "$" /\ FindValidKey(s, j) # {}
    <3>1. KeyAt(s, j).End \in (j + 1) .. Len(s)  BY <2>4, KeyAtFacts
    <3> QED  BY <1>1, <2>3, <3>1 DEF After, IsEscape
  <2>5. CASE ~ (s[j] = "$" /\ FindValidKey(s, j) # {})
    BY <1>1, <2>3, <2>5 DEF After, IsEscape
  <2> QED  BY <2>4, <2>5
<1> QED  BY <1>3, <1>4 DEF K

(* R and Q have the same value for k, or none. *)
SameValue(R, Q, k) == (k \in DOMAIN R <=> k \in DOMAIN Q) /\ (k \in DOMAIN R => R[k] = Q[k])

(***************************************************************************)
(* CheckSubstitutionTemplate asks FindTemplateParameters for the keys of a *)
(* text and nothing else: that is enough, since what SubstituteBuildFields *)
(* makes of any text depends on the values of those keys only.             *)
(***************************************************************************)
THEOREM FoundKeysMatter ==
    ASSUME NEW C, NEW s \in Seq(C), NEW R, NEW Q,
           \A k \in KeysIn(s) : SameValue(R, Q, k)
    PROVE  Expand(R, s) = Expand(Q, s)
<1> DEFINE L == Len(s)
           F == Suffixes(R, s)
           G == Suffixes(Q, s)
           K == SuffixKeys(s)
           T == {j \in 1 .. (L + 2) : (\A k \in K[j] : SameValue(R, Q, k)) => F[j] = G[j]}
<1>1. L \in Nat  BY LenProperties
<1>2. L + 1 \in T /\ L + 2 \in T
  <2>1. F[L + 1] = << >> /\ F[L + 2] = << >> /\ G[L + 1] = << >> /\ G[L + 2] = << >>
    BY SuffixCases
  <2> HIDE DEF F, G, K, L
  <2> QED  BY <1>1, <2>1
<1>3. ASSUME NEW m \in 1 .. L, \A k \in (m + 1) .. (L + 2) : k \in T
      PROVE  m \in T
  <2>1. SeenAt(R, s, F, m) /\ SeenAt(Q, s, G, m)  BY SuffixCases
  <2>2. /\ After(s, m) \in (m + 1) .. (L + 2)
        /\ K[m] = KeyHere(s, m) \cup K[After(s, m)]
    BY SuffixKeysCases
  <2> HIDE DEF F, G, K
  <2> SUFFICES ASSUME \A k \in K[m] : SameValue(R, Q, k) PROVE F[m] = G[m]
    BY <1>1
  <2>3. F[After(s, m)] = G[After(s, m)]  BY <1>3, <2>2
  <2>4. CASE IsEscape(s, m)
    BY <2>1, <2>3, <2>4 DEF SeenAt, After
  <2>5. CASE ~ IsEscape(s, m) /\ s[m] = "$" /\ FindValidKey(s, m) # {}
    <3>1. After(s, m) = KeyAt(s, m).End + 1 /\ KeyAt(s, m).Key \in K[m]
      BY <2>2, <2>5 DEF After, KeyHere
    <3>2. SameValue(R, Q, KeyAt(s, m).Key)  BY <3>1
    <3>3. ~ KeyAt(s, m).Escape  BY <2>5, KeyAtFacts
    <3>4. ValueOf(R, KeyAt(s, m)) = ValueOf(Q, KeyAt(s, m))
      BY <3>2, <3>3 DEF SameValue, ValueOf
    <3>5. /\ F[m] = ValueOf(R, KeyAt(s, m)) \o F[KeyAt(s, m).End + 1]
          /\ G[m] = ValueOf(Q, KeyAt(s, m)) \o G[KeyAt(s, m).End + 1]
      BY <2>1, <2>5 DEF SeenAt
    <3> QED  BY <2>3, <3>1, <3>4, <3>5
  <2>6. CASE ~ IsEscape(s, m) /\ ~ (s[m] = "$" /\ FindValidKey(s, m) # {})
    BY <2>1, <2>3, <2>6 DEF SeenAt, After
  <2> QED  BY <2>4, <2>5, <2>6
<1>4. 1 \in T
  <2>1. 1 \in 1 .. (L + 2)  BY <1>1
  <2> HIDE DEF L, T
  <2> QED  BY <1>1, <1>2, <1>3, <2>1, SuffixInduction
<1>5. (\A k \in K[1] : SameValue(R, Q, k)) => F[1] = G[1]
  <2> HIDE DEF F, G, K
  <2> QED  BY <1>4
<1> QED  BY <1>5, SuffixesFacts, SuffixKeysFacts

(* A text without dollars stands for itself. *)
LEMMA NoDollarNoChange ==
    ASSUME NEW C, NEW s \in Seq(C), NEW R, \A j \in 1 .. Len(s) : s[j] # "$"
    PROVE  Expand(R, s) = s
<1> DEFINE L == Len(s)
           F == Suffixes(R, s)
           T == {j \in 1 .. (L + 2) : F[j] = SubSeq(s, j, L)}
<1>1. L \in Nat  BY LenProperties
<1>2. L + 1 \in T /\ L + 2 \in T
  <2>1. F[L + 1] = << >> /\ F[L + 2] = << >>  BY SuffixCases
  <2>2. SubSeq(s, L + 1, L) = << >> /\ SubSeq(s, L + 2, L) = << >>
    <3> HIDE DEF L
    <3> QED  BY <1>1, SubSeqEmpty
  <2>3. /\ L + 1 \in 1 .. (L + 2) /\ F[L + 1] = SubSeq(s, L + 1, L)
        /\ L + 2 \in 1 .. (L + 2) /\ F[L + 2] = SubSeq(s, L + 2, L)
    <3> HIDE DEF F, L
    <3> QED  BY <1>1, <2>1, <2>2
  <2> QED  BY <2>3
<1>3. ASSUME NEW m \in 1 .. L, \A k \in (m + 1) .. (L + 2) : k \in T
      PROVE  m \in T
  <2>1. SeenAt(R, s, F, m)  BY SuffixCases
  <2>2. F[m] = <<s[m]>> \o F[m + 1]
    BY <2>1 DEF SeenAt, IsEscape
  <2>3. F[m + 1] = SubSeq(s, m + 1, L)
    <3> HIDE DEF F
    <3> QED  BY <1>1, <1>3
  <2>4. SubSeq(s, m, L) = <<s[m]>> \o SubSeq(s, m + 1, L)
    <3>1. m \in 1 .. Len(s) /\ L \in m .. Len(s)  BY <1>1
    <3> HIDE DEF L
    <3> QED  BY <3>1, SubSeqRecursiveFirst
  <2>5. F[m] = SubSeq(s, m, L)  BY <2>2, <2>3, <2>4
  <2>6. m \in 1 .. (L + 2)  BY <1>1
  <2> QED  BY <2>5, <2>6
<1>4. 1 \in T
  <2>1. 1 \in 1 .. (L + 2)  BY <1>1
  <2> HIDE DEF L, T
  <2> QED  BY <1>1, <1>2, <1>3, <2>1, SuffixInduction
<1>5. F[1] = SubSeq(s, 1, L)
  <2> HIDE DEF F
  <2> QED  BY <1>4
<1> QED  BY <1>5, SuffixesFacts, SubSeqFull

(* A character that is no part of a key or of its braces, such as a slash. *)
Plainest(c) == c \notin KeyChar \cup {"$", "{", "}"}

(* At the end of a text it leaves the keys in it where they were ... *)
LEMMA SameKeyEnd ==
    ASSUME NEW C, NEW s \in Seq(C), NEW c \in C, Plainest(c), NEW j \in 1 .. (Len(s) + 1)
    PROVE  KeyEnd(Append(s, c), j) = KeyEnd(s, j)
<1> DEFINE t == Append(s, c)
           L == Len(s)
           U(u, l) == {e \in (j - 1) .. l : /\ e >= j => u[j] \in KeyStart
                                           /\ \A k \in j .. e : u[k] \in KeyChar}
<1>1. L \in Nat /\ Len(t) = L + 1 /\ t[L + 1] = c /\ \A k \in 1 .. L : t[k] = s[k]
  BY LenProperties, AppendProperties
<1>2. KeyEnd(t, j) = Max(U(t, L + 1)) /\ KeyEnd(s, j) = Max(U(s, L))
  BY <1>1 DEF KeyEnd
<1> HIDE DEF t, L
<1>3. j \in 1 .. (L + 1)  BY DEF L
<1>4. U(t, L + 1) \subseteq (j - 1) .. L
  <2> SUFFICES ASSUME NEW e \in U(t, L + 1), e = L + 1 PROVE FALSE
    BY <1>1, <1>3
  <2>1. L + 1 \in j .. e  BY <1>1, <1>3
  <2>2. t[L + 1] \in KeyChar  BY <2>1
  <2> QED  BY <1>1, <2>2 DEF Plainest
<1>5. \A e \in (j - 1) .. L : e \in U(t, L + 1) <=> e \in U(s, L)
  <2> TAKE e \in (j - 1) .. L
  <2>1. e \in (j - 1) .. (L + 1) /\ \A k \in j .. e : k \in 1 .. L  BY <1>1, <1>3
  <2>2. \A k \in j .. e : t[k] = s[k]  BY <1>1, <2>1
  <2>3. e >= j => t[j] = s[j]  BY <1>1, <1>3, <2>2
  <2> QED  BY <2>1, <2>2, <2>3
<1>6. U(s, L) \subseteq (j - 1) .. L  OBVIOUS
<1> HIDE DEF U
<1>7. U(t, L + 1) = U(s, L)  BY <1>4, <1>5, <1>6
<1> QED  BY <1>2, <1>7 DEF t, L

(* t is s, of length L, and the character c. *)
Longer(t, s, c, L) ==
    /\ L \in Nat /\ Len(s) = L /\ Len(t) = L + 1 /\ t[L + 1] = c
    /\ \A k \in 1 .. L : t[k] = s[k]

(* ... so that they are escaped and braced as before ... *)
LEMMA SameEscape ==
    ASSUME NEW s, NEW t, NEW c, Plainest(c), NEW L, Longer(t, s, c, L), NEW j \in 1 .. L
    PROVE  (IsEscape(t, j) <=> IsEscape(s, j)) /\ t[j] = s[j]
<1>1. /\ L \in Nat /\ Len(s) = L /\ Len(t) = L + 1 /\ t[L + 1] = c
      /\ \A k \in 1 .. L : t[k] = s[k]
  BY DEF Longer
<1>2. c # "$"  BY DEF Plainest
<1>3. CASE j = L
  <2>1. ~ IsEscape(t, j)  BY <1>1, <1>2, <1>3 DEF IsEscape
  <2>2. ~ IsEscape(s, j)  BY <1>1, <1>3 DEF IsEscape
  <2> QED  BY <1>1, <2>1, <2>2
<1>4. CASE j < L
  <2>1. j + 1 \in 1 .. L  BY <1>1, <1>4
  <2> QED  BY <1>1, <1>4, <2>1 DEF IsEscape
<1> QED  BY <1>1, <1>3, <1>4

IsBraced(s, j, e) == j < Len(s) /\ s[j + 1] = "{" /\ e >= j + 2 /\ e < Len(s) /\ s[e + 1] = "}"

(* ... and findValidKeyFromIndex finds the same ones. *)
LEMMA SameKeys ==
    ASSUME NEW C, NEW s \in Seq(C), NEW t \in Seq(C), NEW c, Plainest(c),
           NEW L, Longer(t, s, c, L), NEW j \in 1 .. L,
           \A k \in 1 .. (L + 1) : KeyEnd(t, k) = KeyEnd(s, k)
    PROVE  FindValidKey(t, j) = FindValidKey(s, j)
<1>1. /\ L \in Nat /\ Len(s) = L /\ Len(t) = L + 1 /\ t[L + 1] = c
      /\ \A k \in 1 .. L : t[k] = s[k]
  BY DEF Longer
<1>2. c # "{" /\ c # "}"  BY DEF Plainest
<1> DEFINE one(u, e) == Parameter(j, e + 1, SubSeq(u, j + 2, e), FALSE)
           two(u, e) == Parameter(j, e, SubSeq(u, j + 1, e), FALSE)
<1>3. \A u : FindValidKey(u, j) =
                IF IsBraced(u, j, KeyEnd(u, j + 2)) THEN {one(u, KeyEnd(u, j + 2))}
                ELSE IF j < Len(u) /\ KeyEnd(u, j + 1) > j THEN {two(u, KeyEnd(u, j + 1))} ELSE {}
  BY DEF FindValidKey, IsBraced
<1>4. KeyEnd(t, j + 1) = KeyEnd(s, j + 1) /\ KeyEnd(s, j + 1) \in j .. L
  <2>1. j + 1 \in 1 .. (L + 1) /\ j + 1 - 1 = j  BY <1>1
  <2> QED  BY <1>1, <2>1, KeyEndBounds
<1>5. \A e \in Int : e =< L => one(t, e) = one(s, e) /\ two(t, e) = two(s, e)
  <2> TAKE e \in Int
  <2> SUFFICES ASSUME e =< L
               PROVE  /\ SubSeq(t, j + 2, e) = SubSeq(s, j + 2, e)
                      /\ SubSeq(t, j + 1, e) = SubSeq(s, j + 1, e)
    OBVIOUS
  <2>1. \A k \in 1 .. e : t[k] = s[k]  BY <1>1
  <2> HIDE DEF one, two
  <2>2. ASSUME NEW a \in 1 .. (L + 2) PROVE SubSeq(t, a, e) = SubSeq(s, a, e)
    <3>1. \A k \in a .. e : t[k] = s[k]  BY <1>1, <2>1
    <3> QED  BY <1>1, <3>1
  <2> QED  BY <1>1, <2>2
<1> HIDE DEF one, two
<1>6. CASE j = L
  <2>1. FindValidKey(s, j) = {}
    <3>1. ~ (j < Len(s))  BY <1>1, <1>6
    <3>2. ~ IsBraced(s, j, KeyEnd(s, j + 2))  BY <3>1, Zenon DEF IsBraced
    <3> QED  BY <1>3, <3>1, <3>2
  <2>2. ~ IsBraced(t, j, KeyEnd(t, j + 2))
    BY <1>1, <1>2, <1>6 DEF IsBraced
  <2>3. ~ (KeyEnd(t, j + 1) > j)  BY <1>1, <1>4, <1>6
  <2> QED  BY <1>3, <2>1, <2>2, <2>3
<1>7. CASE j < L
  <2>1. KeyEnd(t, j + 2) = KeyEnd(s, j + 2) /\ KeyEnd(s, j + 2) \in (j + 1) .. L
    <3>1. j + 2 \in 1 .. (L + 1) /\ j + 2 - 1 = j + 1  BY <1>1, <1>7
    <3> QED  BY <1>1, <3>1, KeyEndBounds
  <2>2. ASSUME NEW e \in (j + 1) .. L
        PROVE  IsBraced(t, j, e) <=> IsBraced(s, j, e)
    <3>1. t[j + 1] = s[j + 1] /\ j < Len(t) /\ j < Len(s)  BY <1>1, <1>7
    <3>2. CASE e = L
      <4>1. t[e + 1] = c  BY <1>1, <3>2
      <4>2. ~ (e < Len(s))  BY <1>1, <3>2
      <4>3. ~ IsBraced(t, j, e)  BY <1>2, <4>1, Zenon DEF IsBraced
      <4>4. ~ IsBraced(s, j, e)  BY <4>2, Zenon DEF IsBraced
      <4> QED  BY <4>3, <4>4
    <3>3. CASE e < L
      <4>1. e + 1 \in 1 .. L  BY <1>1, <3>3
      <4>2. t[e + 1] = s[e + 1] /\ e < Len(t) /\ e < Len(s)  BY <1>1, <3>3, <4>1
      <4> QED  BY <3>1, <4>2 DEF IsBraced
    <3> QED  BY <1>1, <3>2, <3>3
  <2>3. IsBraced(t, j, KeyEnd(t, j + 2)) <=> IsBraced(s, j, KeyEnd(s, j + 2))
    BY <2>1, <2>2
  <2>4. /\ one(t, KeyEnd(t, j + 2)) = one(s, KeyEnd(s, j + 2))
        /\ two(t, KeyEnd(t, j + 1)) = two(s, KeyEnd(s, j + 1))
    BY <1>1, <1>4, <1>5, <2>1
  <2>5. j < Len(t) /\ j < Len(s)  BY <1>1, <1>7
  <2> QED  BY <1>3, <1>4, <2>3, <2>4, <2>5
<1> QED  BY <1>1, <1>6, <1>7

(***************************************************************************)
(* The slash that CheckArtifacts adds to the location changes none of the  *)
(* keys that CheckSubstitutionTemplate finds in it.                        *)
(***************************************************************************)
LEMMA SlashIsNoKey ==
    ASSUME NEW C, NEW s \in Seq(C), NEW c \in C, Plainest(c)
    PROVE  KeysIn(Append(s, c)) = KeysIn(s)
<1>1. \E t \in Seq(C) : \E L : t = Append(s, c) /\ Longer(t, s, c, L)
  <2> DEFINE r == Append(s, c)
  <2>1. /\ Len(s) \in Nat /\ r \in Seq(C) /\ Len(r) = Len(s) + 1 /\ r[Len(s) + 1] = c
        /\ \A k \in 1 .. Len(s) : r[k] = s[k]
    BY LenProperties, AppendProperties
  <2> HIDE DEF r
  <2>2. Longer(r, s, c, Len(s))  BY <2>1 DEF Longer
  <2> QED  BY <2>1, <2>2 DEF r
<1>2. PICK t \in Seq(C) : \E L : t = Append(s, c) /\ Longer(t, s, c, L)  BY <1>1
<1>3. PICK L : t = Append(s, c) /\ Longer(t, s, c, L)  BY <1>2
<1>4. L \in Nat /\ Len(s) = L /\ Len(t) = L + 1 /\ t[L + 1] = c  BY <1>3 DEF Longer
<1>5. \A k \in 1 .. (L + 1) : KeyEnd(t, k) = KeyEnd(s, k)
  BY <1>3, <1>4, SameKeyEnd
<1> DEFINE K == SuffixKeys(s)
           J == SuffixKeys(t)
           T == {j \in 1 .. (L + 2) : J[j] = K[j]}
<1>6. /\ K[L + 1] = {} /\ K[L + 2] = {}
      /\ \A j \in 1 .. L : /\ After(s, j) \in (j + 1) .. (L + 2)
                            /\ K[j] = KeyHere(s, j) \cup K[After(s, j)]
  BY <1>4, SuffixKeysCases
<1>7. /\ J[L + 2] = {}
      /\ \A j \in 1 .. (L + 1) : J[j] = KeyHere(t, j) \cup J[After(t, j)]
  <2>1. L + 2 = Len(t) + 1  BY <1>4
  <2> QED  BY <1>4, <2>1, SuffixKeysCases
<1> HIDE DEF K, J
<1>8. L + 1 \in T /\ L + 2 \in T
  <2>1. t[L + 1] # "$"  BY <1>4 DEF Plainest
  <2>2. KeyHere(t, L + 1) = {} /\ After(t, L + 1) = L + 1 + 1
    BY <2>1 DEF KeyHere, After, IsEscape
  <2>3. L + 1 + 1 = L + 2 /\ L + 1 \in 1 .. (L + 1)  BY <1>4
  <2>4. J[L + 1] = {}  BY <1>7, <2>2, <2>3
  <2>5. J[L + 1] = K[L + 1] /\ J[L + 2] = K[L + 2]  BY <1>6, <1>7, <2>4
  <2>6. L + 1 \in 1 .. (L + 2) /\ L + 2 \in 1 .. (L + 2)  BY <1>4
  <2> QED  BY <2>5, <2>6
<1>9. ASSUME NEW m \in 1 .. L, \A k \in (m + 1) .. (L + 2) : k \in T
      PROVE  m \in T
  <2>1. FindValidKey(t, m) = FindValidKey(s, m)
    <3>1. Longer(t, s, c, L)  BY <1>3
    <3> HIDE DEF T
    <3> QED  BY <1>5, <3>1, SameKeys
  <2>2. (IsEscape(t, m) <=> IsEscape(s, m)) /\ t[m] = s[m]
    BY <1>3, SameEscape
  <2>3. After(t, m) = After(s, m) /\ KeyHere(t, m) = KeyHere(s, m)
    BY <2>1, <2>2 DEF After, KeyHere, KeyAt
  <2>4. J[After(s, m)] = K[After(s, m)]  BY <1>6, <1>9
  <2>5. m \in 1 .. (L + 1) /\ m \in 1 .. (L + 2)  BY <1>4
  <2>6. J[m] = K[m]
    <3>1. J[m] = KeyHere(s, m) \cup J[After(s, m)]  BY <1>7, <2>3, <2>5
    <3>2. K[m] = KeyHere(s, m) \cup K[After(s, m)]  BY <1>6
    <3> QED  BY <2>4, <3>1, <3>2
  <2> QED  BY <2>5, <2>6
<1>10. 1 \in T
  <2>1. 1 \in 1 .. (L + 2)  BY <1>4
  <2> HIDE DEF T
  <2> QED  BY <1>4, <1>8, <1>9, <2>1, SuffixInduction
<1>11. J[1] = K[1]  BY <1>10
<1> QED  BY <1>3, <1>11, SuffixKeysFacts DEF J, K

(* Characters that stand for themselves are copied together. *)
PlainAt(f, s, j) == f[j] = <<s[j]>> \o f[j + 1]
Plain(f, s, a, e) == \A j \in a .. e : PlainAt(f, s, j)
AllTexts(f, s, C) == \A j \in 1 .. (Len(s) + 2) : f[j] \in Seq(C)

Joins(u, x, v) == u = x \o v

(* A text moves from the rest to what is out. *)
LEMMA Regrouped ==
    ASSUME NEW C, NEW x \in Seq(C), NEW g \in Seq(C), NEW w \in Seq(C), NEW u, NEW v, NEW y,
           Joins(u, x, v), Joins(v, g, w), Joins(y, x, g)
    PROVE  Joins(u, y, w) /\ y \in Seq(C) /\ v \in Seq(C)
<1>1. (x \o g) \o w = x \o (g \o w) /\ x \o g \in Seq(C) /\ g \o w \in Seq(C)
  BY Reassociated, ConcatProperties
<1> QED  BY <1>1 DEF Joins

(* Two of them. *)
LEMMA RegroupedTwice ==
    ASSUME NEW C, NEW x \in Seq(C), NEW g \in Seq(C), NEW v \in Seq(C), NEW w \in Seq(C),
           NEW u, NEW t1, NEW t2, NEW q, NEW y,
           Joins(u, x, t1), Joins(t1, g, t2), Joins(t2, v, w), Joins(q, x, g), Joins(y, q, v)
    PROVE  Joins(u, y, w) /\ y \in Seq(C)
<1>1. t2 \in Seq(C)  BY ConcatProperties DEF Joins
<1>2. Joins(u, q, t2) /\ q \in Seq(C)  BY <1>1, Regrouped
<1> QED  BY <1>2, Regrouped

(* By induction on the number of characters. *)
LEMMA PlainStretch ==
    ASSUME NEW C, NEW s \in Seq(C), NEW f, AllTexts(f, s, C),
           NEW a \in 1 .. (Len(s) + 1), NEW e \in (a - 1) .. Len(s),
           Plain(f, s, a, e)
    PROVE  f[a] = SubSeq(s, a, e) \o f[e + 1]
<1> DEFINE L == Len(s)
           P(k) == f[a] = SubSeq(s, a, a + k - 1) \o f[a + k]
           S == {k \in Nat : k =< e - a + 1 => P(k)}
<1>1. L \in Nat /\ \A k \in 1 .. L : s[k] \in C  BY LenProperties, ElementOfSeq
<1>2. 0 \in S
  <2>1. SubSeq(s, a, a - 1) = << >>  BY SubSeqEmpty
  <2>2. f[a] = << >> \o f[a]
    <3>1. f[a] \in Seq(C)  BY <1>1 DEF AllTexts
    <3> QED  BY <3>1, ConcatEmptySeq
  <2>3. a + 0 = a /\ a + 0 - 1 = a - 1  OBVIOUS
  <2>4. P(0)  BY <2>1, <2>2, <2>3
  <2> HIDE DEF P
  <2> QED  BY <2>4
<1>3. ASSUME NEW k \in Nat, k \in S PROVE k + 1 \in S
  <2> SUFFICES ASSUME k + 1 =< e - a + 1 PROVE P(k + 1)
    <3> HIDE DEF P
    <3> QED  OBVIOUS
  <2>0. P(k)
    <3>1. k =< e - a + 1  OBVIOUS
    <3> HIDE DEF P
    <3> QED  BY <1>3, <3>1
  <2> DEFINE m == a + k
  <2>1. /\ m \in a .. e /\ m \in 1 .. L /\ a \in 1 .. L /\ m \in a .. L
        /\ a + (k + 1) - 1 = m /\ a + (k + 1) = m + 1 /\ a + k - 1 = m - 1
        /\ m + 1 \in 1 .. (L + 2)
    BY <1>1
  <2>2. f[a] = SubSeq(s, a, m - 1) \o f[m]  BY <2>0, <2>1
  <2> HIDE DEF m
  <2>3. f[m] = <<s[m]>> \o f[m + 1]  BY <2>1 DEF Plain, PlainAt
  <2>4. SubSeq(s, a, m) = SubSeq(s, a, m - 1) \o <<s[m]>>
    BY <2>1, SubSeqRecursiveSecond
  <2>5. SubSeq(s, a, m - 1) \in Seq(C)
    <3>1. a \in Int /\ m - 1 \in Int /\ \A x \in a .. (m - 1) : s[x] \in C
      BY <1>1, <2>1
    <3> QED  BY <3>1, SubSeqProperties
  <2>6. <<s[m]>> \in Seq(C) /\ f[m + 1] \in Seq(C)
    <3>1. s[m] \in C  BY <1>1, <2>1
    <3> QED  BY <2>1, <3>1 DEF AllTexts
  <2>7. f[a] = SubSeq(s, a, m) \o f[m + 1]
    <3> DEFINE x == SubSeq(s, a, m - 1)
               c == <<s[m]>>
               w == f[m + 1]
               v == f[m]
               u == f[a]
               y == SubSeq(s, a, m)
    <3>1. x \in Seq(C) /\ c \in Seq(C) /\ w \in Seq(C)  BY <2>5, <2>6
    <3>2. Joins(u, x, v) /\ Joins(v, c, w) /\ Joins(y, x, c)
      BY <2>2, <2>3, <2>4 DEF Joins
    <3> HIDE DEF x, c, w, v, u, y
    <3>3. Joins(u, y, w)  BY <3>1, <3>2, Regrouped
    <3> QED  BY <3>3 DEF Joins, u, y, w
  <2> QED  BY <2>1, <2>7
<1>4. Nat \subseteq S
  <2> HIDE DEF S
  <2> QED  BY <1>2, <1>3, NatSetInduction
<1>5. e - a + 1 \in Nat /\ a + (e - a + 1) = e + 1 /\ a + (e - a + 1) - 1 = e  BY <1>1
<1>6. P(e - a + 1)
  <2> HIDE DEF P
  <2> QED  BY <1>4, <1>5
<1> QED  BY <1>5, <1>6
-----------------------------------------------------------------------------
F == Suffixes(Replacements, input)

(* Where the parameter before the m-th ends. *)
PrevEnd(ps, m) == IF m = 1 THEN 0 ELSE ps[m - 1].End

(* What FindTemplateParameters knows of a parameter: up to it characters   *)
(* stand for themselves, and its value goes before the rest.               *)
Known(f, s, ps, m) ==
    /\ ps[m].Start \in (PrevEnd(ps, m) + 1) .. Len(s)
    /\ ps[m].End \in ps[m].Start .. Len(s)
    /\ Plain(f, s, PrevEnd(ps, m) + 1, ps[m].Start - 1)
    /\ f[ps[m].Start] = ValueOf(Replacements, ps[m]) \o f[ps[m].End + 1]

AllKnown(f, s, ps, k) ==
    /\ ps \in Seq(Parameters(Chars))
    /\ \A m \in 1 .. Len(ps) : Known(f, s, ps, m)
    /\ PrevEnd(ps, Len(ps) + 1) \in 0 .. (k - 1)
    /\ Plain(f, s, PrevEnd(ps, Len(ps) + 1) + 1, k - 1)

(***************************************************************************)
(* The inductive invariant.  While FindTemplateParameters scans, what it   *)
(* has found accounts for the expansion up to i; while applyReplacements   *)
(* writes, out followed by the expansion of the rest is the expansion of   *)
(* the text.                                                               *)
(***************************************************************************)
LoopsInv ==
    /\ input \in Texts
    /\ loop \in {"find", "apply", "done"}
    /\ i \in 1 .. (Len(input) + 1)
    /\ AllKnown(F, input, parameters, i)
    /\ loop = "find" => n = 1 /\ out = << >> /\ lastEnd = 0
    /\ loop = "apply" => /\ i = Len(input) + 1
                       /\ n \in 1 .. (Len(parameters) + 1)
                       /\ lastEnd = PrevEnd(parameters, n)
                       /\ out \in Seq(Chars)
                       /\ F[1] = out \o F[lastEnd + 1]
    /\ loop = "done" => out = F[1]

(* A parameter found at k, after which the scan goes on. *)
LEMMA AddParameter ==
    ASSUME NEW f, NEW s, NEW ps, NEW k \in Nat, Len(s) \in Nat, AllKnown(f, s, ps, k),
           NEW p \in Parameters(Chars), p.Start = k, p.End \in k .. Len(s),
           f[k] = ValueOf(Replacements, p) \o f[p.End + 1]
    PROVE  AllKnown(f, s, Append(ps, p), p.End + 1)
<1> DEFINE qs == Append(ps, p)
           N == Len(ps)
<1>1. ps \in Seq(Parameters(Chars)) /\ N \in Nat
  BY LenProperties DEF AllKnown
<1>2. /\ qs \in Seq(Parameters(Chars)) /\ Len(qs) = N + 1
      /\ \A m \in 1 .. N : qs[m] = ps[m]
      /\ qs[N + 1] = p
  <2> HIDE DEF N
  <2> QED  BY <1>1, AppendProperties DEF N
<1> HIDE DEF qs
<1>3. \A m \in 1 .. (N + 1) : PrevEnd(qs, m) = PrevEnd(ps, m)
  <2>1. \A m \in 1 .. (N + 1) : m = 1 \/ m - 1 \in 1 .. N  BY <1>1
  <2> QED  BY <1>2, <2>1 DEF PrevEnd
<1>4. PrevEnd(qs, N + 2) = p.End
  BY <1>1, <1>2 DEF PrevEnd
<1> HIDE DEF N
<1>5. ASSUME NEW m \in 1 .. (N + 1) PROVE Known(f, s, qs, m)
  <2>1. CASE m \in 1 .. N
    <3>1. Known(f, s, ps, m)  BY <2>1 DEF AllKnown, N
    <3> QED  BY <1>2, <1>3, <1>5, <2>1, <3>1 DEF Known
  <2>2. CASE m = N + 1
    <3>1. PrevEnd(ps, N + 1) \in 0 .. (k - 1) /\ Plain(f, s, PrevEnd(ps, N + 1) + 1, k - 1)
      BY DEF AllKnown, N
    <3>2. qs[m] = p /\ PrevEnd(qs, m) = PrevEnd(ps, N + 1)
      BY <1>2, <1>3, <1>5, <2>2
    <3>3. k \in (PrevEnd(ps, N + 1) + 1) .. Len(s)
      BY <3>1
    <3> QED  BY <3>1, <3>2, <3>3 DEF Known
  <2> QED  BY <1>1, <2>1, <2>2
<1>6. Plain(f, s, p.End + 1, p.End + 1 - 1)
  BY DEF Plain, Parameters
<1>7. p.End \in 0 .. (p.End + 1 - 1)
  BY DEF Parameters
<1>8. Len(qs) + 1 = N + 2  BY <1>1, <1>2
<1> QED  BY <1>2, <1>4, <1>5, <1>6, <1>7, <1>8 DEF AllKnown, qs

(* The types that the steps of the loops need. *)
LEMMA InputFacts ==
    ASSUME LoopsInv
    PROVE  /\ input \in Seq(Chars) /\ Len(input) \in Nat
           /\ \A j \in 1 .. Len(input) : input[j] \in Chars /\ SeenAt(Replacements, input, F, j)
           /\ \A j \in 1 .. (Len(input) + 2) : F[j] \in Seq(Chars)
           /\ F[Len(input) + 1] = << >>
           /\ parameters \in Seq(Parameters(Chars)) /\ Len(parameters) \in Nat
           /\ \A m \in 1 .. (Len(parameters) + 1) : PrevEnd(parameters, m) \in 0 .. Len(input)
<1>1. input \in Seq(Chars)  BY TextsAssumption DEF LoopsInv
<1>2. Len(input) \in Nat /\ \A j \in 1 .. Len(input) : input[j] \in Chars
  BY <1>1, LenProperties, ElementOfSeq
<1>3. /\ F[Len(input) + 1] = << >>
      /\ \A j \in 1 .. Len(input) : SeenAt(Replacements, input, F, j)
  BY <1>1, SuffixCases DEF F
<1>4. \A j \in 1 .. (Len(input) + 2) : F[j] \in Seq(Chars)
  BY <1>1, TextsAssumption, SuffixesType DEF F
<1>5. parameters \in Seq(Parameters(Chars)) /\ Len(parameters) \in Nat
  BY LenProperties DEF LoopsInv, AllKnown
<1>6. ASSUME NEW m \in 1 .. (Len(parameters) + 1)
      PROVE  PrevEnd(parameters, m) \in 0 .. Len(input)
  <2>1. CASE m = 1
    BY <1>2, <2>1 DEF PrevEnd
  <2>2. CASE m # 1
    <3>1. m - 1 \in 1 .. Len(parameters)  BY <1>5, <1>6, <2>2
    <3>2. Known(F, input, parameters, m - 1) /\ parameters[m - 1] \in Parameters(Chars)
      BY <1>5, <3>1, ElementOfSeq DEF LoopsInv, AllKnown
    <3>3. parameters[m - 1].End \in Nat /\ parameters[m - 1].Start \in Nat
      BY <3>2 DEF Parameters
    <3> QED  BY <1>2, <2>2, <3>2, <3>3 DEF Known, PrevEnd
  <2> QED  BY <2>1, <2>2
<1> QED  BY <1>1, <1>2, <1>3, <1>4, <1>5, <1>6

(* FindTemplateParameters keeps the invariant. *)
LEMMA FindStep ==
    ASSUME LoopsInv, FindEscape \/ FindKey \/ FindNothing \/ FindEnds
    PROVE  LoopsInv'
<1>1. /\ input \in Seq(Chars) /\ Len(input) \in Nat
      /\ \A j \in 1 .. Len(input) : input[j] \in Chars /\ SeenAt(Replacements, input, F, j)
      /\ \A j \in 1 .. (Len(input) + 2) : F[j] \in Seq(Chars)
  BY InputFacts
<1>2. loop = "find" /\ input' = input /\ F' = F /\ UNCHANGED <<n, out, lastEnd>>
  BY DEF FindEscape, FindKey, FindNothing, FindEnds, Find, F
<1>3. n = 1 /\ out = << >> /\ lastEnd = 0 /\ i \in 1 .. (Len(input) + 1)
  BY <1>2 DEF LoopsInv
<1>4. CASE FindEnds
  <2>1. i = Len(input) + 1 /\ loop' = "apply" /\ parameters' = parameters /\ i' = i
    BY <1>1, <1>3, <1>4 DEF FindEnds
  <2>2. lastEnd = PrevEnd(parameters, n) /\ n \in 1 .. (Len(parameters) + 1)
    BY <1>3, InputFacts DEF PrevEnd
  <2>3. out \in Seq(Chars) /\ F[1] = out \o F[lastEnd + 1]
    <3>1. F[1] \in Seq(Chars)  BY <1>1
    <3>2. << >> \in Seq(Chars) /\ << >> \o F[1] = F[1]  BY <3>1, ConcatEmptySeq
    <3> QED  BY <1>3, <3>2
  <2> QED  BY <1>1, <1>2, <1>3, <2>1, <2>2, <2>3 DEF LoopsInv
<1>5. SUFFICES ASSUME Find, ~ FindEnds,
                      i' \in 1 .. (Len(input) + 1), AllKnown(F, input, parameters', i')
               PROVE  LoopsInv'
  <2>1. ASSUME NEW p \in Parameters(Chars), p.Start = i, p.End \in i .. Len(input),
               F[i] = ValueOf(Replacements, p) \o F[p.End + 1],
               parameters' = Append(parameters, p), i' = p.End + 1
        PROVE  i' \in 1 .. (Len(input) + 1) /\ AllKnown(F, input, parameters', i')
    <3>1. i \in Nat /\ AllKnown(F, input, parameters, i)  BY <1>3 DEF LoopsInv
    <3>2. AllKnown(F, input, Append(parameters, p), p.End + 1)
      BY <1>1, <2>1, <3>1, AddParameter
    <3> QED  BY <1>1, <1>3, <2>1, <3>2
  <2>2. CASE FindEscape
    <3> DEFINE p == Parameter(i, i + 1, << >>, TRUE)
    <3>1. i \in 1 .. Len(input) /\ IsEscape(input, i)
      BY <1>1, <1>3, <2>2 DEF FindEscape, Find
    <3>2. i + 1 =< Len(input) /\ F[i] = <<"$">> \o F[i + 2]
      BY <1>1, <3>1 DEF SeenAt
    <3>3. /\ p \in Parameters(Chars) /\ p.Start = i /\ p.End = i + 1
          /\ ValueOf(Replacements, p) = <<"$">>
      BY <3>1 DEF Parameter, Parameters, ValueOf
    <3>4. parameters' = Append(parameters, p) /\ i' = i + 2 /\ Find
      BY <2>2 DEF FindEscape
    <3> HIDE DEF p
    <3>5. p.End \in i .. Len(input) /\ p.End + 1 = i + 2
      BY <1>1, <3>1, <3>2, <3>3
    <3>6. F[i] = ValueOf(Replacements, p) \o F[p.End + 1]
      BY <3>2, <3>3, <3>5
    <3> QED  BY <1>4, <2>1, <3>3, <3>4, <3>5, <3>6
  <2>3. CASE FindKey
    <3>1. /\ i \in 1 .. Len(input) /\ ~ IsEscape(input, i) /\ input[i] = "$"
          /\ FindValidKey(input, i) # {}
      BY <1>1, <1>3, <2>3 DEF FindKey, Find
    <3> DEFINE p == KeyAt(input, i)
    <3>2. /\ FindValidKey(input, i) = {p} /\ p \in Parameters(Chars)
          /\ p.Start = i /\ p.End \in (i + 1) .. Len(input)
      BY <1>1, <3>1, KeyAtFacts
    <3>3. F[i] = ValueOf(Replacements, p) \o F[p.End + 1]
      BY <1>1, <3>1 DEF SeenAt
    <3> HIDE DEF p
    <3>4. parameters' = Append(parameters, p) /\ i' = p.End + 1 /\ Find
      BY <2>3, <3>2 DEF FindKey
    <3>5. p.End \in i .. Len(input)  BY <3>1, <3>2
    <3> QED  BY <1>4, <2>1, <3>2, <3>3, <3>4, <3>5
  <2>4. CASE FindNothing
    <3>1. /\ i \in 1 .. Len(input) /\ ~ IsEscape(input, i)
          /\ ~ (input[i] = "$" /\ FindValidKey(input, i) # {})
          /\ parameters' = parameters /\ i' = i + 1 /\ Find
      BY <1>1, <1>3, <2>4 DEF FindNothing, Find
    <3>2. PlainAt(F, input, i)
      BY <1>1, <3>1 DEF SeenAt, PlainAt
    <3> DEFINE e == PrevEnd(parameters, Len(parameters) + 1)
    <3>3. e \in 0 .. (i - 1) /\ Plain(F, input, e + 1, i - 1)
      BY DEF LoopsInv, AllKnown
    <3> HIDE DEF e
    <3>4. e \in 0 .. (i + 1 - 1) /\ Plain(F, input, e + 1, i + 1 - 1)
      <4>1. \A j \in (e + 1) .. (i + 1 - 1) : j = i \/ j \in (e + 1) .. (i - 1)
        BY <3>1, <3>3
      <4> QED  BY <3>1, <3>2, <3>3, <4>1 DEF Plain
    <3>5. AllKnown(F, input, parameters, i + 1)
      BY <3>4 DEF e, LoopsInv, AllKnown
    <3> QED  BY <1>1, <1>4, <3>1, <3>5
  <2> QED  BY <1>4, <2>2, <2>3, <2>4
<1> QED  BY <1>2, <1>3, <1>5 DEF LoopsInv, Find

(* applyReplacements keeps the invariant. *)
LEMMA ApplyStep ==
    ASSUME LoopsInv, Apply \/ ApplyEnds
    PROVE  LoopsInv'
<1>1. /\ input \in Seq(Chars) /\ Len(input) \in Nat
      /\ \A j \in 1 .. Len(input) : input[j] \in Chars
      /\ \A j \in 1 .. (Len(input) + 2) : F[j] \in Seq(Chars)
      /\ F[Len(input) + 1] = << >>
      /\ parameters \in Seq(Parameters(Chars)) /\ Len(parameters) \in Nat
      /\ \A m \in 1 .. (Len(parameters) + 1) : PrevEnd(parameters, m) \in 0 .. Len(input)
  BY InputFacts
<1>2. /\ loop = "apply" /\ input' = input /\ F' = F /\ parameters' = parameters /\ i' = i
      /\ i = Len(input) + 1 /\ AllKnown(F, input, parameters, i)
      /\ n \in 1 .. (Len(parameters) + 1) /\ lastEnd = PrevEnd(parameters, n)
      /\ out \in Seq(Chars) /\ F[1] = out \o F[lastEnd + 1]
  BY DEF LoopsInv, Apply, ApplyEnds, F
<1>3. lastEnd \in 0 .. Len(input)  BY <1>1, <1>2
<1>4. ASSUME NEW e \in lastEnd .. Len(input), Plain(F, input, lastEnd + 1, e)
      PROVE  /\ SubSeq(input, lastEnd + 1, e) \in Seq(Chars)
             /\ F[lastEnd + 1] = SubSeq(input, lastEnd + 1, e) \o F[e + 1]
  <2>1. /\ lastEnd + 1 \in 1 .. (Len(input) + 1) /\ e \in (lastEnd + 1 - 1) .. Len(input)
        /\ lastEnd + 1 \in Int /\ e \in Int
        /\ \A j \in (lastEnd + 1) .. e : input[j] \in Chars
    BY <1>1, <1>3, <1>4
  <2>2. SubSeq(input, lastEnd + 1, e) \in Seq(Chars)
    BY <2>1, SubSeqProperties
  <2> DEFINE a == lastEnd + 1
  <2>3. a \in 1 .. (Len(input) + 1) /\ e \in (a - 1) .. Len(input)
    BY <1>1, <1>3, <1>4
  <2>4. Plain(F, input, a, e)
    BY <1>4
  <2> HIDE DEF a
  <2>5. AllTexts(F, input, Chars)  BY <1>1 DEF AllTexts
  <2>6. F[a] = SubSeq(input, a, e) \o F[e + 1]
    BY <1>1, <2>3, <2>4, <2>5, PlainStretch
  <2> QED  BY <2>2, <2>6 DEF a
<1>5. CASE Apply
  <2> DEFINE p == parameters[n]
             gap == SubSeq(input, lastEnd + 1, p.Start - 1)
             value == ValueOf(Replacements, p)
             rest == F[p.End + 1]
  <2>1. n \in 1 .. Len(parameters) /\ out' = out \o gap \o value /\ lastEnd' = p.End
        /\ n' = n + 1 /\ loop' = loop
    BY <1>1, <1>2, <1>5 DEF Apply
  <2>2. Known(F, input, parameters, n) /\ p \in Parameters(Chars)
    BY <1>1, <1>2, <2>1, ElementOfSeq DEF AllKnown
  <2>3. p.Start \in Nat /\ p.End \in Nat  BY <2>2 DEF Parameters
  <2> HIDE DEF p
  <2>4. /\ p.Start \in (lastEnd + 1) .. Len(input) /\ p.End \in p.Start .. Len(input)
        /\ Plain(F, input, lastEnd + 1, p.Start - 1)
        /\ F[p.Start] = value \o rest
    BY <1>2, <2>2 DEF Known, p
  <2>5. gap \in Seq(Chars) /\ F[lastEnd + 1] = gap \o F[p.Start]
    <3>1. p.Start - 1 \in lastEnd .. Len(input) /\ p.Start - 1 + 1 = p.Start
      BY <1>1, <1>3, <2>3, <2>4
    <3> QED  BY <1>4, <2>4, <3>1
  <2>6. value \in Seq(Chars)  BY <2>2, TextsAssumption, ValueType DEF p
  <2>7. rest \in Seq(Chars)
    <3>1. p.End + 1 \in 1 .. (Len(input) + 2)  BY <1>1, <2>3, <2>4
    <3> QED  BY <1>1, <3>1
  <2>8. F[1] = out' \o F[lastEnd' + 1] /\ out' \in Seq(Chars)
    <3> DEFINE u == F[1]
               t1 == F[lastEnd + 1]
               t2 == F[p.Start]
               q == out \o gap
               y == out'
    <3>1. /\ Joins(u, out, t1) /\ Joins(t1, gap, t2) /\ Joins(t2, value, rest)
          /\ Joins(q, out, gap) /\ Joins(y, q, value)
      BY <1>2, <2>1, <2>4, <2>5 DEF Joins
    <3>2. out \in Seq(Chars) /\ gap \in Seq(Chars) /\ value \in Seq(Chars) /\ rest \in Seq(Chars)
      BY <1>2, <2>5, <2>6, <2>7
    <3> HIDE DEF u, t1, t2, q, y, gap, value, rest
    <3>3. Joins(u, y, rest) /\ y \in Seq(Chars)  BY <3>1, <3>2, RegroupedTwice
    <3> QED  BY <2>1, <3>3 DEF Joins, u, y, rest
  <2> HIDE DEF gap, value, rest
  <2>9. n' \in 1 .. (Len(parameters) + 1) /\ lastEnd' = PrevEnd(parameters, n')
    BY <1>1, <2>1 DEF PrevEnd, p
  <2> QED  BY <1>2, <2>1, <2>8, <2>9 DEF LoopsInv
<1>6. CASE ApplyEnds
  <2> DEFINE gap == SubSeq(input, lastEnd + 1, Len(input))
  <2>1. n = Len(parameters) + 1 /\ out' = out \o gap /\ loop' = "done"
    BY <1>1, <1>2, <1>6 DEF ApplyEnds
  <2>2. Plain(F, input, lastEnd + 1, Len(input))
    <3>1. Plain(F, input, lastEnd + 1, i - 1) /\ i - 1 = Len(input)
      BY <1>1, <1>2, <2>1 DEF AllKnown
    <3> QED  BY <3>1
  <2>3. gap \in Seq(Chars) /\ F[lastEnd + 1] = gap \o << >>
    <3>1. Len(input) \in lastEnd .. Len(input)  BY <1>1, <1>3
    <3> QED  BY <1>1, <1>4, <2>2, <3>1
  <2> HIDE DEF gap
  <2>4. F[lastEnd + 1] = gap  BY <2>3, ConcatEmptySeq
  <2>5. out' = F[1]  BY <1>2, <2>1, <2>4
  <2> QED  BY <1>2, <2>1, <2>5 DEF LoopsInv
<1> QED  BY <1>5, <1>6

(* The inductive invariant of the two loops of subst.go. *)
THEOREM LoopsInvariant == LoopsSpec => []LoopsInv
<1>1. LoopsInit => LoopsInv
  <2> SUFFICES ASSUME LoopsInit PROVE LoopsInv
    OBVIOUS
  <2>1. input \in Seq(Chars) /\ Len(input) \in Nat
    BY TextsAssumption, LenProperties DEF LoopsInit
  <2>2. << >> \in Seq(Parameters(Chars)) /\ Len(<< >>) = 0
    BY EmptySeq
  <2>3. PrevEnd(<< >>, 1) = 0 /\ Plain(F, input, 1, 0)
    BY DEF PrevEnd, Plain
  <2>4. AllKnown(F, input, << >>, 1)
    BY <2>2, <2>3 DEF AllKnown
  <2> QED  BY <2>1, <2>4 DEF LoopsInit, LoopsInv
<1>2. LoopsInv /\ [LoopsNext]_loopVars => LoopsInv'
  <2> SUFFICES ASSUME LoopsInv, [LoopsNext]_loopVars PROVE LoopsInv'
    OBVIOUS
  <2>1. CASE UNCHANGED loopVars
    BY <2>1 DEF loopVars, LoopsInv, F
  <2> QED  BY <2>1, FindStep, ApplyStep DEF LoopsNext
<1> QED  BY <1>1, <1>2, PTL DEF LoopsSpec

(***************************************************************************)
(* FindTemplateParameters and applyReplacements, with their indices into   *)
(* two arrays, compute the expansion of every text, of any length.         *)
(***************************************************************************)
THEOREM LoopsExpand == LoopsSpec => []OutIsExpansion
<1>1. LoopsInv => OutIsExpansion
  BY TextsAssumption, SuffixesFacts DEF LoopsInv, OutIsExpansion, F
<1> QED  BY <1>1, LoopsInvariant, PTL
-----------------------------------------------------------------------------
(* The keys of the parameters that are no escaped dollars. *)
KeysOf(ps) == {ps[m].Key : m \in {m \in 1 .. Len(ps) : ~ ps[m].Escape}}

(* What has been found, and what the rest of the text still has.           *)
KeysInv ==
    KeysOf(parameters) \cup (IF loop = "find" THEN SuffixKeys(input)[i] ELSE {}) = KeysIn(input)

(* One more parameter. *)
LEMMA KeysOfAppend ==
    ASSUME NEW P, NEW ps \in Seq(P), NEW p \in P
    PROVE  KeysOf(Append(ps, p)) = KeysOf(ps) \cup (IF p.Escape THEN {} ELSE {p.Key})
<1> DEFINE qs == Append(ps, p)
           N == Len(ps)
<1>1. N \in Nat /\ Len(qs) = N + 1 /\ qs[N + 1] = p /\ \A m \in 1 .. N : qs[m] = ps[m]
  BY LenProperties, AppendProperties
<1>2. \A m : m \in 1 .. (N + 1) <=> m \in 1 .. N \/ m = N + 1
  BY <1>1
<1> HIDE DEF qs, N
<1> QED  BY <1>1, <1>2 DEF KeysOf, qs, N

(* FindTemplateParameters goes on where the keys of the rest begin. *)
LEMMA KeysStep == LoopsInv /\ KeysInv /\ [LoopsNext]_loopVars => KeysInv'
<1> SUFFICES ASSUME LoopsInv, KeysInv, [LoopsNext]_loopVars PROVE KeysInv'
  OBVIOUS
<1>1. /\ input \in Seq(Chars) /\ Len(input) \in Nat
      /\ parameters \in Seq(Parameters(Chars)) /\ i \in 1 .. (Len(input) + 1)
  BY InputFacts DEF LoopsInv
<1> DEFINE K == SuffixKeys(input)
<1>2. /\ K[Len(input) + 1] = {}
      /\ \A j \in 1 .. Len(input) : K[j] = KeyHere(input, j) \cup K[After(input, j)]
  BY <1>1, SuffixKeysCases
<1>3. input' = input /\ K' = K /\ KeysIn(input)' = KeysIn(input)
  BY DEF LoopsNext, loopVars, FindEscape, FindKey, FindNothing, FindEnds, Find, Apply, ApplyEnds
<1> HIDE DEF K
<1>4. KeysOf(parameters) \cup (IF loop = "find" THEN K[i] ELSE {}) = KeysIn(input)
  BY DEF KeysInv, K
<1>5. SUFFICES KeysOf(parameters') \cup (IF loop' = "find" THEN K[i'] ELSE {})
                  = KeysOf(parameters) \cup (IF loop = "find" THEN K[i] ELSE {})
  BY <1>3, <1>4 DEF KeysInv, K
<1>6. CASE FindEscape
  <2> DEFINE p == Parameter(i, i + 1, << >>, TRUE)
  <2>1. /\ loop = "find" /\ loop' = "find" /\ i \in 1 .. Len(input) /\ IsEscape(input, i)
        /\ parameters' = Append(parameters, p) /\ i' = i + 2
    BY <1>1, <1>6 DEF FindEscape, Find
  <2>2. p \in Parameters(Chars) /\ p.Escape
    BY <2>1 DEF Parameter, Parameters
  <2> HIDE DEF p
  <2>3. KeysOf(parameters') = KeysOf(parameters)
    BY <1>1, <2>1, <2>2, KeysOfAppend
  <2>4. K[i] = K[i']
    BY <1>2, <2>1 DEF KeyHere, After
  <2> QED  BY <2>1, <2>3, <2>4
<1>7. CASE FindKey
  <2> DEFINE p == KeyAt(input, i)
  <2>1. /\ loop = "find" /\ loop' = "find" /\ i \in 1 .. Len(input)
        /\ ~ IsEscape(input, i) /\ input[i] = "$" /\ FindValidKey(input, i) # {}
    BY <1>1, <1>7 DEF FindKey, Find
  <2>2. FindValidKey(input, i) = {p} /\ p \in Parameters(Chars) /\ ~ p.Escape
    BY <1>1, <2>1, KeyAtFacts
  <2>3. parameters' = Append(parameters, p) /\ i' = p.End + 1
    BY <1>7, <2>2 DEF FindKey
  <2>4. K[i] = {p.Key} \cup K[i']
    BY <1>2, <2>1, <2>3 DEF KeyHere, After
  <2> HIDE DEF p
  <2>5. KeysOf(parameters') = KeysOf(parameters) \cup {p.Key}
    BY <1>1, <2>2, <2>3, KeysOfAppend
  <2> QED  BY <2>1, <2>4, <2>5
<1>8. CASE FindNothing
  <2>1. /\ loop = "find" /\ loop' = "find" /\ i \in 1 .. Len(input)
        /\ ~ IsEscape(input, i) /\ ~ (input[i] = "$" /\ FindValidKey(input, i) # {})
        /\ parameters' = parameters /\ i' = i + 1
    BY <1>1, <1>8 DEF FindNothing, Find
  <2>2. K[i] = K[i']  BY <1>2, <2>1 DEF KeyHere, After
  <2> QED  BY <2>1, <2>2
<1>9. CASE FindEnds
  <2>1. loop = "find" /\ loop' = "apply" /\ parameters' = parameters /\ i = Len(input) + 1
    BY <1>1, <1>9 DEF FindEnds
  <2> QED  BY <1>2, <2>1
<1>10. CASE Apply \/ ApplyEnds
  BY <1>10 DEF Apply, ApplyEnds
<1>11. CASE UNCHANGED loopVars
  BY <1>11 DEF loopVars
<1> QED  BY <1>6, <1>7, <1>8, <1>9, <1>10, <1>11 DEF LoopsNext

(* When the first loop ends it has found the keys of the whole text.       *)
KeysCollected == loop # "find" => KeysOf(parameters) = KeysIn(input)

(***************************************************************************)
(* The keys of the parameters that FindTemplateParameters returns are the  *)
(* keys of the text, for texts of any length.                              *)
(***************************************************************************)
THEOREM KeysAreCollected == LoopsSpec => []KeysCollected
<1>1. LoopsInit => KeysInv
  <2> SUFFICES ASSUME LoopsInit PROVE KeysInv
    OBVIOUS
  <2>1. input \in Seq(Chars) /\ parameters = << >> /\ i = 1 /\ loop = "find"
    BY TextsAssumption DEF LoopsInit
  <2>2. KeysOf(<< >>) = {}  BY DEF KeysOf
  <2>3. KeysIn(input) = SuffixKeys(input)[1]  BY <2>1, SuffixKeysFacts
  <2> QED  BY <2>1, <2>2, <2>3 DEF KeysInv
<1>2. KeysInv => KeysCollected
  BY DEF KeysInv, KeysCollected
<1> QED  BY <1>1, <1>2, KeysStep, LoopsInvariant, PTL DEF LoopsSpec
-----------------------------------------------------------------------------
(* Escaped doubles the dollars one character after the other. *)
Doubled(c) == IF c = "$" THEN <<"$", "$">> ELSE <<c>>
And(v, c) == v \o Doubled(c)

IsEscaping(s, m, g) == g = [k \in 0 .. m |-> IF k = 0 THEN << >> ELSE And(g[k - 1], s[k])]

(* The recursive function of Escaped exists. *)
LEMMA EscapingExists ==
    ASSUME NEW s, NEW m \in Nat
    PROVE  \E g : IsEscaping(s, m, g)
<1> DEFINE S == {k \in Nat : \E g : IsEscaping(s, k, g)}
<1>1. 0 \in S
  <2> DEFINE g == [k \in 0 .. 0 |-> << >>]
  <2>1. IsEscaping(s, 0, g)  BY DEF IsEscaping
  <2> QED  BY <2>1
<1>2. ASSUME NEW k \in Nat, k \in S PROVE k + 1 \in S
  <2>1. PICK g : IsEscaping(s, k, g)  BY <1>2
  <2> DEFINE h == [j \in 0 .. (k + 1) |-> IF j = k + 1 THEN And(g[k], s[k + 1]) ELSE g[j]]
  <2>2. \A j \in 0 .. (k + 1) : h[j] = IF j = 0 THEN << >> ELSE And(h[j - 1], s[j])
    <3> TAKE j \in 0 .. (k + 1)
    <3>1. CASE j = k + 1
      BY <3>1
    <3>2. CASE j \in 0 .. k
      <4>1. h[j] = g[j] /\ (j # 0 => h[j - 1] = g[j - 1])  BY <3>2
      <4>2. g[j] = IF j = 0 THEN << >> ELSE And(g[j - 1], s[j])
        BY <2>1, <3>2 DEF IsEscaping
      <4> HIDE DEF h
      <4> QED  BY <3>2, <4>1, <4>2
    <3> QED  BY <3>1, <3>2
  <2>3. h = [j \in 0 .. (k + 1) |-> IF j = 0 THEN << >> ELSE And(h[j - 1], s[j])]
    <3>1. DOMAIN h = 0 .. (k + 1) /\ h = [j \in DOMAIN h |-> h[j]]  OBVIOUS
    <3> HIDE DEF h
    <3> QED  BY <2>2, <3>1
  <2> HIDE DEF h
  <2> QED  BY <2>3 DEF IsEscaping
<1> HIDE DEF S
<1>3. Nat \subseteq S  BY <1>1, <1>2, NatSetInduction
<1> QED  BY <1>3 DEF S

Agree(s, t, m) == \A k \in 1 .. m : s[k] = t[k]

(* It depends only on the characters up to an index. *)
LEMMA EscapingUnique ==
    ASSUME NEW s, NEW t, NEW m \in Nat, NEW l \in Nat, m =< l, NEW g, NEW h,
           Agree(s, t, m),
           IsEscaping(s, m, g), IsEscaping(t, l, h)
    PROVE  g[m] = h[m]
<1> DEFINE S == {k \in Nat : k =< m => g[k] = h[k]}
<1>1. \A k \in 0 .. m : /\ g[k] = IF k = 0 THEN << >> ELSE And(g[k - 1], s[k])
                        /\ h[k] = IF k = 0 THEN << >> ELSE And(h[k - 1], t[k])
  <2>1. \A k \in 0 .. m : k \in 0 .. l  OBVIOUS
  <2> QED  BY <2>1 DEF IsEscaping
<1>2. 0 \in S
  BY <1>1
<1>3. ASSUME NEW k \in Nat, k \in S PROVE k + 1 \in S
  <2>1. CASE k + 1 =< m
    <3>1. k + 1 \in 0 .. m /\ k + 1 \in 1 .. m /\ k + 1 # 0 /\ k + 1 - 1 = k  BY <2>1
    <3>2. g[k + 1] = And(g[k], s[k + 1]) /\ h[k + 1] = And(h[k], t[k + 1])
      BY <1>1, <3>1
    <3>3. g[k] = h[k] /\ s[k + 1] = t[k + 1]  BY <1>3, <2>1, <3>1 DEF Agree
    <3> QED  BY <3>2, <3>3
  <2> QED  BY <2>1
<1> HIDE DEF S
<1>4. Nat \subseteq S  BY <1>2, <1>3, NatSetInduction
<1> QED  BY <1>4 DEF S

(* Escaping one more character. *)
LEMMA EscapedStep ==
    ASSUME NEW C, NEW x \in Seq(C), NEW c \in C
    PROVE  /\ Escaped(<< >>) = << >>
           /\ Escaped(x \o <<c>>) = Escaped(x) \o Doubled(c)
<1>1. ASSUME NEW s \in Seq(C)
      PROVE  \E g : IsEscaping(s, Len(s), g) /\ Escaped(s) = g[Len(s)]
  <2> DEFINE g == CHOOSE g : IsEscaping(s, Len(s), g)
  <2>1. IsEscaping(s, Len(s), g)  BY LenProperties, EscapingExists
  <2>2. Escaped(s) = g[Len(s)]
    BY DEF Escaped, IsEscaping, And, Doubled
  <2> QED  BY <2>1, <2>2
<1>2. Escaped(<< >>) = << >>
  <2>1. << >> \in Seq(C) /\ Len(<< >>) = 0  OBVIOUS
  <2>2. PICK g : IsEscaping(<< >>, 0, g) /\ Escaped(<< >>) = g[0]
    BY <1>1, <2>1
  <2> QED  BY <2>2 DEF IsEscaping
<1> DEFINE y == x \o <<c>>
<1>3. /\ Len(x) \in Nat /\ y \in Seq(C) /\ Len(y) = Len(x) + 1 /\ y[Len(x) + 1] = c
      /\ \A k \in 1 .. Len(x) : x[k] = y[k]
  <2>1. Len(x) \in Nat /\ <<c>> \in Seq(C) /\ Len(<<c>>) = 1 /\ <<c>>[1] = c
    BY LenProperties
  <2>2. /\ y \in Seq(C) /\ Len(y) = Len(x) + 1
        /\ \A k \in 1 .. (Len(x) + 1) : y[k] = IF k =< Len(x) THEN x[k] ELSE <<c>>[k - Len(x)]
    BY <2>1, ConcatProperties
  <2> HIDE DEF y
  <2>3. Len(x) + 1 \in 1 .. (Len(x) + 1) /\ ~ (Len(x) + 1 =< Len(x)) /\ Len(x) + 1 - Len(x) = 1
        /\ \A k \in 1 .. Len(x) : k \in 1 .. (Len(x) + 1) /\ k =< Len(x)
    BY <2>1
  <2> QED  BY <2>1, <2>2, <2>3
<1> HIDE DEF y
<1>4. PICK g : IsEscaping(x, Len(x), g) /\ Escaped(x) = g[Len(x)]
  BY <1>1
<1>5. PICK h : IsEscaping(y, Len(x) + 1, h) /\ Escaped(y) = h[Len(x) + 1]
  BY <1>1, <1>3
<1>6. g[Len(x)] = h[Len(x)]
  <2>1. Len(x) + 1 \in Nat /\ Len(x) =< Len(x) + 1  BY <1>3
  <2>2. Agree(x, y, Len(x))  BY <1>3 DEF Agree
  <2> QED  BY <1>3, <1>4, <1>5, <2>1, <2>2, EscapingUnique
<1>7. h[Len(x) + 1] = And(h[Len(x)], c)
  <2>1. Len(x) + 1 \in 0 .. (Len(x) + 1) /\ Len(x) + 1 # 0 /\ Len(x) + 1 - 1 = Len(x)  BY <1>3
  <2> QED  BY <1>3, <1>5, <2>1 DEF IsEscaping
<1>8. Escaped(y) = Escaped(x) \o Doubled(c)  BY <1>4, <1>5, <1>6, <1>7 DEF And
<1> QED  BY <1>2, <1>8 DEF y

(* A run of dollars that begins at m, whole or not, has an even length. *)
Aligned(s, m) ==
    \A e \in m .. Len(s) : (/\ \A l \in m .. e : s[l] = "$"
                            /\ e < Len(s) => s[e + 1] # "$") => (e - m + 1) % 2 = 0

(* When all runs are even, so is one that begins at m. *)
LEMMA RunsAligned ==
    ASSUME NEW C, NEW s \in Seq(C), DollarsPaired(s), NEW m \in 1 .. (Len(s) + 1),
           m = 1 \/ s[m - 1] # "$"
    PROVE  Aligned(s, m)
<1>1. Len(s) \in Nat /\ DOMAIN s = 1 .. Len(s)  BY LenProperties
<1> SUFFICES ASSUME NEW e \in m .. Len(s), \A l \in m .. e : s[l] = "$",
                    e < Len(s) => s[e + 1] # "$"
             PROVE  (e - m + 1) % 2 = 0
  BY DEF Aligned
<1> DEFINE T == {k \in m .. Len(s) : \A l \in m .. k : s[l] = "$"}
<1>2. m \in DOMAIN s /\ s[m] = "$"  BY <1>1
<1>3. (Max(T) - m + 1) % 2 = 0  BY <1>2 DEF DollarsPaired
<1>4. T \in SUBSET (m .. Len(s)) /\ e \in T  OBVIOUS
<1>5. \A k \in T : k =< e
  <2> SUFFICES ASSUME NEW k \in T, k > e PROVE FALSE
    BY <1>1
  <2>1. e + 1 \in m .. k /\ e < Len(s)  BY <1>1
  <2> QED  BY <2>1
<1> HIDE DEF T
<1>6. Max(T) \in T /\ \A k \in T : k =< Max(T)
  <2>1. m \in Int /\ Len(s) \in Int  BY <1>1
  <2> QED  BY <1>4, <2>1, GreatestInteger
<1>7. Max(T) \in m .. Len(s) /\ Max(T) =< e /\ e =< Max(T)
  BY <1>4, <1>5, <1>6
<1>8. Max(T) = e
  <2> DEFINE k == Max(T)
  <2>1. k \in Int /\ k =< e /\ e =< k  BY <1>1, <1>7
  <2> HIDE DEF k
  <2>2. k = e  BY <2>1
  <2> QED  BY <2>2 DEF k
<1> QED  BY <1>3, <1>8

(* An even run goes on for a second dollar, and is even after it. *)
LEMMA AlignedStep ==
    ASSUME NEW C, NEW s \in Seq(C), NEW m \in 1 .. Len(s), Aligned(s, m), s[m] = "$"
    PROVE  m < Len(s) /\ s[m + 1] = "$" /\ Aligned(s, m + 2)
<1>1. Len(s) \in Nat  BY LenProperties
<1>2. m < Len(s) /\ s[m + 1] = "$"
  <2> SUFFICES ASSUME m < Len(s) => s[m + 1] # "$" PROVE FALSE
    BY <1>1
  <2>1. m \in m .. Len(s) /\ \A l \in m .. m : s[l] = "$"  BY <1>1
  <2>2. (m - m + 1) % 2 = 0  BY <2>1 DEF Aligned
  <2>3. m - m + 1 = 1 /\ 1 % 2 = 1  OBVIOUS
  <2> QED  BY <2>2, <2>3
<1>3. Aligned(s, m + 2)
  <2> SUFFICES ASSUME NEW e \in (m + 2) .. Len(s), \A l \in (m + 2) .. e : s[l] = "$",
                      e < Len(s) => s[e + 1] # "$"
               PROVE  (e - (m + 2) + 1) % 2 = 0
    BY DEF Aligned
  <2>1. \A l \in m .. e : l = m \/ l = m + 1 \/ l \in (m + 2) .. e  BY <1>1
  <2>2. \A l \in m .. e : s[l] = "$"  BY <1>2, <2>1
  <2>3. e \in m .. Len(s)  BY <1>1
  <2>4. (e - m + 1) % 2 = 0  BY <2>2, <2>3 DEF Aligned
  <2> QED  BY <1>1, <2>4
<1> QED  BY <1>2, <1>3

(* The characters before m are what is out so far, escaped. *)
EscapedUpTo(f, s, C, m, x) ==
    /\ x \in Seq(C) /\ Aligned(s, m)
    /\ f[1] = x \o f[m]
    /\ SubSeq(s, 1, m - 1) = Escaped(x)

(* The scanner takes a pair of dollars, or one other character. *)
LEMMA EscapedMore ==
    ASSUME NEW C, NEW s \in Seq(C), NEW f, AllTexts(f, s, C), NEW m \in 1 .. Len(s),
           DollarsPaired(s), SeenAt(Replacements, s, f, m),
           NEW x, EscapedUpTo(f, s, C, m, x)
    PROVE  \E l \in (m + 1) .. (Len(s) + 1) : \E y : EscapedUpTo(f, s, C, l, y)
<1>1. Len(s) \in Nat /\ s[m] \in C  BY LenProperties, ElementOfSeq
<1>2. x \in Seq(C) /\ f[1] = x \o f[m]  BY DEF EscapedUpTo
<1>3. SubSeq(s, 1, m) = SubSeq(s, 1, m - 1) \o <<s[m]>>
  <2>1. 1 \in 1 .. Len(s) /\ m \in 1 .. Len(s)  BY <1>1
  <2> QED  BY <2>1, SubSeqRecursiveSecond
<1> DEFINE y == x \o <<s[m]>>
<1>4. Escaped(y) = SubSeq(s, 1, m - 1) \o Doubled(s[m])
  BY <1>1, <1>2, EscapedStep DEF EscapedUpTo
<1>5. ASSUME NEW l, f[l] \in Seq(C), f[m] = <<s[m]>> \o f[l]
      PROVE  f[1] = y \o f[l] /\ y \in Seq(C)
  <2> DEFINE c == <<s[m]>>
             u == f[1]
             v == f[m]
             w == f[l]
  <2>1. /\ x \in Seq(C) /\ c \in Seq(C) /\ w \in Seq(C)
        /\ Joins(u, x, v) /\ Joins(v, c, w) /\ Joins(y, x, c)
    BY <1>1, <1>2, <1>5 DEF Joins
  <2> HIDE DEF c, u, v, w, y
  <2>2. Joins(u, y, w) /\ y \in Seq(C)  BY <2>1, Regrouped
  <2> QED  BY <2>2 DEF u, w, Joins
<1> HIDE DEF y
<1>6. CASE s[m] = "$"
  <2>1. m < Len(s) /\ s[m + 1] = "$" /\ Aligned(s, m + 2)
    BY <1>6, AlignedStep DEF EscapedUpTo
  <2>2. f[m] = <<s[m]>> \o f[m + 2]
    BY <1>6, <2>1 DEF SeenAt, IsEscape
  <2>3. m + 2 \in 1 .. (Len(s) + 2) /\ m + 2 - 1 = m + 1 /\ m + 2 \in (m + 1) .. (Len(s) + 1)
        /\ m + 1 \in 1 .. Len(s) /\ m + 1 - 1 = m /\ 1 \in 1 .. Len(s)
    BY <1>1, <2>1
  <2>4. f[m + 2] \in Seq(C)  BY <2>3 DEF AllTexts
  <2>5. f[1] = y \o f[m + 2] /\ y \in Seq(C)  BY <1>5, <2>2, <2>4
  <2>6. SubSeq(s, 1, m + 1) = SubSeq(s, 1, m) \o <<s[m + 1]>>
    BY <2>3, SubSeqRecursiveSecond
  <2>7. SubSeq(s, 1, m + 1) = SubSeq(s, 1, m - 1) \o Doubled(s[m])
    <3> DEFINE z == SubSeq(s, 1, m - 1)
    <3>1. z \in Seq(C)
      <4>1. 1 \in Int /\ m - 1 \in Int /\ \A k \in 1 .. (m - 1) : s[k] \in C
        BY <1>1, ElementOfSeq
      <4> QED  BY <4>1, SubSeqProperties
    <3>2. SubSeq(s, 1, m + 1) = (z \o <<"$">>) \o <<"$">>  BY <1>3, <1>6, <2>1, <2>6
    <3> HIDE DEF z
    <3>3. (z \o <<"$">>) \o <<"$">> = z \o <<"$", "$">>
      <4>1. "$" \in C  BY <1>1, <1>6
      <4> QED  BY <3>1, <4>1
    <3> QED  BY <1>6, <3>2, <3>3 DEF z, Doubled
  <2>8. EscapedUpTo(f, s, C, m + 2, y)
    BY <1>4, <2>1, <2>3, <2>5, <2>7 DEF EscapedUpTo
  <2> QED  BY <2>3, <2>8
<1>7. CASE s[m] # "$"
  <2>1. f[m] = <<s[m]>> \o f[m + 1]
    BY <1>7 DEF SeenAt, IsEscape
  <2>2. /\ m + 1 \in 1 .. (Len(s) + 2) /\ m + 1 - 1 = m /\ m + 1 \in (m + 1) .. (Len(s) + 1)
        /\ m + 1 \in 1 .. (Len(s) + 1)
    BY <1>1
  <2>3. f[m + 1] \in Seq(C)  BY <2>2 DEF AllTexts
  <2>4. f[1] = y \o f[m + 1] /\ y \in Seq(C)  BY <1>5, <2>1, <2>3
  <2>5. Aligned(s, m + 1)
    BY <1>7, <2>2, RunsAligned
  <2>6. SubSeq(s, 1, m) = Escaped(y)
    BY <1>3, <1>4, <1>7 DEF Doubled
  <2>7. EscapedUpTo(f, s, C, m + 1, y)
    BY <2>2, <2>4, <2>5, <2>6 DEF EscapedUpTo
  <2> QED  BY <2>2, <2>7
<1> QED  BY <1>6, <1>7

(* By induction, to the end of the text. *)
LEMMA EscapedAll ==
    ASSUME NEW s \in Seq(Chars), DollarsPaired(s)
    PROVE  s = Escaped(Expand(Replacements, s))
<1> DEFINE f == Suffixes(Replacements, s)
           L == Len(s)
           P(k) == \E l \in (k + 1) .. (L + 1) : \E y : EscapedUpTo(f, s, Chars, l, y)
           S == {k \in Nat : k =< L => P(k)}
<1>1. /\ L \in Nat /\ f[L + 1] = << >> /\ Expand(Replacements, s) = f[1]
      /\ \A m \in 1 .. L : SeenAt(Replacements, s, f, m)
  BY LenProperties, SuffixCases, SuffixesFacts
<1>2. AllTexts(f, s, Chars)
  BY TextsAssumption, SuffixesType DEF AllTexts
<1> HIDE DEF f
<1>3. 0 \in S
  <2>1. f[1] \in Seq(Chars)  BY <1>1, <1>2 DEF AllTexts
  <2>2. f[1] = << >> \o f[1] /\ << >> \in Seq(Chars)  BY <2>1, ConcatEmptySeq
  <2>3. SubSeq(s, 1, 1 - 1) = Escaped(<< >>)
    <3>1. SubSeq(s, 1, 0) = << >>  BY SubSeqEmpty
    <3>2. Escaped(<< >>) = << >>  BY TextsAssumption, <2>2, EscapedStep
    <3>3. 1 - 1 = 0  OBVIOUS
    <3> QED  BY <3>1, <3>2, <3>3
  <2>4. Aligned(s, 1)
    BY <1>1, RunsAligned
  <2>5. EscapedUpTo(f, s, Chars, 1, << >>)
    BY <2>2, <2>3, <2>4 DEF EscapedUpTo
  <2>6. 1 \in (0 + 1) .. (L + 1)  BY <1>1
  <2> QED  BY <2>5, <2>6
<1>4. ASSUME NEW k \in Nat, k \in S PROVE k + 1 \in S
  <2> SUFFICES ASSUME k + 1 =< L PROVE P(k + 1)
    OBVIOUS
  <2>1. k =< L  BY <1>1
  <2>2. PICK l \in (k + 1) .. (L + 1) : \E y : EscapedUpTo(f, s, Chars, l, y)
    BY <1>4, <2>1
  <2>3. CASE l > k + 1
    <3>1. l \in (k + 1 + 1) .. (L + 1)  BY <1>1, <2>3
    <3> QED  BY <2>2, <3>1
  <2>4. CASE l = k + 1
    <3>1. l \in 1 .. Len(s)  BY <1>1, <2>4
    <3>2. SeenAt(Replacements, s, f, l)  BY <1>1, <3>1
    <3>3. PICK m \in (l + 1) .. (Len(s) + 1) : \E y : EscapedUpTo(f, s, Chars, m, y)
      BY <1>2, <2>2, <3>1, <3>2, EscapedMore
    <3>4. m \in (k + 1 + 1) .. (L + 1)  BY <2>4, <3>3
    <3> QED  BY <3>3, <3>4
  <2> QED  BY <1>1, <2>3, <2>4
<1>5. Nat \subseteq S
  <2> HIDE DEF S
  <2> QED  BY <1>3, <1>4, NatSetInduction
<1>6. P(L)  BY <1>1, <1>5
<1>7. PICK y : EscapedUpTo(f, s, Chars, L + 1, y)
  BY <1>1, <1>6
<1>8. y \in Seq(Chars) /\ f[1] = y \o << >> /\ SubSeq(s, 1, L) = Escaped(y)
  <2>1. L + 1 - 1 = L  BY <1>1
  <2> QED  BY <1>1, <1>7, <2>1 DEF EscapedUpTo
<1>9. f[1] = y  BY <1>8, ConcatEmptySeq
<1>10. SubSeq(s, 1, L) = s  BY SubSeqFull
<1> QED  BY <1>1, <1>8, <1>9, <1>10

(***************************************************************************)
(* Escaping is complete for texts of any length: a text whose dollars are  *)
(* all doubled comes out of the two loops with each of them once.          *)
(***************************************************************************)
THEOREM EscapingIsComplete == LoopsSpec => []EscapeRoundTrip
<1>1. LoopsInv /\ OutIsExpansion => EscapeRoundTrip
  <2> SUFFICES ASSUME LoopsInv, OutIsExpansion, loop = "done", DollarsPaired(input)
               PROVE  input = Escaped(out)
    BY DEF EscapeRoundTrip
  <2>1. input \in Seq(Chars)  BY InputFacts
  <2>2. out = Expand(Replacements, input)  BY DEF OutIsExpansion
  <2>3. input = Escaped(Expand(Replacements, input))  BY <2>1, EscapedAll
  <2> QED  BY <2>2, <2>3
<1> QED  BY <1>1, LoopsInvariant, LoopsExpand, PTL
=============================================================================
