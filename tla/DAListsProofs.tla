---------------------------- MODULE DAListsProofs ----------------------------
(***************************************************************************)
(* What is picked of a list: Those(q, S) has the entries of q that are in S*)
(* in their order, and is built up as q is.                                *)
(***************************************************************************)
EXTENDS DALists, SequenceTheorems, WellFoundedInduction, TLAPS

-----------------------------------------------------------------------------
(* Induction over the natural numbers, for sets.                           *)
LEMMA NatSetInduction ==
  ASSUME NEW S, 0 \in S, \A n \in Nat : n \in S => n + 1 \in S
  PROVE  Nat \subseteq S
  <1> SUFFICES ASSUME Nat \ S # {} PROVE FALSE
    OBVIOUS
  <1> DEFINE R == OpToRel(<, Nat)
  <1>1. IsWellFoundedOn(R, Nat)
    BY NatLessThanWellFounded
  <1>2. \A m, n \in Nat : m < n => <<m, n>> \in R
    BY DEF OpToRel
  <1> HIDE DEF R
  <1>3. PICK x \in Nat \ S : \A y \in Nat \ S : <<y, x>> \notin R
    <2> DEFINE T == Nat \ S
    <2>1. T \subseteq Nat /\ T # {}
      OBVIOUS
    <2> HIDE DEF T
    <2>2. \E a \in T : \A y \in T : <<y, a>> \notin R
      BY <1>1, <2>1, WFMin
    <2> QED BY <2>2 DEF T
  <1>4. x # 0 /\ x - 1 \in Nat /\ x - 1 < x /\ (x - 1) + 1 = x
    BY <1>3
  <1>5. x - 1 \in S
    BY <1>2, <1>3, <1>4
  <1> QED BY <1>3, <1>4, <1>5

AreThose(F, q, S, n) ==
  F = [m \in 0 .. n |-> IF m = 0 THEN <<>>
                        ELSE IF q[m] \in S THEN Append(F[m - 1], q[m]) ELSE F[m - 1]]
HasThose(q, S, n) == \E F : AreThose(F, q, S, n)

LEMMA ThoseExist ==
  ASSUME NEW q, NEW S, NEW l \in Nat
  PROVE  HasThose(q, S, l)
<1> DEFINE T == {n \in Nat : HasThose(q, S, n)}
<1>1. 0 \in T
  <2> DEFINE F == [m \in 0 .. 0 |-> <<>>]
  <2>1. AreThose(F, q, S, 0)
    BY DEF AreThose
  <2> QED BY <2>1 DEF HasThose
<1>2. ASSUME NEW n \in Nat, n \in T PROVE n + 1 \in T
  <2>1. PICK F : AreThose(F, q, S, n)
    BY <1>2 DEF HasThose
  <2> DEFINE G == [m \in 0 .. n + 1 |-> IF m = n + 1
                     THEN IF q[m] \in S THEN Append(F[m - 1], q[m]) ELSE F[m - 1]
                     ELSE F[m]]
  <2>2. \A m \in 0 .. n : G[m] = F[m]
    OBVIOUS
  <2>3. G[n + 1] = IF q[n + 1] \in S THEN Append(F[n], q[n + 1]) ELSE F[n]
    OBVIOUS
  <2>4. \A m \in 0 .. n : F[m] = IF m = 0 THEN <<>>
                        ELSE IF q[m] \in S THEN Append(F[m - 1], q[m]) ELSE F[m - 1]
    BY <2>1 DEF AreThose
  <2>5. ASSUME NEW m \in 0 .. n + 1
        PROVE  G[m] = IF m = 0 THEN <<>>
                      ELSE IF q[m] \in S THEN Append(G[m - 1], q[m]) ELSE G[m - 1]
    <3>1. CASE m = 0
      BY <2>2, <2>4, <3>1
    <3>2. CASE m \in 1 .. n
      BY <2>2, <2>4, <3>2
    <3>3. CASE m = n + 1
      BY <2>2, <2>3, <3>3
    <3> QED BY <3>1, <3>2, <3>3
  <2>6. G = [m \in 0 .. n + 1 |-> G[m]]
    OBVIOUS
  <2> HIDE DEF G
  <2>7. AreThose(G, q, S, n + 1)
    BY <2>5, <2>6 DEF AreThose
  <2> QED BY <2>7 DEF HasThose
<1> HIDE DEF T
<1>3. Nat \subseteq T
  BY <1>1, <1>2, NatSetInduction
<1> QED BY <1>3 DEF T

LEMMA ThoseAreLast ==
  ASSUME NEW q, NEW S, Len(q) \in Nat
  PROVE  \E F : AreThose(F, q, S, Len(q)) /\ Those(q, S) = F[Len(q)]
<1> DEFINE F == CHOOSE G : AreThose(G, q, S, Len(q))
<1>1. AreThose(F, q, S, Len(q))
  BY ThoseExist DEF HasThose
<1>2. Those(q, S) = F[Len(q)]
  BY DEF Those, AreThose
<1> QED BY <1>1, <1>2

\* w is what of the first n entries of q is in S: f says which they are.
Picks(f, q, S, n, w) ==
  /\ \A i \in DOMAIN w : f[i] \in 1 .. n /\ w[i] = q[f[i]] /\ q[f[i]] \in S
  /\ \A i, j \in DOMAIN w : i < j => f[i] < f[j]
  /\ \A m \in 1 .. n : q[m] \in S => \E i \in DOMAIN w : f[i] = m
Picked(T, q, S, n, w) == w \in Seq(T) /\ \E f : Picks(f, q, S, n, w)

LEMMA PickedNone ==
  ASSUME NEW T, NEW q, NEW S
  PROVE  Picked(T, q, S, 0, <<>>)
<1> DEFINE f == [i \in {} |-> 0]
<1>1. Picks(f, q, S, 0, <<>>)
  BY DEF Picks
<1> QED
  BY <1>1 DEF Picked

LEMMA PickedNext ==
  ASSUME NEW T, NEW q \in Seq(T), NEW S, NEW n \in Nat, n + 1 \in DOMAIN q,
         NEW w, Picked(T, q, S, n, w)
  PROVE  Picked(T, q, S, n + 1, IF q[n + 1] \in S THEN Append(w, q[n + 1]) ELSE w)
<1>1. PICK f : Picks(f, q, S, n, w)
  BY DEF Picked
<1>2. w \in Seq(T) /\ q[n + 1] \in T
  BY DEF Picked
<1>3. CASE q[n + 1] \notin S
  <2>1. \A m \in 1 .. n + 1 : q[m] \in S => m \in 1 .. n
    BY <1>3
  <2>2. Picks(f, q, S, n + 1, w)
    BY <1>1, <2>1 DEF Picks
  <2> QED BY <1>2, <1>3, <2>2 DEF Picked
<1>4. CASE q[n + 1] \in S
  <2> DEFINE v == Append(w, q[n + 1])
             g == [i \in DOMAIN v |-> IF i \in DOMAIN w THEN f[i] ELSE n + 1]
  <2>1. v \in Seq(T) /\ DOMAIN v = DOMAIN w \cup {Len(w) + 1} /\ Len(w) + 1 \notin DOMAIN w
        /\ \A i \in DOMAIN w : i \in Nat /\ i < Len(w) + 1
    BY <1>2
  <2>2. v[Len(w) + 1] = q[n + 1] /\ \A i \in DOMAIN w : v[i] = w[i]
    BY <1>2
  <2> HIDE DEF v
  <2>4. g[Len(w) + 1] = n + 1 /\ \A i \in DOMAIN w : g[i] = f[i] /\ f[i] \in 1 .. n
    BY <1>1, <2>1 DEF Picks
  <2> HIDE DEF g
  <2>5. \A i \in DOMAIN v : g[i] \in 1 .. n + 1 /\ v[i] = q[g[i]] /\ q[g[i]] \in S
    BY <1>1, <1>4, <2>1, <2>2, <2>4 DEF Picks
  <2>6. \A i, j \in DOMAIN v : i < j => g[i] < g[j]
    <3>1. ASSUME NEW i \in DOMAIN v, NEW j \in DOMAIN v, i < j PROVE g[i] < g[j]
      <4>1. i \in DOMAIN w
        BY <1>2, <2>1, <3>1
      <4>2. CASE j \in DOMAIN w
        BY <1>1, <2>4, <3>1, <4>1, <4>2 DEF Picks
      <4>3. CASE j = Len(w) + 1
        BY <2>4, <4>1, <4>3
      <4> QED BY <2>1, <4>2, <4>3
    <3> QED BY <3>1
  <2>7. \A m \in 1 .. n + 1 : q[m] \in S => \E i \in DOMAIN v : g[i] = m
    <3>1. \A m \in 1 .. n + 1 : m \in 1 .. n \/ m = n + 1
      OBVIOUS
    <3> QED BY <3>1, <1>1, <2>1, <2>4 DEF Picks
  <2>8. Picks(g, q, S, n + 1, v)
    BY <2>5, <2>6, <2>7 DEF Picks
  <2> QED BY <1>4, <2>1, <2>8 DEF v, Picked
<1> QED
  BY <1>3, <1>4

LEMMA ThosePicked ==
  ASSUME NEW T, NEW q \in Seq(T), NEW S
  PROVE  Picked(T, q, S, Len(q), Those(q, S))
<1>1. PICK F : AreThose(F, q, S, Len(q)) /\ Those(q, S) = F[Len(q)]
  BY ThoseAreLast
<1> DEFINE U == {n \in Nat : n <= Len(q) => Picked(T, q, S, n, F[n])}
<1>2. \A m \in 0 .. Len(q) :
        F[m] = IF m = 0 THEN <<>>
               ELSE IF q[m] \in S THEN Append(F[m - 1], q[m]) ELSE F[m - 1]
  BY <1>1 DEF AreThose
<1>3. 0 \in U
  BY <1>2, PickedNone
<1>4. ASSUME NEW n \in Nat, n \in U PROVE n + 1 \in U
  <2> SUFFICES ASSUME n + 1 <= Len(q) PROVE Picked(T, q, S, n + 1, F[n + 1])
    OBVIOUS
  <2>1. Picked(T, q, S, n, F[n])
    BY <1>4
  <2>2. F[n + 1] = IF q[n + 1] \in S THEN Append(F[n], q[n + 1]) ELSE F[n]
    BY <1>2
  <2>3. n + 1 \in DOMAIN q
    OBVIOUS
  <2> QED BY <2>1, <2>2, <2>3, PickedNext
<1> HIDE DEF U
<1>5. Nat \subseteq U
  BY <1>3, <1>4, NatSetInduction
<1> QED
  BY <1>1, <1>5 DEF U

(* What is picked is what is in the set, and keeps its order.              *)
Entries(q) == {q[i] : i \in DOMAIN q}
Rising(q) == \A i, j \in DOMAIN q : i < j => q[i] < q[j]

LEMMA ThoseFacts ==
  ASSUME NEW T, NEW q \in Seq(T), NEW S
  PROVE  /\ Those(q, S) \in Seq(T)
         /\ Entries(Those(q, S)) = Entries(q) \cap S
         /\ T \subseteq Nat /\ Rising(q) => Rising(Those(q, S))
<1> DEFINE w == Those(q, S)
<1>1. PICK f : Picks(f, q, S, Len(q), w)
  BY ThosePicked DEF Picked
<1>2. w \in Seq(T)
  BY ThosePicked DEF Picked
<1> HIDE DEF w
<1>3. DOMAIN q = 1 .. Len(q)
  OBVIOUS
<1>4. Entries(w) = Entries(q) \cap S
  BY <1>1, <1>3 DEF Picks, Entries
<1>5. T \subseteq Nat /\ Rising(q) => Rising(w)
  BY <1>1, <1>3 DEF Picks, Rising
<1> QED BY <1>2, <1>4, <1>5 DEF w

-----------------------------------------------------------------------------
(* What is picked when the list is built up.                               *)

(* Induction over sequences, for sets.                                     *)
LEMMA SeqSetInduction ==
  ASSUME NEW T, NEW U, <<>> \in U,
         \A q \in Seq(T) : q \in U => \A e \in T : Append(q, e) \in U
  PROVE  Seq(T) \subseteq U
<1> DEFINE N == {n \in Nat : \A q \in Seq(T) : Len(q) = n => q \in U}
<1>1. 0 \in N
  <2>1. \A q \in Seq(T) : Len(q) = 0 => q = <<>>
    OBVIOUS
  <2> QED BY <2>1
<1>2. ASSUME NEW n \in Nat, n \in N PROVE n + 1 \in N
  <2> SUFFICES ASSUME NEW q \in Seq(T), Len(q) = n + 1 PROVE q \in U
    OBVIOUS
  <2>1. PICK r : r = SubSeq(q, 1, n)
    OBVIOUS
  <2>2. PICK e \in T : e = q[n + 1]
    OBVIOUS
  <2>3. r \in Seq(T) /\ Len(r) = n /\ \A i \in 1 .. n : r[i] = q[i]
    BY <2>1
  <2>4. q = Append(r, e)
    BY <2>2, <2>3
  <2>5. r \in U
    BY <1>2, <2>3
  <2> QED BY <2>3, <2>4, <2>5
<1> HIDE DEF N
<1>3. Nat \subseteq N
  BY <1>1, <1>2, NatSetInduction
<1>4. \A q \in Seq(T) : Len(q) \in Nat
  OBVIOUS
<1> QED BY <1>3, <1>4 DEF N

LEMMA ThoseEmpty ==
  ASSUME NEW S PROVE Those(<<>>, S) = <<>>
<1>1. Len(<<>>) = 0
  OBVIOUS
<1>2. PICK F : AreThose(F, <<>>, S, 0) /\ Those(<<>>, S) = F[0]
  BY <1>1, ThoseAreLast
<1> QED BY <1>2 DEF AreThose

LEMMA ThoseNext ==
  ASSUME NEW T, NEW q \in Seq(T), NEW e \in T, NEW S
  PROVE  Those(Append(q, e), S) = IF e \in S THEN Append(Those(q, S), e) ELSE Those(q, S)
<1>0. PICK p : p = Append(q, e)
  OBVIOUS
<1>1. PICK l \in Nat : l = Len(q)
  OBVIOUS
<1>2. Len(p) = l + 1 /\ p[l + 1] = e /\ \A m \in 1 .. l : p[m] = q[m]
  BY <1>0, <1>1
<1>3. PICK F : AreThose(F, p, S, l + 1) /\ Those(p, S) = F[l + 1]
  BY <1>2, ThoseAreLast
<1>4. PICK G : AreThose(G, q, S, l) /\ Those(q, S) = G[l]
  BY <1>1, ThoseAreLast
<1>5. \A m \in 0 .. l + 1 :
        F[m] = IF m = 0 THEN <<>>
               ELSE IF p[m] \in S THEN Append(F[m - 1], p[m]) ELSE F[m - 1]
  BY <1>3 DEF AreThose
<1>6. \A m \in 0 .. l :
        G[m] = IF m = 0 THEN <<>>
               ELSE IF q[m] \in S THEN Append(G[m - 1], q[m]) ELSE G[m - 1]
  BY <1>4 DEF AreThose
<1> DEFINE U == {n \in Nat : n <= l => F[n] = G[n]}
<1>7. 0 \in U
  BY <1>5, <1>6
<1>8. ASSUME NEW n \in Nat, n \in U PROVE n + 1 \in U
  <2> SUFFICES ASSUME n + 1 <= l PROVE F[n + 1] = G[n + 1]
    OBVIOUS
  <2>1. F[n] = G[n] /\ n + 1 \in 1 .. l /\ p[n + 1] = q[n + 1]
    BY <1>2, <1>8
  <2>2. F[n + 1] = IF p[n + 1] \in S THEN Append(F[n], p[n + 1]) ELSE F[n]
    BY <1>5, <2>1
  <2>3. G[n + 1] = IF q[n + 1] \in S THEN Append(G[n], q[n + 1]) ELSE G[n]
    BY <1>6, <2>1
  <2> QED BY <2>1, <2>2, <2>3
<1> HIDE DEF U
<1>9. F[l] = G[l]
  <2>1. l \in U
    BY <1>7, <1>8, NatSetInduction
  <2> QED BY <2>1 DEF U
<1>10. F[l + 1] = IF e \in S THEN Append(F[l], e) ELSE F[l]
  BY <1>2, <1>5
<1> QED BY <1>0, <1>3, <1>4, <1>9, <1>10

LEMMA ThoseJoined ==
  ASSUME NEW T, NEW p \in Seq(T), NEW q \in Seq(T), NEW S
  PROVE  Those(p \o q, S) = Those(p, S) \o Those(q, S)
<1> DEFINE U == {r \in Seq(T) : Those(p \o r, S) = Those(p, S) \o Those(r, S)}
<1>1. <<>> \in U
  <2>1. p \o <<>> = p
    OBVIOUS
  <2>2. Those(p, S) \o <<>> = Those(p, S)
    BY ThoseFacts
  <2>3. Those(p \o <<>>, S) = Those(p, S) \o Those(<<>>, S)
    BY <2>1, <2>2, ThoseEmpty, Zenon
  <2>4. <<>> \in Seq(T)
    OBVIOUS
  <2> QED BY <2>3, <2>4, Zenon
<1>2. ASSUME NEW r \in Seq(T), r \in U, NEW e \in T PROVE Append(r, e) \in U
  <2>1. PICK v \in Seq(T) : v = Those(p, S)
    BY ThoseFacts
  <2>2. PICK w \in Seq(T) : w = Those(r, S)
    BY ThoseFacts
  <2>3. PICK x : x = p \o r
    OBVIOUS
  <2>10. x \in Seq(T)
    BY <2>3
  <2>4. Append(r, e) \in Seq(T) /\ p \o Append(r, e) = Append(x, e)
    BY <2>3
  <2>5. v \o Append(w, e) = Append(v \o w, e)
    OBVIOUS
  <2>6. Those(x, S) = v \o w
    BY <1>2, <2>1, <2>2, <2>3
  <2>7. Those(Append(x, e), S) = IF e \in S THEN Append(Those(x, S), e) ELSE Those(x, S)
    BY <2>10, ThoseNext
  <2>8. Those(Append(r, e), S) = IF e \in S THEN Append(w, e) ELSE w
    BY <2>2, ThoseNext
  <2>9. Those(p \o Append(r, e), S) = v \o Those(Append(r, e), S)
    BY <2>4, <2>5, <2>6, <2>7, <2>8
  <2> QED BY <2>1, <2>4, <2>9
<1> HIDE DEF U
<1>3. Seq(T) \subseteq U
  BY <1>1, <1>2, SeqSetInduction
<1> QED BY <1>3 DEF U

LEMMA NoEntries == Entries(<<>>) = {}
<1>1. <<>> \in Seq({}) /\ Len(<<>>) = 0
  BY EmptySeq
<1>2. DOMAIN <<>> = 1 .. 0
  BY <1>1, LenProperties
<1> QED BY <1>2 DEF Entries

LEMMA ThoseAll ==
  ASSUME NEW T, NEW q \in Seq(T), NEW S, Entries(q) \subseteq S
  PROVE  Those(q, S) = q
<1> DEFINE U == {r \in Seq(T) : Entries(r) \subseteq S => Those(r, S) = r}
<1>1. <<>> \in U
  BY ThoseEmpty
<1>2. ASSUME NEW r \in Seq(T), r \in U, NEW e \in T PROVE Append(r, e) \in U
  <2>1. PICK x : x = Append(r, e)
    OBVIOUS
  <2>6. x \in Seq(T)
    BY <2>1
  <2>2. /\ DOMAIN x = 1 .. Len(r) + 1 /\ DOMAIN r = 1 .. Len(r) /\ Len(r) \in Nat
        /\ x[Len(r) + 1] = e /\ \A i \in 1 .. Len(r) : x[i] = r[i]
    BY <2>1
  <2>3. e \in Entries(x) /\ Entries(r) \subseteq Entries(x)
    BY <2>2 DEF Entries
  <2>4. Those(x, S) = IF e \in S THEN Append(Those(r, S), e) ELSE Those(r, S)
    BY <2>1, ThoseNext
  <2>5. Entries(x) \subseteq S => Those(x, S) = x
    BY <1>2, <2>1, <2>3, <2>4
  <2> QED BY <2>1, <2>5, <2>6
<1> HIDE DEF U
<1>3. Seq(T) \subseteq U
  BY <1>1, <1>2, SeqSetInduction
<1> QED BY <1>3 DEF U

LEMMA ThoseNone ==
  ASSUME NEW T, NEW q \in Seq(T), NEW S, Entries(q) \cap S = {}
  PROVE  Those(q, S) = <<>>
<1>1. PICK w \in Seq(T) : w = Those(q, S)
  BY ThoseFacts
<1>2. Entries(w) = {}
  BY <1>1, ThoseFacts
<1>3. DOMAIN w = {}
  BY <1>2 DEF Entries
<1>4. DOMAIN w = 1 .. Len(w) /\ Len(w) \in Nat
  OBVIOUS
<1>5. Len(w) = 0
  BY <1>3, <1>4
<1>6. w = <<>>
  BY <1>5
<1> QED BY <1>1, <1>6

LEMMA ThreeJoined ==
  ASSUME NEW T, NEW t \in Seq(T), NEW v \in Seq(T), NEW w \in Seq(T)
  PROVE  (t \o v) \o w = t \o (v \o w)
  OBVIOUS

\* What is picked of two lists in turn follows what was there.
Follows(t, p, r, S) == (t \o Those(p, S)) \o Those(r, S) = t \o Those(p \o r, S)

LEMMA ThoseFollow ==
  ASSUME NEW T, NEW t \in Seq(T), NEW p \in Seq(T), NEW r \in Seq(T), NEW S
  PROVE  Follows(t, p, r, S)
<1>1. PICK v \in Seq(T) : v = Those(p, S)
  BY ThoseFacts
<1>2. PICK w \in Seq(T) : w = Those(r, S)
  BY ThoseFacts
<1>3. Those(p \o r, S) = Those(p, S) \o Those(r, S)
  BY ThoseJoined, SMTT(30)
<1>4. (t \o v) \o w = t \o (v \o w)
  BY ThreeJoined, SMTT(30)
<1> QED BY <1>1, <1>2, <1>3, <1>4, Zenon DEF Follows

LEMMA ThoseOfThose ==
  ASSUME NEW T, NEW q \in Seq(T), NEW S, NEW R
  PROVE  Those(Those(q, S), R) = Those(q, S \cap R)
<1> DEFINE U == {r \in Seq(T) : Those(Those(r, S), R) = Those(r, S \cap R)}
<1>1. <<>> \in U
  <2>1. <<>> \in Seq(T)
    BY EmptySeq
  <2>2. Those(<<>>, S) = <<>> /\ Those(<<>>, R) = <<>> /\ Those(<<>>, S \cap R) = <<>>
    BY ThoseEmpty
  <2> QED BY <2>1, <2>2
<1>2. ASSUME NEW r \in Seq(T), r \in U, NEW e \in T PROVE Append(r, e) \in U
  <2>1. PICK w \in Seq(T) : w = Those(r, S)
    BY ThoseFacts
  <2>2. Append(r, e) \in Seq(T)
    BY AppendProperties
  <2>3. Those(Append(r, e), S) = IF e \in S THEN Append(w, e) ELSE w
    BY <2>1, ThoseNext
  <2>4. Those(Append(w, e), R) = IF e \in R THEN Append(Those(w, R), e) ELSE Those(w, R)
    BY ThoseNext
  <2>5. Those(Append(r, e), S \cap R) =
          IF e \in S \cap R THEN Append(Those(r, S \cap R), e) ELSE Those(r, S \cap R)
    BY ThoseNext
  <2>6. Those(w, R) = Those(r, S \cap R)
    BY <1>2, <2>1
  <2>7. Those(Those(Append(r, e), S), R) = Those(Append(r, e), S \cap R)
    <3>1. CASE e \in S
      <4>1. Those(Append(r, e), S) = Append(w, e)
        BY <2>3, <3>1, Zenon
      <4>2. e \in R <=> e \in S \cap R
        BY <3>1
      <4> QED BY <2>4, <2>5, <2>6, <4>1, <4>2, Zenon
    <3>2. CASE e \notin S
      <4>1. Those(Append(r, e), S) = w
        BY <2>3, <3>2, Zenon
      <4>2. e \notin S \cap R
        BY <3>2
      <4> QED BY <2>5, <2>6, <4>1, <4>2, Zenon
    <3> QED BY <3>1, <3>2
  <2> QED BY <2>2, <2>7, Zenon
<1> HIDE DEF U
<1>3. Seq(T) \subseteq U
  BY <1>1, <1>2, SeqSetInduction
<1> QED BY <1>3 DEF U
=============================================================================
