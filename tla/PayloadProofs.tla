---------------------------- MODULE PayloadProofs ----------------------------
(***************************************************************************)
(* Documents of any size: what resolve_path finds in one, and what is left *)
(* of one from which fields are omitted.                                   *)
(*                                                                         *)
(* Every induction is one over a set: a set that holds 0 and the successor *)
(* of what it holds is all of Nat (NatIsClosed), one that holds <<>> and   *)
(* what is appended to a sequence it holds has every sequence              *)
(* (SeqIsClosed).  A recursive function is shown to exist by the first     *)
(* one, and its values are then computed step by step.                     *)
(***************************************************************************)
EXTENDS Payloads, FiniteSetTheorems, SequenceTheorems, WellFoundedInduction, TLAPS

LEMMA LeastOf ==
  ASSUME NEW S \in SUBSET Nat, S # {}
  PROVE  Min(S) \in S /\ \A i \in S : Min(S) <= i
<1>1. PICK x \in S : \A y \in S : ~(<<y, x>> \in OpToRel(<, Nat))
  BY NatLessThanWellFounded, WFMin
<1>2. ASSUME NEW y \in S PROVE x <= y
  <2>1. x \in Nat /\ y \in Nat
    OBVIOUS
  <2>2. y < x => <<y, x>> \in OpToRel(<, Nat)
    BY <2>1 DEF OpToRel
  <2>3. ~(y < x)
    BY <1>1, <2>2
  <2> QED
    BY <2>1, <2>3
<1> QED
  BY <1>2 DEF Min

LEMMA NatIsClosed ==
  ASSUME NEW S, 0 \in S, \A n \in Nat : n \in S => n + 1 \in S
  PROVE  Nat \subseteq S
<1> SUFFICES ASSUME Nat \ S # {} PROVE FALSE
  OBVIOUS
<1>1. PICK n \in Nat \ S : \A m \in Nat \ S : n <= m
  BY LeastOf
<1>2. n # 0 /\ n - 1 \in Nat /\ ~(n <= n - 1) /\ (n - 1) + 1 = n
  BY <1>1
<1>3. n - 1 \in S
  BY <1>1, <1>2
<1> QED
  BY <1>1, <1>2, <1>3

LEMMA SeqIsClosed ==
  ASSUME NEW T, NEW S, <<>> \in S, \A s \in Seq(T) : s \in S => \A x \in T : Append(s, x) \in S
  PROVE  Seq(T) \subseteq S
<1> DEFINE L == {n \in Nat : \A s \in Seq(T) : Len(s) = n => s \in S}
<1>1. 0 \in L
  BY EmptySeq
<1>2. ASSUME NEW n \in Nat, n \in L PROVE n + 1 \in L
  <2> SUFFICES ASSUME NEW s \in Seq(T), Len(s) = n + 1 PROVE s \in S
    OBVIOUS
  <2> DEFINE front == SubSeq(s, 1, n)
  <2>1. front \in Seq(T) /\ Len(front) = n /\ s[n + 1] \in T
    OBVIOUS
  <2>2. Append(front, s[n + 1]) = s
    OBVIOUS
  <2>3. front \in S
    BY <1>2, <2>1
  <2> HIDE DEF front
  <2> QED
    BY <2>1, <2>2, <2>3
<1>3. Nat \subseteq L
  <2> HIDE DEF L
  <2> QED
    BY <1>1, <1>2, NatIsClosed
<1> QED
  BY <1>3

LEMMA NotEmpty ==
  ASSUME NEW T, NEW s \in Seq(T), Len(s) # 0
  PROVE  s # <<>>
BY EmptySeq

----------------------------------------------------------------------------
(* FlattenSeq.                                                             *)
Flattens(ss, n, f) ==
  f = [i \in 1 .. n |-> IF i = 1 THEN ss[i] ELSE f[i - 1] \o ss[i]]

LEMMA FlattenExists ==
  ASSUME NEW ss
  PROVE  \A n \in Nat : \E f : Flattens(ss, n, f)
<1> DEFINE Z == {n \in Nat : \E f : Flattens(ss, n, f)}
<1>1. 0 \in Z
  <2>1. Flattens(ss, 0, [i \in 1 .. 0 |-> ss])
    BY DEF Flattens
  <2> QED
    BY <2>1
<1>2. ASSUME NEW n \in Nat, n \in Z PROVE n + 1 \in Z
  <2>1. PICK f : Flattens(ss, n, f)
    BY <1>2
  <2> DEFINE g == [i \in 1 .. n + 1 |-> IF i = 1 THEN ss[i]
                                        ELSE IF i = n + 1 THEN f[n] \o ss[i] ELSE f[i]]
  <2>2. \A i \in 1 .. n : f[i] = IF i = 1 THEN ss[i] ELSE f[i - 1] \o ss[i]
    BY <2>1 DEF Flattens
  <2>3. \A i \in 1 .. n : g[i] = f[i]
    BY <2>2
  <2>4. ASSUME NEW i \in 1 .. n + 1
        PROVE  g[i] = IF i = 1 THEN ss[i] ELSE g[i - 1] \o ss[i]
    <3>1. CASE i = 1
      BY <3>1
    <3>2. CASE i # 1 /\ i = n + 1
      <4>1. i - 1 \in 1 .. n /\ i - 1 = n
        BY <3>2
      <4>2. g[i] = f[n] \o ss[i] /\ g[i - 1] = f[n]
        BY <2>3, <3>2, <4>1
      <4> HIDE DEF g
      <4> QED
        BY <3>2, <4>2
    <3>3. CASE i # 1 /\ i # n + 1
      <4>1. i \in 1 .. n /\ i - 1 \in 1 .. n
        BY <3>3
      <4> HIDE DEF g
      <4> QED
        BY <2>2, <2>3, <3>3, <4>1
    <3> QED
      BY <3>1, <3>2, <3>3
  <2>5. Flattens(ss, n + 1, g)
    <3>1. g = [i \in 1 .. n + 1 |-> g[i]]
      OBVIOUS
    <3> HIDE DEF g
    <3> QED
      BY <2>4, <3>1 DEF Flattens
  <2> HIDE DEF g
  <2> QED
    BY <2>5
<1>3. Nat \subseteq Z
  <2> HIDE DEF Z
  <2> QED
    BY <1>1, <1>2, NatIsClosed
<1> QED
  BY <1>3

LEMMA FlattenIs ==
  ASSUME NEW T, NEW ss \in Seq(T), ss # <<>>
  PROVE  \E f : Flattens(ss, Len(ss), f) /\ FlattenSeq(ss) = f[Len(ss)]
<1> DEFINE f == CHOOSE f : Flattens(ss, Len(ss), f)
<1>1. Len(ss) \in Nat /\ Len(ss) # 0
  BY EmptySeq
<1>2. Flattens(ss, Len(ss), f)
  <2>1. \E g : Flattens(ss, Len(ss), g)
    BY <1>1, FlattenExists
  <2> QED
    BY <2>1
<1>3. FlattenSeq(ss) = f[Len(ss)]
  BY <1>1, Zenon DEF Flattens, FlattenSeq
<1> HIDE DEF f
<1> QED
  BY <1>2, <1>3

LEMMA FlattenEmpty == FlattenSeq(<<>>) = <<>>
BY DEF FlattenSeq

LEMMA FlattenAppend ==
  ASSUME NEW T, NEW ss \in Seq(Seq(T)), NEW t \in Seq(T)
  PROVE  FlattenSeq(Append(ss, t)) = FlattenSeq(ss) \o t
<1> DEFINE n    == Len(ss)
           more == Append(ss, t)
<1>1. n \in Nat /\ more \in Seq(Seq(T)) /\ Len(more) = n + 1 /\ more # <<>>
  BY AppendProperties
<1>2. more[n + 1] = t /\ \A i \in 1 .. n : more[i] = ss[i]
  BY AppendProperties
<1> HIDE DEF more
<1>3. PICK g : Flattens(more, n + 1, g) /\ FlattenSeq(more) = g[n + 1]
  BY <1>1, FlattenIs
<1>4. \A i \in 1 .. n + 1 : g[i] = IF i = 1 THEN more[i] ELSE g[i - 1] \o more[i]
  BY <1>1, <1>3 DEF Flattens
<1>5. CASE n = 0
  <2>1. ss = <<>>
    BY <1>5, EmptySeq
  <2>2. FlattenSeq(more) = t
    BY <1>2, <1>3, <1>4, <1>5
  <2> QED
    BY <2>1, <2>2, FlattenEmpty DEF more
<1>6. CASE n # 0
  <2>1. ss # <<>>
    BY <1>6
  <2>2. PICK f : Flattens(ss, n, f) /\ FlattenSeq(ss) = f[n]
    BY <2>1, FlattenIs
  <2>3. \A i \in 1 .. n : f[i] = IF i = 1 THEN ss[i] ELSE f[i - 1] \o ss[i]
    BY <2>2 DEF Flattens
  <2> DEFINE Z == {i \in Nat : i \in 1 .. n => g[i] = f[i]}
  <2>4. 0 \in Z
    OBVIOUS
  <2>5. ASSUME NEW i \in Nat, i \in Z PROVE i + 1 \in Z
    <3> SUFFICES ASSUME i + 1 \in 1 .. n PROVE g[i + 1] = f[i + 1]
      OBVIOUS
    <3>1. i + 1 \in 1 .. n + 1 /\ (i + 1) - 1 = i
      BY <1>1
    <3>2. more[i + 1] = ss[i + 1]
      BY <1>2
    <3>3. CASE i = 0
      BY <1>4, <2>3, <3>1, <3>2, <3>3
    <3>4. CASE i # 0
      <4>1. i \in 1 .. n
        BY <3>4
      <4>2. g[i] = f[i]
        BY <2>5, <4>1
      <4>3. i + 1 # 1
        BY <3>4
      <4>4. g[i + 1] = g[i] \o more[i + 1]
        BY <1>4, <3>1, <4>3
      <4>5. f[i + 1] = f[i] \o ss[i + 1]
        BY <2>3, <3>1, <4>3
      <4> QED
        BY <3>2, <4>2, <4>4, <4>5
    <3> QED
      BY <3>3, <3>4
  <2>6. Nat \subseteq Z
    <3> HIDE DEF Z
    <3> QED
      BY <2>4, <2>5, NatIsClosed
  <2>7. g[n] = f[n]
    BY <1>1, <1>6, <2>6
  <2>8. g[n + 1] = g[n] \o t
    <3>1. n + 1 \in 1 .. n + 1 /\ n + 1 # 1 /\ (n + 1) - 1 = n
      BY <1>1, <1>6
    <3> QED
      BY <1>2, <1>4, <3>1
  <2> QED
    BY <1>3, <2>2, <2>7, <2>8 DEF more
<1> QED
  BY <1>5, <1>6

(* What FlattenSeq joins, it keeps, all of it and nothing else.            *)
LEMMA FlattenType ==
  ASSUME NEW T
  PROVE  \A ss \in Seq(Seq(T)) : FlattenSeq(ss) \in Seq(T)
<1> DEFINE Z == {ss \in Seq(Seq(T)) : FlattenSeq(ss) \in Seq(T)}
<1>1. <<>> \in Z
  BY FlattenEmpty, EmptySeq
<1>2. ASSUME NEW ss \in Seq(Seq(T)), ss \in Z, NEW t \in Seq(T)
      PROVE  Append(ss, t) \in Z
  BY <1>2, FlattenAppend, AppendProperties, ConcatProperties
<1>3. Seq(Seq(T)) \subseteq Z
  <2> HIDE DEF Z
  <2> QED
    BY <1>1, <1>2, SeqIsClosed
<1> QED
  BY <1>3

LEMMA ConcatSet ==
  ASSUME NEW T, NEW s \in Seq(T), NEW t \in Seq(T)
  PROVE  ToSet(s \o t) = ToSet(s) \cup ToSet(t)
<1>1. /\ s \o t \in Seq(T) /\ Len(s \o t) = Len(s) + Len(t)
      /\ Len(s) \in Nat /\ Len(t) \in Nat
      /\ \A i \in 1 .. Len(s) + Len(t) : (s \o t)[i] = IF i <= Len(s) THEN s[i] ELSE t[i - Len(s)]
  BY ConcatProperties
<1> DEFINE st == s \o t
<1> HIDE DEF st
<1>2. DOMAIN st = 1 .. Len(s) + Len(t) /\ DOMAIN s = 1 .. Len(s) /\ DOMAIN t = 1 .. Len(t)
  BY <1>1 DEF st
<1>3. ToSet(st) \subseteq ToSet(s) \cup ToSet(t)
  BY <1>1, <1>2 DEF ToSet, st
<1>4. ToSet(s) \subseteq ToSet(st)
  BY <1>1, <1>2 DEF ToSet, st
<1>5. ToSet(t) \subseteq ToSet(st)
  <2> SUFFICES ASSUME NEW i \in 1 .. Len(t) PROVE t[i] \in ToSet(st)
    BY <1>2 DEF ToSet
  <2>1. Len(s) + i \in DOMAIN st /\ ~(Len(s) + i <= Len(s)) /\ (Len(s) + i) - Len(s) = i
    BY <1>1, <1>2
  <2>2. st[Len(s) + i] = t[i]
    BY <1>1, <1>2, <2>1 DEF st
  <2> QED
    BY <2>1, <2>2 DEF ToSet
<1> QED
  BY <1>3, <1>4, <1>5 DEF st

LEMMA AppendSet ==
  ASSUME NEW T, NEW s \in Seq(T), NEW x \in T
  PROVE  ToSet(Append(s, x)) = ToSet(s) \cup {x}
<1> DEFINE sx == Append(s, x)
<1>1. /\ sx \in Seq(T) /\ Len(sx) = Len(s) + 1 /\ Len(s) \in Nat
      /\ sx[Len(s) + 1] = x /\ \A i \in 1 .. Len(s) : sx[i] = s[i]
  BY AppendProperties
<1> HIDE DEF sx
<1>2. DOMAIN sx = 1 .. Len(s) + 1 /\ DOMAIN s = 1 .. Len(s)
  BY <1>1
<1> QED
  BY <1>1, <1>2 DEF ToSet, sx

AllOf(ss) == UNION {ToSet(ss[i]) : i \in DOMAIN ss}

LEMMA FlattenHolds ==
  ASSUME NEW T
  PROVE  \A ss \in Seq(Seq(T)) : ToSet(FlattenSeq(ss)) = AllOf(ss)
<1> DEFINE Z == {ss \in Seq(Seq(T)) : ToSet(FlattenSeq(ss)) = AllOf(ss)}
<1>1. <<>> \in Z
  BY FlattenEmpty, EmptySeq DEF ToSet, AllOf
<1>2. ASSUME NEW ss \in Seq(Seq(T)), ss \in Z, NEW t \in Seq(T)
      PROVE  Append(ss, t) \in Z
  <2> DEFINE more == Append(ss, t)
  <2>1. /\ more \in Seq(Seq(T)) /\ Len(more) = Len(ss) + 1 /\ Len(ss) \in Nat
        /\ more[Len(ss) + 1] = t /\ \A i \in 1 .. Len(ss) : more[i] = ss[i]
    BY AppendProperties
  <2>2. ToSet(FlattenSeq(more)) = ToSet(FlattenSeq(ss)) \cup ToSet(t)
    <3>1. FlattenSeq(ss) \in Seq(T) /\ FlattenSeq(more) = FlattenSeq(ss) \o t
      BY FlattenAppend, FlattenType
    <3> HIDE DEF more
    <3> QED
      BY <3>1, ConcatSet
  <2>3. DOMAIN more = DOMAIN ss \cup {Len(ss) + 1} /\ DOMAIN ss = 1 .. Len(ss)
    BY <2>1
  <2> HIDE DEF more
  <2>4. AllOf(more) = AllOf(ss) \cup ToSet(t)
    BY <2>1, <2>3 DEF AllOf
  <2> QED
    BY <1>2, <2>1, <2>2, <2>4 DEF more
<1>3. Seq(Seq(T)) \subseteq Z
  <2> HIDE DEF Z
  <2> QED
    BY <1>1, <1>2, SeqIsClosed
<1> QED
  BY <1>3

(* Pieces of at most m make a whole of at most m times their number.       *)
LEMMA FlattenLen ==
  ASSUME NEW T, NEW m \in Nat
  PROVE  \A ss \in Seq(Seq(T)) :
           (\A i \in DOMAIN ss : Len(ss[i]) <= m) => Len(FlattenSeq(ss)) <= m * Len(ss)
<1> DEFINE Z == {ss \in Seq(Seq(T)) :
                   (\A i \in DOMAIN ss : Len(ss[i]) <= m) => Len(FlattenSeq(ss)) <= m * Len(ss)}
<1>1. <<>> \in Z
  BY FlattenEmpty
<1>2. ASSUME NEW ss \in Seq(Seq(T)), ss \in Z, NEW t \in Seq(T)
      PROVE  Append(ss, t) \in Z
  <2> DEFINE more == Append(ss, t)
  <2>1. /\ more \in Seq(Seq(T)) /\ Len(more) = Len(ss) + 1 /\ Len(ss) \in Nat
        /\ more[Len(ss) + 1] = t /\ \A i \in 1 .. Len(ss) : more[i] = ss[i]
    BY AppendProperties
  <2>2. /\ Len(FlattenSeq(more)) = Len(FlattenSeq(ss)) + Len(t)
        /\ Len(FlattenSeq(ss)) \in Nat /\ Len(t) \in Nat
    BY FlattenAppend, FlattenType, ConcatProperties
  <2> HIDE DEF more
  <2>3. ASSUME \A i \in DOMAIN more : Len(more[i]) <= m
        PROVE  Len(FlattenSeq(more)) <= m * Len(more)
    <3>1. DOMAIN more = 1 .. Len(ss) + 1 /\ DOMAIN ss = 1 .. Len(ss)
      BY <2>1
    <3>2. \A i \in DOMAIN ss : Len(ss[i]) <= m
      BY <2>1, <2>3, <3>1
    <3>3. Len(t) <= m
      BY <2>1, <2>3, <3>1
    <3>4. Len(FlattenSeq(ss)) <= m * Len(ss)
      BY <1>2, <3>2
    <3>5. m * (Len(ss) + 1) = m * Len(ss) + m /\ m * Len(ss) \in Nat
      BY <2>1
    <3> QED
      BY <2>1, <2>2, <3>3, <3>4, <3>5
  <2> QED
    BY <2>1, <2>3 DEF more
<1>3. Seq(Seq(T)) \subseteq Z
  <2> HIDE DEF Z
  <2> QED
    BY <1>1, <1>2, SeqIsClosed
<1> QED
  BY <1>3

----------------------------------------------------------------------------
(* AtPlaces and Only.                                                      *)
Pieces(s, places) == [i \in DOMAIN s |-> IF i \in places THEN <<s[i]>> ELSE <<>>]

LEMMA PiecesType ==
  ASSUME NEW T, NEW s \in Seq(T), NEW P
  PROVE  /\ Pieces(s, P) \in Seq(Seq(T)) /\ Len(Pieces(s, P)) = Len(s)
         /\ AtPlaces(s, P) = FlattenSeq(Pieces(s, P))
<1>1. DOMAIN s = 1 .. Len(s) /\ Len(s) \in Nat /\ \A i \in DOMAIN s : s[i] \in T
  OBVIOUS
<1>2. \A i \in 1 .. Len(s) : Pieces(s, P)[i] \in Seq(T)
  <2> SUFFICES ASSUME NEW i \in 1 .. Len(s) PROVE Pieces(s, P)[i] \in Seq(T)
    OBVIOUS
  <2>1. <<s[i]>> \in Seq(T) /\ <<>> \in Seq(T)
    BY <1>1, EmptySeq
  <2> QED
    BY <1>1, <2>1 DEF Pieces
<1>3. Pieces(s, P) = [i \in 1 .. Len(s) |-> Pieces(s, P)[i]]
  BY <1>1 DEF Pieces
<1>4. Pieces(s, P) \in Seq(Seq(T)) /\ Len(Pieces(s, P)) = Len(s)
  <2> DEFINE all == Pieces(s, P)
  <2> HIDE DEF all
  <2>1. all = [i \in 1 .. Len(s) |-> all[i]] /\ \A i \in 1 .. Len(s) : all[i] \in Seq(T)
    BY <1>2, <1>3 DEF all
  <2> QED
    BY <1>1, <2>1 DEF all
<1> QED
  BY <1>4 DEF AtPlaces, Pieces

LEMMA AtPlacesType ==
  ASSUME NEW T, NEW s \in Seq(T), NEW P
  PROVE  AtPlaces(s, P) \in Seq(T)
BY PiecesType, FlattenType

LEMMA AtPlacesEmpty ==
  ASSUME NEW P
  PROVE  AtPlaces(<<>>, P) = <<>>
<1>1. Pieces(<<>>, P) = <<>>
  <2>1. Pieces(<<>>, P) \in Seq({}) /\ Len(Pieces(<<>>, P)) = 0
    BY PiecesType, EmptySeq
  <2> QED
    BY <2>1, EmptySeq
<1> QED
  BY <1>1, PiecesType, EmptySeq, FlattenEmpty

LEMMA AtPlacesSame ==
  ASSUME NEW s, NEW P, NEW Q, \A i \in DOMAIN s : i \in P <=> i \in Q
  PROVE  AtPlaces(s, P) = AtPlaces(s, Q)
<1>1. Pieces(s, P) = Pieces(s, Q)
  BY DEF Pieces
<1> QED
  BY <1>1 DEF AtPlaces, Pieces

LEMMA AtPlacesAppend ==
  ASSUME NEW T, NEW s \in Seq(T), NEW x \in T, NEW P
  PROVE  AtPlaces(Append(s, x), P) =
           IF Len(s) + 1 \in P THEN Append(AtPlaces(s, P), x) ELSE AtPlaces(s, P)
<1> DEFINE n    == Len(s)
           sx   == Append(s, x)
           last == IF n + 1 \in P THEN <<x>> ELSE <<>>
<1>1. /\ sx \in Seq(T) /\ Len(sx) = n + 1 /\ n \in Nat
      /\ sx[n + 1] = x /\ \A i \in 1 .. n : sx[i] = s[i]
  BY AppendProperties
<1>2. last \in Seq(T)
  BY EmptySeq
<1>3. Pieces(sx, P) = Append(Pieces(s, P), last)
  <2> DEFINE before == Pieces(s, P)
             after  == Pieces(sx, P)
  <2>1. before \in Seq(Seq(T)) /\ Len(before) = n /\ after \in Seq(Seq(T)) /\ Len(after) = n + 1
    BY <1>1, PiecesType
  <2>2. \A i \in 1 .. n : after[i] = before[i]
    <3>1. DOMAIN s = 1 .. n /\ DOMAIN sx = 1 .. n + 1
      BY <1>1
    <3> HIDE DEF sx
    <3> QED
      BY <1>1, <3>1 DEF Pieces
  <2>3. after[n + 1] = last
    <3>1. n + 1 \in DOMAIN sx
      BY <1>1
    <3> HIDE DEF sx
    <3> QED
      BY <1>1, <3>1 DEF Pieces
  <2> HIDE DEF before, after, last, sx
  <2>4. /\ Append(before, last) \in Seq(Seq(T)) /\ Len(Append(before, last)) = n + 1
        /\ Append(before, last)[n + 1] = last
        /\ \A i \in 1 .. n : Append(before, last)[i] = before[i]
    BY <1>1, <1>2, <2>1, AppendProperties
  <2>5. \A i \in 1 .. n + 1 : after[i] = Append(before, last)[i]
    BY <1>1, <2>2, <2>3, <2>4
  <2>6. after = Append(before, last)
    <3> DEFINE b == Append(before, last)
    <3> HIDE DEF b
    <3>1. b \in Seq(Seq(T)) /\ Len(b) = Len(after) /\ \A i \in 1 .. Len(after) : after[i] = b[i]
      BY <2>1, <2>4, <2>5 DEF b
    <3>2. after = b
      BY <2>1, <3>1, SeqEqual
    <3> QED
      BY <3>2 DEF b
  <2> QED
    BY <2>6 DEF before, after
<1>4. AtPlaces(sx, P) = AtPlaces(s, P) \o last
  <2>1. Pieces(s, P) \in Seq(Seq(T))
    BY PiecesType
  <2>2. FlattenSeq(Append(Pieces(s, P), last)) = FlattenSeq(Pieces(s, P)) \o last
    <3> HIDE DEF last
    <3> QED
      BY <1>2, <2>1, FlattenAppend
  <2> HIDE DEF sx, last
  <2> QED
    BY <1>1, <1>3, <2>2, PiecesType
<1>5. AtPlaces(s, P) \in Seq(T)
  BY AtPlacesType
<1> HIDE DEF sx
<1>6. CASE n + 1 \in P
  <2>1. AtPlaces(sx, P) = AtPlaces(s, P) \o <<x>>
    BY <1>4, <1>6
  <2>2. AtPlaces(s, P) \o <<x>> = Append(AtPlaces(s, P), x)
    BY <1>5, AppendIsConcat
  <2> QED
    BY <1>6, <2>1, <2>2 DEF sx
<1>7. CASE n + 1 \notin P
  <2>1. AtPlaces(sx, P) = AtPlaces(s, P) \o <<>>
    BY <1>4, <1>7
  <2> QED
    BY <1>5, <1>7, <2>1, ConcatEmptySeq DEF sx
<1> QED
  BY <1>6, <1>7 DEF sx

(* In their order, and as many of them as there are places.                *)
Ordered(s, P, place) ==
  /\ place \in [1 .. Len(AtPlaces(s, P)) -> DOMAIN s \cap P]
  /\ \A j, k \in 1 .. Len(AtPlaces(s, P)) : j < k => place[j] < place[k]
  /\ \A k \in 1 .. Len(AtPlaces(s, P)) : AtPlaces(s, P)[k] = s[place[k]]
  /\ \A i \in DOMAIN s \cap P : \E k \in 1 .. Len(AtPlaces(s, P)) : place[k] = i

LEMMA AtPlacesOrder ==
  ASSUME NEW T, NEW P
  PROVE  \A s \in Seq(T) : \E place : Ordered(s, P, place)
<1> DEFINE Z == {s \in Seq(T) : \E place : Ordered(s, P, place)}
<1>1. <<>> \in Z
  <2>1. <<>> \in Seq(T) /\ AtPlaces(<<>>, P) = <<>> /\ Len(<<>>) = 0 /\ DOMAIN <<>> = 1 .. 0
    BY AtPlacesEmpty, EmptySeq
  <2>2. Ordered(<<>>, P, [k \in 1 .. 0 |-> k])
    BY <2>1 DEF Ordered
  <2> QED
    BY <2>1, <2>2
<1>2. ASSUME NEW s \in Seq(T), s \in Z, NEW x \in T
      PROVE  Append(s, x) \in Z
  <2> DEFINE n    == Len(s)
             sx   == Append(s, x)
             now  == AtPlaces(s, P)
             then == AtPlaces(sx, P)
  <2>1. /\ sx \in Seq(T) /\ Len(sx) = n + 1 /\ n \in Nat
        /\ sx[n + 1] = x /\ \A i \in 1 .. n : sx[i] = s[i]
    BY AppendProperties
  <2>2. DOMAIN s = 1 .. n /\ DOMAIN sx = 1 .. n + 1
    BY <2>1
  <2>3. now \in Seq(T) /\ Len(now) \in Nat
    BY AtPlacesType
  <2>4. then = IF n + 1 \in P THEN Append(now, x) ELSE now
    BY AtPlacesAppend
  <2>5. PICK place : Ordered(s, P, place)
    BY <1>2
  <2>6. /\ place \in [1 .. Len(now) -> 1 .. n]
        /\ \A k \in 1 .. Len(now) : place[k] \in P
        /\ \A j, k \in 1 .. Len(now) : j < k => place[j] < place[k]
        /\ \A k \in 1 .. Len(now) : now[k] = s[place[k]]
        /\ \A i \in 1 .. n : i \in P => \E k \in 1 .. Len(now) : place[k] = i
    BY <2>2, <2>5 DEF Ordered
  <2> HIDE DEF sx, now, then, n
  <2>7. CASE n + 1 \notin P
    <3>1. then = now
      BY <2>4, <2>7
    <3>2. place \in [1 .. Len(then) -> DOMAIN sx \cap P]
      BY <2>1, <2>2, <2>6, <3>1
    <3>3. \A k \in 1 .. Len(then) : then[k] = sx[place[k]]
      BY <2>1, <2>6, <3>1
    <3>4. \A i \in DOMAIN sx \cap P : \E k \in 1 .. Len(then) : place[k] = i
      <4>1. \A i \in DOMAIN sx \cap P : i \in 1 .. n
        BY <2>1, <2>2, <2>7
      <4> QED
        BY <2>6, <3>1, <4>1
    <3>5. \A j, k \in 1 .. Len(then) : j < k => place[j] < place[k]
      BY <2>6, <3>1
    <3>6. Ordered(sx, P, place)
      BY <3>2, <3>3, <3>4, <3>5 DEF Ordered, then
    <3> QED
      BY <2>1, <3>6 DEF sx
  <2>8. CASE n + 1 \in P
    <3> DEFINE m    == Len(now)
               more == [k \in 1 .. m + 1 |-> IF k = m + 1 THEN n + 1 ELSE place[k]]
    <3>1. /\ then \in Seq(T) /\ Len(then) = m + 1 /\ then[m + 1] = x
          /\ \A k \in 1 .. m : then[k] = now[k]
      BY <2>3, <2>4, <2>8, AppendProperties
    <3>2. more[m + 1] = n + 1 /\ \A k \in 1 .. m : more[k] = place[k]
      BY <2>3
    <3>3. more \in [1 .. Len(then) -> DOMAIN sx \cap P]
      <4>1. \A k \in 1 .. m + 1 : more[k] \in DOMAIN sx \cap P
        <5>1. \A k \in 1 .. m : place[k] \in 1 .. n + 1 /\ place[k] \in P
          BY <2>1, <2>6
        <5>2. n + 1 \in 1 .. n + 1
          BY <2>1
        <5> QED
          BY <2>2, <2>3, <2>8, <5>1, <5>2
      <4> QED
        BY <3>1, <4>1
    <3> HIDE DEF more
    <3>4. ASSUME NEW j \in 1 .. m + 1, NEW k \in 1 .. m + 1, j < k
          PROVE  more[j] < more[k]
      <4>1. j \in 1 .. m
        BY <2>3, <3>4
      <4>2. CASE k = m + 1
        BY <2>1, <2>6, <3>2, <4>1, <4>2
      <4>3. CASE k # m + 1
        <5>1. k \in 1 .. m
          BY <2>3, <4>3
        <5> QED
          BY <2>6, <3>2, <3>4, <4>1, <5>1
      <4> QED
        BY <4>2, <4>3
    <3>5. ASSUME NEW k \in 1 .. m + 1
          PROVE  then[k] = sx[more[k]]
      <4>1. CASE k = m + 1
        BY <2>1, <3>1, <3>2, <4>1
      <4>2. CASE k # m + 1
        <5>1. k \in 1 .. m
          BY <2>3, <4>2
        <5>2. place[k] \in 1 .. n /\ more[k] = place[k] /\ then[k] = now[k] /\ now[k] = s[place[k]]
          BY <2>6, <3>1, <3>2, <5>1
        <5> QED
          BY <2>1, <5>2
      <4> QED
        BY <4>1, <4>2
    <3>6. ASSUME NEW i \in DOMAIN sx \cap P
          PROVE  \E k \in 1 .. m + 1 : more[k] = i
      <4>1. CASE i = n + 1
        <5>1. m + 1 \in 1 .. m + 1
          BY <2>3
        <5> QED
          BY <3>2, <4>1, <5>1
      <4>2. CASE i # n + 1
        <5>1. i \in 1 .. n /\ i \in P
          BY <2>1, <2>2, <4>2
        <5>2. PICK k \in 1 .. m : place[k] = i
          BY <2>6, <5>1
        <5>3. k \in 1 .. m + 1
          BY <2>3
        <5> QED
          BY <3>2, <5>2, <5>3
      <4> QED
        BY <4>1, <4>2
    <3>7. Ordered(sx, P, more)
      <4> HIDE DEF m
      <4> QED
        BY <3>1, <3>3, <3>4, <3>5, <3>6 DEF Ordered, then
    <3> QED
      BY <2>1, <3>7 DEF sx
  <2> QED
    BY <2>7, <2>8
<1>3. Seq(T) \subseteq Z
  <2> HIDE DEF Z
  <2> QED
    BY <1>1, <1>2, SeqIsClosed
<1> QED
  BY <1>3

LEMMA AtPlacesSet ==
  ASSUME NEW T, NEW s \in Seq(T), NEW P
  PROVE  ToSet(AtPlaces(s, P)) = {s[i] : i \in DOMAIN s \cap P}
<1> DEFINE out == AtPlaces(s, P)
<1>1. out \in Seq(T)
  BY AtPlacesType
<1>2. PICK place : Ordered(s, P, place)
  BY AtPlacesOrder
<1>3. /\ place \in [1 .. Len(out) -> DOMAIN s \cap P]
      /\ \A k \in 1 .. Len(out) : out[k] = s[place[k]]
      /\ \A i \in DOMAIN s \cap P : \E k \in 1 .. Len(out) : place[k] = i
  BY <1>2 DEF Ordered
<1> HIDE DEF out
<1>4. DOMAIN out = 1 .. Len(out)
  BY <1>1
<1>5. ToSet(out) \subseteq {s[i] : i \in DOMAIN s \cap P}
  BY <1>3, <1>4 DEF ToSet
<1>6. {s[i] : i \in DOMAIN s \cap P} \subseteq ToSet(out)
  BY <1>3, <1>4 DEF ToSet
<1> QED
  BY <1>5, <1>6 DEF out

LEMMA AtPlacesLen ==
  ASSUME NEW T, NEW P
  PROVE  \A s \in Seq(T) : Len(AtPlaces(s, P)) = Cardinality(DOMAIN s \cap P)
<1> DEFINE Z == {s \in Seq(T) : /\ IsFiniteSet(DOMAIN s \cap P)
                                /\ Len(AtPlaces(s, P)) = Cardinality(DOMAIN s \cap P)}
<1>1. <<>> \in Z
  <2>1. DOMAIN <<>> \cap P = {} /\ <<>> \in Seq(T) /\ Len(<<>>) = 0
    BY EmptySeq
  <2> QED
    BY <2>1, AtPlacesEmpty, FS_EmptySet
<1>2. ASSUME NEW s \in Seq(T), s \in Z, NEW x \in T
      PROVE  Append(s, x) \in Z
  <2> DEFINE sx == Append(s, x)
             P1 == DOMAIN s \cap P
             P2 == DOMAIN sx \cap P
  <2>1. sx \in Seq(T) /\ Len(sx) = Len(s) + 1 /\ Len(s) \in Nat
    BY AppendProperties
  <2>2. DOMAIN s = 1 .. Len(s) /\ DOMAIN sx = 1 .. Len(s) + 1
    BY <2>1
  <2>3. P2 = IF Len(s) + 1 \in P THEN P1 \cup {Len(s) + 1} ELSE P1
    BY <2>1, <2>2
  <2>4. Len(s) + 1 \notin P1
    BY <2>1, <2>2
  <2>5. /\ AtPlaces(s, P) \in Seq(T)
        /\ AtPlaces(sx, P) = IF Len(s) + 1 \in P THEN Append(AtPlaces(s, P), x) ELSE AtPlaces(s, P)
    BY AtPlacesType, AtPlacesAppend
  <2>6. IsFiniteSet(P1) /\ Len(AtPlaces(s, P)) = Cardinality(P1)
    BY <1>2
  <2> HIDE DEF sx, P1, P2
  <2>7. IsFiniteSet(P2) /\ Len(AtPlaces(sx, P)) = Cardinality(P2)
    <3>1. CASE Len(s) + 1 \notin P
      BY <2>3, <2>5, <2>6, <3>1
    <3>2. CASE Len(s) + 1 \in P
      <4>1. P2 = P1 \cup {Len(s) + 1}
        BY <2>3, <3>2
      <4>2. IsFiniteSet(P2) /\ Cardinality(P2) = Cardinality(P1) + 1
        BY <2>4, <2>6, <4>1, FS_AddElement
      <4>3. Len(AtPlaces(sx, P)) = Len(AtPlaces(s, P)) + 1
        BY <2>5, <3>2, AppendProperties
      <4> QED
        BY <2>6, <4>2, <4>3
    <3> QED
      BY <3>1, <3>2
  <2> QED
    BY <2>1, <2>7 DEF sx, P2
<1>3. Seq(T) \subseteq Z
  <2> HIDE DEF Z
  <2> QED
    BY <1>1, <1>2, SeqIsClosed
<1> QED
  BY <1>3

LEMMA OnlyType ==
  ASSUME NEW T, NEW s \in Seq(T), NEW S
  PROVE  Only(s, S) \in Seq(T)
BY AtPlacesType DEF Only

LEMMA OnlySet ==
  ASSUME NEW T, NEW s \in Seq(T), NEW S
  PROVE  ToSet(Only(s, S)) = ToSet(s) \cap S
<1> DEFINE P == {i \in DOMAIN s : s[i] \in S}
<1>1. ToSet(AtPlaces(s, P)) = {s[i] : i \in DOMAIN s \cap P}
  BY AtPlacesSet
<1>2. {s[i] : i \in DOMAIN s \cap P} = ToSet(s) \cap S
  BY DEF ToSet
<1> QED
  BY <1>1, <1>2 DEF Only

LEMMA OnlyEmpty ==
  ASSUME NEW S
  PROVE  Only(<<>>, S) = <<>>
BY AtPlacesEmpty DEF Only

LEMMA OnlyAppend ==
  ASSUME NEW T, NEW s \in Seq(T), NEW x \in T, NEW S
  PROVE  Only(Append(s, x), S) = IF x \in S THEN Append(Only(s, S), x) ELSE Only(s, S)
<1> DEFINE sx == Append(s, x)
           P  == {i \in DOMAIN s : s[i] \in S}
           Px == {i \in DOMAIN sx : sx[i] \in S}
<1>1. /\ sx \in Seq(T) /\ Len(sx) = Len(s) + 1 /\ Len(s) \in Nat
      /\ sx[Len(s) + 1] = x /\ \A i \in 1 .. Len(s) : sx[i] = s[i]
  BY AppendProperties
<1>2. DOMAIN s = 1 .. Len(s) /\ DOMAIN sx = 1 .. Len(s) + 1
  BY <1>1
<1>3. AtPlaces(s, P) = AtPlaces(s, Px)
  <2>1. \A i \in DOMAIN s : i \in P <=> i \in Px
    <3> HIDE DEF sx
    <3> QED
      BY <1>1, <1>2
  <2> HIDE DEF P, Px
  <2> QED
    BY <2>1, AtPlacesSame
<1>4. Len(s) + 1 \in Px <=> x \in S
  <2> HIDE DEF sx
  <2> QED
    BY <1>1, <1>2
<1>5. AtPlaces(sx, Px) = IF Len(s) + 1 \in Px THEN Append(AtPlaces(s, Px), x) ELSE AtPlaces(s, Px)
  <2> HIDE DEF Px
  <2> QED
    BY AtPlacesAppend
<1>6. Only(sx, S) = AtPlaces(sx, Px) /\ Only(s, S) = AtPlaces(s, P)
  BY DEF Only
<1> HIDE DEF P, Px, sx
<1> QED
  BY <1>3, <1>4, <1>5, <1>6 DEF sx

LEMMA OnlyAll ==
  ASSUME NEW T, NEW S
  PROVE  \A s \in Seq(T) : ToSet(s) \subseteq S => Only(s, S) = s
<1> DEFINE Z == {s \in Seq(T) : ToSet(s) \subseteq S => Only(s, S) = s}
<1>1. <<>> \in Z
  BY OnlyEmpty, EmptySeq
<1>2. ASSUME NEW s \in Seq(T), s \in Z, NEW x \in T
      PROVE  Append(s, x) \in Z
  <2>1. ToSet(Append(s, x)) = ToSet(s) \cup {x}
    BY AppendSet
  <2>2. Only(Append(s, x), S) = IF x \in S THEN Append(Only(s, S), x) ELSE Only(s, S)
    BY OnlyAppend
  <2>3. Append(s, x) \in Seq(T)
    BY AppendProperties
  <2> QED
    BY <1>2, <2>1, <2>2, <2>3
<1>3. Seq(T) \subseteq Z
  <2> HIDE DEF Z
  <2> QED
    BY <1>1, <1>2, SeqIsClosed
<1> QED
  BY <1>3

LEMMA OnlyOnly ==
  ASSUME NEW T, NEW S, NEW R, NEW Q, \A x \in T : x \in Q <=> x \in S /\ x \in R
  PROVE  \A s \in Seq(T) : Only(Only(s, S), R) = Only(s, Q)
<1> DEFINE Z == {s \in Seq(T) : Only(Only(s, S), R) = Only(s, Q)}
<1>1. <<>> \in Z
  BY OnlyEmpty, EmptySeq
<1>2. ASSUME NEW s \in Seq(T), s \in Z, NEW x \in T
      PROVE  Append(s, x) \in Z
  <2> DEFINE t == Only(s, S)
  <2>1. t \in Seq(T) /\ Only(t, R) = Only(s, Q) /\ Append(s, x) \in Seq(T)
    BY <1>2, OnlyType, AppendProperties
  <2>2. Only(Append(s, x), S) = IF x \in S THEN Append(t, x) ELSE t
    BY OnlyAppend
  <2>3. Only(Append(s, x), Q) = IF x \in Q THEN Append(Only(s, Q), x) ELSE Only(s, Q)
    BY OnlyAppend
  <2> HIDE DEF t
  <2>4. Only(Append(t, x), R) = IF x \in R THEN Append(Only(t, R), x) ELSE Only(t, R)
    BY <2>1, OnlyAppend
  <2>5. Only(Only(Append(s, x), S), R) = Only(Append(s, x), Q)
    <3>1. CASE x \in S
      BY <2>1, <2>2, <2>3, <2>4, <3>1
    <3>2. CASE x \notin S
      BY <2>1, <2>2, <2>3, <3>2
    <3> QED
      BY <3>1, <3>2
  <2> QED
    BY <2>1, <2>5
<1>3. Seq(T) \subseteq Z
  <2> HIDE DEF Z
  <2> QED
    BY <1>1, <1>2, SeqIsClosed
<1> QED
  BY <1>3

----------------------------------------------------------------------------
(* Addresses.                                                              *)
LEMMA PrefixIs ==
  ASSUME NEW T, NEW s \in Seq(T), NEW t \in Seq(T)
  PROVE  IsPrefix(s, t) <=> Len(s) <= Len(t) /\ \A i \in 1 .. Len(s) : s[i] = t[i]
<1>1. SubSeq(s, 1, Len(s)) = s
  OBVIOUS
<1> SUFFICES ASSUME Len(s) <= Len(t)
             PROVE  s = SubSeq(t, 1, Len(s)) <=> \A i \in 1 .. Len(s) : s[i] = t[i]
  BY <1>1 DEF IsPrefix
<1> DEFINE u == SubSeq(t, 1, Len(s))
<1>2. u \in Seq(T) /\ Len(u) = Len(s) /\ \A i \in 1 .. Len(s) : u[i] = t[i]
  OBVIOUS
<1> HIDE DEF u
<1>3. (\A i \in 1 .. Len(s) : s[i] = t[i]) => s = u
  BY <1>2, SeqEqual
<1> QED
  BY <1>2, <1>3 DEF u

LEMMA FrontLast ==
  ASSUME NEW T, NEW a \in Seq(T), a # <<>>
  PROVE  /\ Front(a) \in Seq(T) /\ Len(a) \in Nat \ {0} /\ Len(Front(a)) = Len(a) - 1
         /\ \A i \in 1 .. Len(a) - 1 : Front(a)[i] = a[i]
         /\ Last(a) \in T /\ Last(a) = a[Len(a)]
         /\ Append(Front(a), Last(a)) = a
<1>1. Len(a) \in Nat \ {0}
  BY EmptySeq
<1>2. /\ Front(a) \in Seq(T) /\ Len(Front(a)) = Len(a) - 1
      /\ \A i \in 1 .. Len(a) - 1 : Front(a)[i] = a[i]
  <2> DEFINE m == Len(a) - 1
  <2>1. m \in Nat /\ m <= Len(a)
    BY <1>1
  <2> HIDE DEF m
  <2>2. SubSeq(a, 1, m) \in Seq(T) /\ Len(SubSeq(a, 1, m)) = m
    BY <2>1
  <2>3. \A i \in 1 .. m : SubSeq(a, 1, m)[i] = a[i]
    BY <2>1
  <2> QED
    BY <2>2, <2>3 DEF Front, m
<1>3. Last(a) \in T /\ Last(a) = a[Len(a)]
  BY <1>1 DEF Last
<1> DEFINE f == Front(a)
           b == Append(f, Last(a))
<1>4. f \in Seq(T) /\ Len(f) = Len(a) - 1
  BY <1>2
<1> HIDE DEF f
<1>5. b \in Seq(T) /\ Len(b) = Len(f) + 1 /\ b[Len(f) + 1] = Last(a) /\ \A i \in 1 .. Len(f) : b[i] = f[i]
  BY <1>3, <1>4, AppendProperties
<1> HIDE DEF b
<1>6. Len(b) = Len(a)
  BY <1>1, <1>4, <1>5
<1>7. ASSUME NEW i \in 1 .. Len(a) PROVE b[i] = a[i]
  <2>1. CASE i = Len(a)
    <3>1. Len(f) + 1 = Len(a)
      BY <1>1, <1>4
    <3> QED
      BY <1>3, <1>5, <2>1, <3>1
  <2>2. CASE i # Len(a)
    <3>1. i \in 1 .. Len(a) - 1
      BY <1>1, <2>2
    <3> QED
      BY <1>2, <1>4, <1>5, <3>1 DEF f
  <2> QED
    BY <2>1, <2>2
<1>8. b = a
  BY <1>5, <1>6, <1>7, SeqEqual
<1> QED
  BY <1>1, <1>2, <1>3, <1>8 DEF b, f

LEMMA AppendFront ==
  ASSUME NEW T, NEW a \in Seq(T), NEW k \in T
  PROVE  Append(a, k) # <<>> /\ Front(Append(a, k)) = a /\ Last(Append(a, k)) = k
<1> DEFINE b == Append(a, k)
<1>1. b \in Seq(T) /\ b # <<>> /\ Len(b) = Len(a) + 1 /\ b[Len(a) + 1] = k
      /\ \A i \in 1 .. Len(a) : b[i] = a[i]
  BY AppendProperties
<1> HIDE DEF b
<1>2. /\ Front(b) \in Seq(T) /\ Len(Front(b)) = Len(b) - 1
      /\ \A i \in 1 .. Len(b) - 1 : Front(b)[i] = b[i] /\ Last(b) = b[Len(b)]
  BY <1>1, FrontLast
<1>3. Len(Front(b)) = Len(a) /\ \A i \in 1 .. Len(a) : Front(b)[i] = a[i]
  BY <1>1, <1>2
<1>4. Front(b) = a
  <2> DEFINE f == Front(b)
  <2>1. f \in Seq(T) /\ Len(f) = Len(a) /\ \A i \in 1 .. Len(f) : f[i] = a[i]
    BY <1>2, <1>3
  <2> HIDE DEF f
  <2>2. f = a
    BY <2>1, SeqEqual
  <2> QED
    BY <2>2 DEF f
<1>5. Last(b) = k
  BY <1>1, FrontLast
<1> QED
  BY <1>1, <1>4, <1>5 DEF b

----------------------------------------------------------------------------
(* What WellFormed says of an address, of a node and of its children.      *)
LEMMA NodesOf ==
  ASSUME NEW d, WellFormed(d), NEW a \in DOMAIN d
  PROVE  /\ a \in Seq(STRING)
         /\ d[a].keys \in Seq(STRING) /\ d[a].kind \in Kinds /\ d[a].text \in STRING
         /\ d[a] = Node(d[a].kind, d[a].keys, d[a].text)
         /\ \A k \in ToSet(d[a].keys) : k \in STRING /\ Append(a, k) \in DOMAIN d
         /\ a # <<>> => Front(a) \in DOMAIN d /\ Last(a) \in ToSet(d[Front(a)].keys)
<1>1. d[a] \in [kind : Kinds, keys : Seq(STRING), text : STRING]
  BY DEF WellFormed
<1>2. d[a] = Node(d[a].kind, d[a].keys, d[a].text)
  BY <1>1 DEF Node
<1>3. \A k \in ToSet(d[a].keys) : k \in STRING
  <2>1. d[a].keys \in Seq(STRING)
    BY <1>1
  <2> QED
    BY <2>1 DEF ToSet
<1> QED
  BY <1>1, <1>2, <1>3 DEF WellFormed

(* Every node on the way to one that is there is there.                    *)
LEMMA PrefixThere ==
  ASSUME NEW d, WellFormed(d), NEW a \in DOMAIN d, NEW b \in Seq(STRING), IsPrefix(b, a)
  PROVE  b \in DOMAIN d
<1> DEFINE Z == {n \in Nat : \A c \in DOMAIN d :
                   Len(c) = Len(b) + n /\ (\A i \in 1 .. Len(b) : b[i] = c[i]) => b \in DOMAIN d}
<1>1. 0 \in Z
  <2> SUFFICES ASSUME NEW c \in DOMAIN d, Len(c) = Len(b) + 0, \A i \in 1 .. Len(b) : b[i] = c[i]
               PROVE  b \in DOMAIN d
    OBVIOUS
  <2>1. c \in Seq(STRING)
    BY NodesOf
  <2>2. b = c
    BY <2>1, SeqEqual
  <2> QED
    BY <2>2
<1>2. ASSUME NEW n \in Nat, n \in Z PROVE n + 1 \in Z
  <2> SUFFICES ASSUME NEW c \in DOMAIN d, Len(c) = Len(b) + (n + 1),
                      \A i \in 1 .. Len(b) : b[i] = c[i]
               PROVE  b \in DOMAIN d
    OBVIOUS
  <2>1. c \in Seq(STRING) /\ Len(b) \in Nat
    BY NodesOf
  <2>2. c # <<>>
    BY <2>1, EmptySeq
  <2>3. Front(c) \in DOMAIN d
    BY <2>2, NodesOf
  <2>4. Len(Front(c)) = Len(c) - 1 /\ \A i \in 1 .. Len(c) - 1 : Front(c)[i] = c[i]
    BY <2>1, <2>2, FrontLast
  <2>5. Len(Front(c)) = Len(b) + n /\ \A i \in 1 .. Len(b) : b[i] = Front(c)[i]
    BY <2>1, <2>4
  <2> QED
    BY <1>2, <2>3, <2>5
<1>3. Nat \subseteq Z
  <2> HIDE DEF Z
  <2> QED
    BY <1>1, <1>2, NatIsClosed
<1>4. a \in Seq(STRING)
  BY NodesOf
<1>5. Len(b) <= Len(a) /\ \A i \in 1 .. Len(b) : b[i] = a[i]
  BY <1>4, PrefixIs
<1>6. Len(a) - Len(b) \in Nat /\ Len(a) = Len(b) + (Len(a) - Len(b))
  BY <1>4, <1>5
<1>7. Len(a) - Len(b) \in Z
  BY <1>3, <1>6
<1> QED
  BY <1>5, <1>6, <1>7

Segment == STRING \ ToSet(ElementNames)

LEMMA ChildrenAre ==
  ASSUME NEW d, WellFormed(d), NEW a \in DOMAIN d, NEW segment \in Segment
  PROVE  /\ Children(d, a, segment) \in Seq(DOMAIN d)
         /\ ToSet(Children(d, a, segment)) =
              {b \in DOMAIN d : b # <<>> /\ Front(b) = a /\ segment \in {Wildcard, Last(b)}}
<1> DEFINE keys   == d[a].keys
           wanted == {k \in ToSet(keys) : segment = Wildcard \/ (d[a].kind = "dict" /\ k = segment)}
           taken  == Only(keys, wanted)
           out    == Children(d, a, segment)
<1>1. out = [i \in DOMAIN taken |-> Append(a, taken[i])]
  BY DEF Children
<1>2. a \in Seq(STRING) /\ keys \in Seq(STRING)
  BY NodesOf
<1>3. taken \in Seq(STRING) /\ ToSet(taken) = wanted
  <2> HIDE DEF wanted, keys
  <2>1. ToSet(taken) = ToSet(keys) \cap wanted
    BY <1>2, OnlySet
  <2> QED
    BY <1>2, <2>1, OnlyType DEF wanted
<1>4. \A k \in wanted : k \in STRING /\ Append(a, k) \in DOMAIN d
  BY NodesOf
<1>5. ASSUME NEW k \in STRING
      PROVE  Append(a, k) # <<>> /\ Front(Append(a, k)) = a /\ Last(Append(a, k)) = k
  BY <1>2, AppendFront
<1> HIDE DEF taken
<1>6. DOMAIN taken = 1 .. Len(taken) /\ Len(taken) \in Nat
  BY <1>3
<1>7. \A i \in DOMAIN taken : taken[i] \in wanted
  <2> HIDE DEF wanted
  <2> QED
    BY <1>3 DEF ToSet
<1>8. out \in Seq(DOMAIN d)
  <2>1. \A i \in 1 .. Len(taken) : Append(a, taken[i]) \in DOMAIN d
    BY <1>4, <1>6, <1>7
  <2>2. out = [i \in 1 .. Len(taken) |-> Append(a, taken[i])]
    BY <1>1, <1>6
  <2> HIDE DEF out
  <2> QED
    BY <1>6, <2>1, <2>2
<1>9. ToSet(out) = {Append(a, k) : k \in wanted}
  <2>1. DOMAIN out = DOMAIN taken /\ \A i \in DOMAIN taken : out[i] = Append(a, taken[i])
    BY <1>1
  <2> HIDE DEF out, wanted
  <2> QED
    BY <1>3, <2>1 DEF ToSet
<1>10. ASSUME NEW k \in wanted
       PROVE  /\ Append(a, k) \in DOMAIN d /\ Append(a, k) # <<>> /\ Front(Append(a, k)) = a
              /\ segment \in {Wildcard, Last(Append(a, k))}
  BY <1>4, <1>5
<1>11. ASSUME NEW b \in DOMAIN d, b # <<>>, Front(b) = a, segment \in {Wildcard, Last(b)}
       PROVE  Last(b) \in wanted /\ b = Append(a, Last(b))
  <2>1. Last(b) \in ToSet(keys) /\ b \in Seq(STRING)
    BY <1>11, NodesOf
  <2>2. b = Append(a, Last(b))
    BY <1>11, <2>1, FrontLast
  <2>3. segment # Wildcard => d[a].kind = "dict"
    <3> SUFFICES ASSUME segment = Last(b), d[a].kind # "dict" PROVE FALSE
      BY <1>11
    <3>1. CASE d[a].kind = "list"
      <4>1. ToSet(keys) \subseteq ToSet(ElementNames)
        BY <3>1 DEF WellFormed
      <4> HIDE DEF keys
      <4> QED
        BY <2>1, <4>1 DEF Segment
    <3>2. CASE d[a].kind # "list"
      <4>1. keys = <<>>
        BY <3>2 DEF WellFormed
      <4>2. ToSet(<<>>) = {}
        BY EmptySeq DEF ToSet
      <4> HIDE DEF keys
      <4> QED
        BY <2>1, <4>1, <4>2
    <3> QED
      BY <3>1, <3>2
  <2> QED
    BY <1>11, <2>1, <2>2, <2>3
<1> HIDE DEF out, wanted
<1>12. ToSet(out) \subseteq {b \in DOMAIN d : b # <<>> /\ Front(b) = a /\ segment \in {Wildcard, Last(b)}}
  BY <1>9, <1>10
<1>13. {b \in DOMAIN d : b # <<>> /\ Front(b) = a /\ segment \in {Wildcard, Last(b)}} \subseteq ToSet(out)
  BY <1>9, <1>11
<1> QED
  BY <1>8, <1>12, <1>13 DEF out

LEMMA BelowAre ==
  ASSUME NEW d, WellFormed(d), NEW at \in Seq(DOMAIN d), NEW segment \in Segment
  PROVE  /\ Below(d, at, segment) \in Seq(DOMAIN d)
         /\ ToSet(Below(d, at, segment)) =
              {b \in DOMAIN d : b # <<>> /\ Front(b) \in ToSet(at) /\ segment \in {Wildcard, Last(b)}}
<1> DEFINE ss == [i \in DOMAIN at |-> Children(d, at[i], segment)]
<1>1. DOMAIN at = 1 .. Len(at) /\ Len(at) \in Nat /\ \A i \in DOMAIN at : at[i] \in DOMAIN d
  OBVIOUS
<1>2. DOMAIN ss = DOMAIN at /\ \A i \in DOMAIN at : ss[i] = Children(d, at[i], segment)
  OBVIOUS
<1>3. ss = [i \in 1 .. Len(at) |-> ss[i]]
  BY <1>1
<1>4. Below(d, at, segment) = FlattenSeq(ss)
  BY DEF Below
<1> HIDE DEF ss
<1>5. \A i \in DOMAIN at :
        /\ ss[i] \in Seq(DOMAIN d)
        /\ ToSet(ss[i]) = {b \in DOMAIN d : b # <<>> /\ Front(b) = at[i] /\ segment \in {Wildcard, Last(b)}}
  BY <1>1, <1>2, ChildrenAre
<1>6. ss \in Seq(Seq(DOMAIN d))
  BY <1>1, <1>3, <1>5
<1>7. FlattenSeq(ss) \in Seq(DOMAIN d) /\ ToSet(FlattenSeq(ss)) = AllOf(ss)
  BY <1>6, FlattenType, FlattenHolds
<1>8. AllOf(ss) = {b \in DOMAIN d : b # <<>> /\ Front(b) \in ToSet(at) /\ segment \in {Wildcard, Last(b)}}
  BY <1>2, <1>5 DEF AllOf, ToSet
<1> QED
  BY <1>4, <1>7, <1>8

----------------------------------------------------------------------------
(* resolve_path, one segment after the other.                              *)
Resolves(d, from, path, n, f) ==
  f = [i \in 0 .. n |-> IF i = 0 THEN <<from>> ELSE Below(d, f[i - 1], path[i])]

LEMMA ResolvesExists ==
  ASSUME NEW d, NEW from, NEW path
  PROVE  \A n \in Nat : \E f : Resolves(d, from, path, n, f)
<1> DEFINE Z == {n \in Nat : \E f : Resolves(d, from, path, n, f)}
<1>1. 0 \in Z
  <2>1. Resolves(d, from, path, 0, [i \in 0 .. 0 |-> <<from>>])
    BY DEF Resolves
  <2> QED
    BY <2>1
<1>2. ASSUME NEW n \in Nat, n \in Z PROVE n + 1 \in Z
  <2>1. PICK f : Resolves(d, from, path, n, f)
    BY <1>2
  <2> DEFINE g == [i \in 0 .. n + 1 |-> IF i = n + 1 THEN Below(d, f[n], path[i]) ELSE f[i]]
  <2>2. \A i \in 0 .. n : f[i] = IF i = 0 THEN <<from>> ELSE Below(d, f[i - 1], path[i])
    BY <2>1 DEF Resolves
  <2>3. \A i \in 0 .. n : g[i] = f[i]
    OBVIOUS
  <2>4. ASSUME NEW i \in 0 .. n + 1
        PROVE  g[i] = IF i = 0 THEN <<from>> ELSE Below(d, g[i - 1], path[i])
    <3>1. CASE i = n + 1
      <4>1. i - 1 = n /\ n \in 0 .. n /\ i # 0
        BY <3>1
      <4>2. g[i] = Below(d, f[n], path[i]) /\ g[i - 1] = f[n]
        BY <2>3, <3>1, <4>1
      <4> HIDE DEF g
      <4> QED
        BY <4>1, <4>2
    <3>2. CASE i # n + 1 /\ i # 0
      <4>1. i \in 0 .. n /\ i - 1 \in 0 .. n
        BY <3>2
      <4> HIDE DEF g
      <4> QED
        BY <2>2, <2>3, <3>2, <4>1
    <3>3. CASE i = 0
      BY <2>2, <2>3, <3>3
    <3> QED
      BY <3>1, <3>2, <3>3
  <2>5. Resolves(d, from, path, n + 1, g)
    <3>1. g = [i \in 0 .. n + 1 |-> g[i]]
      OBVIOUS
    <3> HIDE DEF g
    <3> QED
      BY <2>4, <3>1 DEF Resolves
  <2> HIDE DEF g
  <2> QED
    BY <2>5
<1>3. Nat \subseteq Z
  <2> HIDE DEF Z
  <2> QED
    BY <1>1, <1>2, NatIsClosed
<1> QED
  BY <1>3

LEMMA ResolveIs ==
  ASSUME NEW d, NEW from, NEW T, NEW path \in Seq(T), path # <<>>
  PROVE  \E f : Resolves(d, from, path, Len(path), f) /\ Resolve(d, from, path) = f[Len(path)]
<1> DEFINE f == CHOOSE f : Resolves(d, from, path, Len(path), f)
<1>1. Len(path) \in Nat
  OBVIOUS
<1>2. Resolves(d, from, path, Len(path), f)
  <2>1. \E g : Resolves(d, from, path, Len(path), g)
    BY <1>1, ResolvesExists
  <2> QED
    BY <2>1
<1>3. Resolve(d, from, path) = f[Len(path)]
  BY Zenon DEF Resolves, Resolve
<1> HIDE DEF f
<1> QED
  BY <1>2, <1>3

(* Where n segments of the path may have led.                              *)
Level(d, from, path, n) ==
  {b \in DOMAIN d : /\ Len(b) = Len(from) + n
                    /\ \A i \in 1 .. Len(from) : b[i] = from[i]
                    /\ \A i \in 1 .. n : path[i] \in {Wildcard, b[Len(from) + i]}}

LEMMA LevelZero ==
  ASSUME NEW d, WellFormed(d), NEW from \in DOMAIN d, NEW path
  PROVE  Level(d, from, path, 0) = {from}
<1>1. from \in Seq(STRING) /\ Len(from) \in Nat
  BY NodesOf
<1>2. ASSUME NEW b \in DOMAIN d, Len(b) = Len(from) + 0, \A i \in 1 .. Len(from) : b[i] = from[i]
      PROVE  b = from
  <2>1. b \in Seq(STRING)
    BY NodesOf
  <2> QED
    BY <1>1, <1>2, <2>1, SeqEqual
<1> QED
  BY <1>1, <1>2 DEF Level

LEMMA LevelNext ==
  ASSUME NEW d, WellFormed(d), NEW from \in DOMAIN d, NEW path, NEW n \in Nat
  PROVE  Level(d, from, path, n + 1) =
           {b \in DOMAIN d : /\ b # <<>> /\ Front(b) \in Level(d, from, path, n)
                             /\ path[n + 1] \in {Wildcard, Last(b)}}
<1>1. Len(from) \in Nat
  BY NodesOf
<1> SUFFICES ASSUME NEW b \in DOMAIN d
             PROVE  b \in Level(d, from, path, n + 1) <=>
                      /\ b # <<>> /\ Front(b) \in Level(d, from, path, n)
                      /\ path[n + 1] \in {Wildcard, Last(b)}
  BY DEF Level
<1>2. b \in Seq(STRING)
  BY NodesOf
<1>3. CASE b = <<>>
  <2>1. Len(b) = 0 /\ Len(b) # Len(from) + (n + 1)
    BY <1>1, <1>3, EmptySeq
  <2> QED
    BY <1>3, <2>1 DEF Level
<1>4. CASE b # <<>>
  <2> DEFINE f == Front(b)
             m == Len(from)
  <2>1. /\ f \in DOMAIN d /\ Len(f) = Len(b) - 1 /\ Len(b) \in Nat
        /\ \A i \in 1 .. Len(b) - 1 : f[i] = b[i]
        /\ Last(b) = b[Len(b)]
    BY <1>2, <1>4, NodesOf, FrontLast
  <2> HIDE DEF f
  <2>2. ASSUME b \in Level(d, from, path, n + 1)
        PROVE  f \in Level(d, from, path, n) /\ path[n + 1] \in {Wildcard, Last(b)}
    <3>1. /\ Len(b) = m + (n + 1)
          /\ \A i \in 1 .. m : b[i] = from[i]
          /\ \A i \in 1 .. n + 1 : path[i] \in {Wildcard, b[m + i]}
      BY <2>2 DEF Level
    <3>2. Len(f) = m + n
      BY <1>1, <2>1, <3>1
    <3>3. \A i \in 1 .. m : f[i] = from[i]
      BY <1>1, <2>1, <3>1
    <3>4. \A i \in 1 .. n : path[i] \in {Wildcard, f[m + i]}
      <4> SUFFICES ASSUME NEW i \in 1 .. n PROVE path[i] \in {Wildcard, f[m + i]}
        OBVIOUS
      <4>1. i \in 1 .. n + 1 /\ m + i \in 1 .. Len(b) - 1
        BY <1>1, <3>1
      <4>2. f[m + i] = b[m + i]
        BY <2>1, <4>1
      <4> QED
        BY <3>1, <4>1, <4>2
    <3>5. n + 1 \in 1 .. n + 1 /\ m + (n + 1) = Len(b)
      BY <3>1
    <3>6. path[n + 1] \in {Wildcard, Last(b)}
      BY <2>1, <3>1, <3>5
    <3> QED
      BY <2>1, <3>2, <3>3, <3>4, <3>6 DEF Level
  <2>3. ASSUME f \in Level(d, from, path, n), path[n + 1] \in {Wildcard, Last(b)}
        PROVE  b \in Level(d, from, path, n + 1)
    <3>1. /\ Len(f) = m + n
          /\ \A i \in 1 .. m : f[i] = from[i]
          /\ \A i \in 1 .. n : path[i] \in {Wildcard, f[m + i]}
      BY <2>3 DEF Level
    <3>2. Len(b) = m + (n + 1)
      BY <1>1, <2>1, <3>1
    <3>3. \A i \in 1 .. m : b[i] = from[i]
      <4>1. \A i \in 1 .. m : i \in 1 .. Len(b) - 1
        BY <1>1, <3>2
      <4> QED
        BY <2>1, <3>1, <4>1
    <3>4. ASSUME NEW i \in 1 .. n + 1 PROVE path[i] \in {Wildcard, b[m + i]}
      <4>1. CASE i = n + 1
        BY <2>1, <2>3, <3>2, <4>1
      <4>2. CASE i # n + 1
        <5>1. i \in 1 .. n /\ m + i \in 1 .. Len(b) - 1
          BY <1>1, <3>2, <4>2
        <5>2. f[m + i] = b[m + i]
          BY <2>1, <5>1
        <5> QED
          BY <3>1, <5>1, <5>2
      <4> QED
        BY <4>1, <4>2
    <3> QED
      BY <3>2, <3>3, <3>4 DEF Level
  <2> QED
    BY <1>4, <2>2, <2>3 DEF f
<1> QED
  BY <1>3, <1>4

LEMMA ResolveLevels ==
  ASSUME NEW d, WellFormed(d), NEW from \in DOMAIN d, NEW path \in Seq(Segment), path # <<>>
  PROVE  /\ Resolve(d, from, path) \in Seq(DOMAIN d)
         /\ ToSet(Resolve(d, from, path)) = Level(d, from, path, Len(path))
<1>1. PICK f : Resolves(d, from, path, Len(path), f) /\ Resolve(d, from, path) = f[Len(path)]
  BY ResolveIs
<1>2. Len(path) \in Nat /\ \A i \in 1 .. Len(path) : path[i] \in Segment
  OBVIOUS
<1>3. \A i \in 0 .. Len(path) : f[i] = IF i = 0 THEN <<from>> ELSE Below(d, f[i - 1], path[i])
  BY <1>1, <1>2 DEF Resolves
<1> DEFINE Z == {n \in Nat : n <= Len(path) =>
                   f[n] \in Seq(DOMAIN d) /\ ToSet(f[n]) = Level(d, from, path, n)}
<1>4. 0 \in Z
  <2>1. f[0] = <<from>>
    BY <1>2, <1>3
  <2>2. <<from>> \in Seq(DOMAIN d) /\ ToSet(<<from>>) = {from}
    BY DEF ToSet
  <2> QED
    BY <2>1, <2>2, LevelZero
<1>5. ASSUME NEW n \in Nat, n \in Z PROVE n + 1 \in Z
  <2> SUFFICES ASSUME n + 1 <= Len(path)
               PROVE  f[n + 1] \in Seq(DOMAIN d) /\ ToSet(f[n + 1]) = Level(d, from, path, n + 1)
    OBVIOUS
  <2>1. f[n] \in Seq(DOMAIN d) /\ ToSet(f[n]) = Level(d, from, path, n)
    BY <1>2, <1>5
  <2>2. n + 1 \in 0 .. Len(path) /\ n + 1 # 0 /\ (n + 1) - 1 = n /\ path[n + 1] \in Segment
    BY <1>2
  <2>3. f[n + 1] = Below(d, f[n], path[n + 1])
    BY <1>3, <2>2
  <2>4. /\ Below(d, f[n], path[n + 1]) \in Seq(DOMAIN d)
        /\ ToSet(Below(d, f[n], path[n + 1])) =
             {b \in DOMAIN d : b # <<>> /\ Front(b) \in ToSet(f[n]) /\ path[n + 1] \in {Wildcard, Last(b)}}
    <3>1. PICK at \in Seq(DOMAIN d), segment \in Segment : at = f[n] /\ segment = path[n + 1]
      BY <2>1, <2>2
    <3>2. /\ Below(d, at, segment) \in Seq(DOMAIN d)
          /\ ToSet(Below(d, at, segment)) =
               {b \in DOMAIN d : b # <<>> /\ Front(b) \in ToSet(at) /\ segment \in {Wildcard, Last(b)}}
      BY BelowAre
    <3> QED
      BY <3>1, <3>2
  <2> QED
    BY <2>1, <2>3, <2>4, LevelNext
<1>6. Nat \subseteq Z
  <2> HIDE DEF Z
  <2> QED
    BY <1>4, <1>5, NatIsClosed
<1> QED
  BY <1>1, <1>2, <1>6

(* resolve_path finds what the path leads to from a node, and no more.     *)
LEMMA ResolveFinds ==
  ASSUME NEW d, WellFormed(d), NEW from \in DOMAIN d, NEW path \in Seq(Segment)
  PROVE  /\ Resolve(d, from, path) \in Seq(DOMAIN d)
         /\ ToSet(Resolve(d, from, path)) =
              {b \in DOMAIN d : /\ IsPrefix(from, b)
                                /\ Leads(path, SubSeq(b, Len(from) + 1, Len(b)))}
<1>1. CASE path = <<>>
  <2>1. Resolve(d, from, path) = <<>>
    BY <1>1 DEF Resolve
  <2>2. <<>> \in Seq(DOMAIN d) /\ ToSet(<<>>) = {}
    BY EmptySeq DEF ToSet
  <2>3. \A b : ~Leads(path, b)
    BY <1>1 DEF Leads
  <2> QED
    BY <2>1, <2>2, <2>3
<1>2. CASE path # <<>>
  <2>1. /\ Resolve(d, from, path) \in Seq(DOMAIN d)
        /\ ToSet(Resolve(d, from, path)) = Level(d, from, path, Len(path))
    BY <1>2, ResolveLevels
  <2>2. ASSUME NEW b \in DOMAIN d
        PROVE  b \in Level(d, from, path, Len(path)) <=>
                 IsPrefix(from, b) /\ Leads(path, SubSeq(b, Len(from) + 1, Len(b)))
    <3> DEFINE m == Len(from)
               n == Len(path)
    <3>1. from \in Seq(STRING) /\ b \in Seq(STRING) /\ m \in Nat /\ n \in Nat /\ Len(b) \in Nat
      BY NodesOf
    <3>2. IsPrefix(from, b) <=> m <= Len(b) /\ \A i \in 1 .. m : from[i] = b[i]
      BY <3>1, PrefixIs
    <3> DEFINE rest == SubSeq(b, m + 1, Len(b))
    <3>3. m <= Len(b) => Len(rest) = Len(b) - m /\ \A i \in 1 .. Len(b) - m : rest[i] = b[m + i]
      <4> SUFFICES ASSUME m <= Len(b)
                   PROVE  Len(rest) = Len(b) - m /\ \A i \in 1 .. Len(b) - m : rest[i] = b[m + i]
        OBVIOUS
      <4>1. rest = [i \in 1 .. Len(b) - m |-> b[m + i]]
        <5>1. (Len(b) - (m + 1)) + 1 = Len(b) - m /\ \A i \in Int : (i + (m + 1)) - 1 = m + i
          BY <3>1
        <5> QED
          BY <3>1, <5>1
      <4> HIDE DEF rest
      <4> QED
        BY <3>1, <4>1
    <3> HIDE DEF rest
    <3>4. DOMAIN path = 1 .. n
      OBVIOUS
    <3>5. Leads(path, rest) <=>
            Len(rest) = n /\ \A i \in 1 .. n : path[i] \in {Wildcard, rest[i]}
      BY <1>2, <3>4 DEF Leads
    <3>6. ASSUME b \in Level(d, from, path, n)
          PROVE  IsPrefix(from, b) /\ Leads(path, rest)
      <4>1. /\ Len(b) = m + n
            /\ \A i \in 1 .. m : b[i] = from[i]
            /\ \A i \in 1 .. n : path[i] \in {Wildcard, b[m + i]}
        BY <3>6 DEF Level
      <4>2. m <= Len(b) /\ Len(b) - m = n
        BY <3>1, <4>1
      <4> QED
        BY <3>2, <3>3, <3>5, <4>1, <4>2
    <3>7. ASSUME IsPrefix(from, b), Leads(path, rest)
          PROVE  b \in Level(d, from, path, n)
      <4>1. m <= Len(b) /\ \A i \in 1 .. m : b[i] = from[i]
        BY <3>2, <3>7
      <4>2. Len(rest) = n /\ \A i \in 1 .. n : path[i] \in {Wildcard, rest[i]}
        BY <3>5, <3>7
      <4>3. Len(b) = m + n
        BY <3>1, <3>3, <4>1, <4>2
      <4>4. Len(b) - m = n
        BY <3>1, <4>3
      <4>5. \A i \in 1 .. n : path[i] \in {Wildcard, b[m + i]}
        BY <3>3, <4>1, <4>2, <4>4
      <4> QED
        BY <4>1, <4>3, <4>5 DEF Level
    <3> QED
      BY <3>6, <3>7 DEF rest
  <2> QED
    BY <2>1, <2>2 DEF Level
<1> QED
  BY <1>1, <1>2

LEMMA ResolveFromRoot ==
  ASSUME NEW d, WellFormed(d), NEW path \in Seq(Segment)
  PROVE  /\ Resolve(d, <<>>, path) \in Seq(DOMAIN d)
         /\ ToSet(Resolve(d, <<>>, path)) = Addressed(d, path)
<1>1. <<>> \in DOMAIN d /\ Len(<<>>) = 0
  BY EmptySeq DEF WellFormed
<1>2. ASSUME NEW b \in DOMAIN d
      PROVE  IsPrefix(<<>>, b) /\ SubSeq(b, 0 + 1, Len(b)) = b
  <2>1. b \in Seq(STRING)
    BY NodesOf
  <2>2. <<>> \in Seq(STRING) /\ Len(b) \in Nat
    BY <2>1, EmptySeq
  <2>3. IsPrefix(<<>>, b)
    <3>1. PICK root \in Seq(STRING) : root = <<>> /\ Len(root) = 0
      BY <1>1, <2>2
    <3>2. IsPrefix(root, b) <=> Len(root) <= Len(b) /\ \A i \in 1 .. Len(root) : root[i] = b[i]
      BY <2>1, PrefixIs
    <3>3. Len(root) <= Len(b) /\ \A i \in 1 .. Len(root) : root[i] = b[i]
      BY <2>2, <3>1
    <3> QED
      BY <3>1, <3>2, <3>3
  <2>4. SubSeq(b, 1, Len(b)) = b
    BY <2>1
  <2> QED
    BY <2>3, <2>4
<1>3. PICK root : root = <<>>
  OBVIOUS
<1>4. /\ Resolve(d, root, path) \in Seq(DOMAIN d)
      /\ ToSet(Resolve(d, root, path)) =
           {b \in DOMAIN d : IsPrefix(root, b) /\ Leads(path, SubSeq(b, Len(root) + 1, Len(b)))}
  BY <1>1, <1>3, ResolveFinds
<1> QED
  BY <1>1, <1>2, <1>3, <1>4 DEF Addressed

----------------------------------------------------------------------------
(* What taking nodes away leaves.                                          *)
Kept(d, V) == {a \in DOMAIN d : \A v \in V : ~IsPrefix(v, a)}

LEMMA PrefixTrans ==
  ASSUME NEW T, NEW s \in Seq(T), NEW t \in Seq(T), NEW u \in Seq(T),
         IsPrefix(s, t), IsPrefix(t, u)
  PROVE  IsPrefix(s, u)
<1>1. /\ Len(s) \in Nat /\ Len(t) \in Nat /\ Len(u) \in Nat
      /\ Len(s) <= Len(t) /\ \A i \in 1 .. Len(s) : s[i] = t[i]
      /\ Len(t) <= Len(u) /\ \A i \in 1 .. Len(t) : t[i] = u[i]
  BY PrefixIs
<1>2. Len(s) <= Len(u) /\ \A i \in 1 .. Len(s) : s[i] = u[i]
  BY <1>1
<1> QED
  BY <1>2, PrefixIs

LEMMA PrefixOfFront ==
  ASSUME NEW T, NEW a \in Seq(T), a # <<>>
  PROVE  IsPrefix(Front(a), a)
<1>1. /\ Front(a) \in Seq(T) /\ Len(a) \in Nat \ {0} /\ Len(Front(a)) = Len(a) - 1
      /\ \A i \in 1 .. Len(a) - 1 : Front(a)[i] = a[i]
  BY FrontLast
<1>2. Len(Front(a)) <= Len(a) /\ \A i \in 1 .. Len(Front(a)) : Front(a)[i] = a[i]
  BY <1>1
<1> QED
  BY <1>1, <1>2, PrefixIs

LEMMA PrefixOfEmpty ==
  ASSUME NEW T, NEW s \in Seq(T), IsPrefix(s, <<>>)
  PROVE  s = <<>>
<1>1. \A t \in Seq(T) : IsPrefix(s, t) => Len(s) \in Nat /\ Len(s) <= Len(t)
  BY PrefixIs
<1>2. <<>> \in Seq(T) /\ Len(<<>>) = 0
  BY EmptySeq
<1>3. Len(s) \in Nat /\ Len(s) <= Len(<<>>)
  BY <1>1, <1>2, Zenon
<1>4. Len(s) = 0
  BY <1>2, <1>3
<1> QED
  BY <1>4, EmptySeq

LEMMA KeptIsClosed ==
  ASSUME NEW d, WellFormed(d), NEW V \in SUBSET Seq(STRING)
  PROVE  /\ <<>> \notin V => <<>> \in Kept(d, V)
         /\ \A a \in Kept(d, V) : a # <<>> => Front(a) \in Kept(d, V)
<1>1. <<>> \in DOMAIN d /\ DOMAIN d \subseteq Seq(STRING)
  BY DEF WellFormed
<1>2. ASSUME <<>> \notin V PROVE <<>> \in Kept(d, V)
  <2>1. ASSUME NEW v \in V PROVE ~IsPrefix(v, <<>>)
    BY <1>1, <1>2, PrefixOfEmpty
  <2> QED
    BY <1>1, <2>1 DEF Kept
<1>3. ASSUME NEW a \in Kept(d, V), a # <<>> PROVE Front(a) \in Kept(d, V)
  <2>1. a \in DOMAIN d /\ a \in Seq(STRING) /\ \A v \in V : ~IsPrefix(v, a)
    BY <1>1 DEF Kept
  <2>2. Front(a) \in DOMAIN d /\ Front(a) \in Seq(STRING)
    BY <1>1, <1>3, <2>1, NodesOf
  <2>3. IsPrefix(Front(a), a)
    BY <1>3, <2>1, PrefixOfFront
  <2>4. ASSUME NEW v \in V PROVE ~IsPrefix(v, Front(a))
    <3>1. v \in Seq(STRING) /\ ~IsPrefix(v, a)
      BY <2>1
    <3> QED
      BY <2>1, <2>2, <2>3, <3>1, PrefixTrans
  <2> QED
    BY <2>2, <2>4 DEF Kept
<1> QED
  BY <1>2, <1>3

LEMMA WithinIs ==
  ASSUME NEW d, WellFormed(d), NEW a \in DOMAIN d, NEW K
  PROVE  /\ Within(d, a, K) \in [kind : Kinds, keys : Seq(STRING), text : STRING]
         /\ Within(d, a, K).kind = d[a].kind /\ Within(d, a, K).text = d[a].text
         /\ ToSet(Within(d, a, K).keys) = {k \in ToSet(d[a].keys) : Append(a, k) \in K}
         /\ d[a].keys = <<>> => Within(d, a, K).keys = <<>>
<1> DEFINE wanted == {k \in ToSet(d[a].keys) : Append(a, k) \in K}
           keys   == Only(d[a].keys, wanted)
<1>1. /\ d[a].keys \in Seq(STRING) /\ d[a].kind \in Kinds /\ d[a].text \in STRING
  BY NodesOf
<1>2. keys \in Seq(STRING) /\ ToSet(keys) = ToSet(d[a].keys) \cap wanted
  BY <1>1, OnlyType, OnlySet
<1>3. ToSet(keys) = wanted
  BY <1>2
<1>4. d[a].keys = <<>> => keys = <<>>
  BY OnlyEmpty
<1>5. Within(d, a, K) = [kind |-> d[a].kind, keys |-> keys, text |-> d[a].text]
  BY DEF Within, Node
<1> HIDE DEF keys
<1> QED
  BY <1>1, <1>2, <1>3, <1>4, <1>5

LEMMA WithoutIs ==
  ASSUME NEW d, NEW V
  PROVE  /\ DOMAIN Without(d, V) = Kept(d, V)
         /\ \A a \in Kept(d, V) : Without(d, V)[a] = Within(d, a, Kept(d, V))
BY DEF Without, Kept

(* A document without some of its nodes is a document.                     *)
LEMMA WithoutIsWellFormed ==
  ASSUME NEW d, WellFormed(d), NEW V \in SUBSET Seq(STRING), <<>> \notin V
  PROVE  WellFormed(Without(d, V))
<1> DEFINE K == Kept(d, V)
           e == Without(d, V)
<1>1. DOMAIN e = K /\ \A a \in K : e[a] = Within(d, a, K)
  BY WithoutIs
<1>2. <<>> \in K /\ \A a \in K : a # <<>> => Front(a) \in K
  BY KeptIsClosed
<1>3. K \subseteq DOMAIN d /\ DOMAIN d \subseteq Seq(STRING)
  BY DEF WellFormed, Kept
<1> HIDE DEF K, e
<1>4. ASSUME NEW a \in K
      PROVE  /\ e[a] \in [kind : Kinds, keys : Seq(STRING), text : STRING]
             /\ e[a].kind = d[a].kind
             /\ ToSet(e[a].keys) = {k \in ToSet(d[a].keys) : Append(a, k) \in K}
             /\ d[a].keys = <<>> => e[a].keys = <<>>
  <2>1. a \in DOMAIN d /\ e[a] = Within(d, a, K)
    BY <1>1, <1>3
  <2>2. /\ Within(d, a, K) \in [kind : Kinds, keys : Seq(STRING), text : STRING]
        /\ Within(d, a, K).kind = d[a].kind
        /\ ToSet(Within(d, a, K).keys) = {k \in ToSet(d[a].keys) : Append(a, k) \in K}
        /\ d[a].keys = <<>> => Within(d, a, K).keys = <<>>
    BY <2>1, WithinIs
  <2> QED
    BY <2>1, <2>2
<1>5. ASSUME NEW a \in K
      PROVE  /\ e[a].kind = "list" => ToSet(e[a].keys) \subseteq ToSet(ElementNames)
             /\ e[a].kind \notin {"dict", "list"} => e[a].keys = <<>>
             /\ \A k \in ToSet(e[a].keys) : Append(a, k) \in K
  <2>1. /\ d[a].kind = "list" => ToSet(d[a].keys) \subseteq ToSet(ElementNames)
        /\ d[a].kind \notin {"dict", "list"} => d[a].keys = <<>>
    BY <1>3 DEF WellFormed
  <2> QED
    BY <1>4, <2>1
<1>6. ASSUME NEW a \in K, a # <<>>
      PROVE  Front(a) \in K /\ Last(a) \in ToSet(e[Front(a)].keys)
  <2>1. Front(a) \in K
    BY <1>2, <1>6
  <2>2. Last(a) \in ToSet(d[Front(a)].keys)
    BY <1>3, <1>6, NodesOf
  <2>3. Append(Front(a), Last(a)) = a
    BY <1>3, <1>6, FrontLast
  <2> QED
    BY <1>4, <2>1, <2>2, <2>3
<1>7. e \in [DOMAIN e -> [kind : Kinds, keys : Seq(STRING), text : STRING]]
  <2>1. e = [a \in DOMAIN e |-> e[a]]
    BY DEF e, Without
  <2> QED
    BY <1>1, <1>4, <2>1
<1>8. WellFormed(e)
  BY <1>1, <1>2, <1>3, <1>5, <1>6, <1>7 DEF WellFormed
<1> QED
  BY <1>8 DEF e

(* Taking nothing away changes nothing.                                    *)
LEMMA WithoutNothing ==
  ASSUME NEW d, WellFormed(d), NEW V, V = {}
  PROVE  Without(d, V) = d
<1> DEFINE K == Kept(d, V)
<1>1. K = DOMAIN d
  BY DEF Kept
<1>2. DOMAIN Without(d, V) = K /\ \A a \in K : Without(d, V)[a] = Within(d, a, K)
  BY WithoutIs
<1> HIDE DEF K
<1>3. ASSUME NEW a \in DOMAIN d PROVE Within(d, a, K) = d[a]
  <2> DEFINE wanted == {k \in ToSet(d[a].keys) : Append(a, k) \in K}
  <2>1. d[a].keys \in Seq(STRING) /\ \A k \in ToSet(d[a].keys) : Append(a, k) \in DOMAIN d
    BY NodesOf
  <2>2. ToSet(d[a].keys) \subseteq wanted
    BY <1>1, <2>1
  <2> HIDE DEF wanted
  <2>3. Only(d[a].keys, wanted) = d[a].keys
    BY <2>1, <2>2, OnlyAll
  <2>4. Within(d, a, K) = Node(d[a].kind, Only(d[a].keys, wanted), d[a].text)
    BY DEF Within, wanted
  <2>5. d[a] = Node(d[a].kind, d[a].keys, d[a].text)
    BY NodesOf
  <2> QED
    BY <2>3, <2>4, <2>5
<1>4. Without(d, V) = [a \in DOMAIN Without(d, V) |-> Without(d, V)[a]]
  BY DEF Without
<1>5. d = [a \in DOMAIN d |-> d[a]]
  BY DEF WellFormed
<1> QED
  BY <1>1, <1>2, <1>3, <1>4, <1>5

(* Taking away twice is taking away all at once, where the second time     *)
(* there is to be found what the first one has left.                       *)
StillThere(d, V, W) == W \cap Kept(d, V)

LEMMA KeptTwice ==
  ASSUME NEW d, WellFormed(d), NEW V \in SUBSET Seq(STRING), NEW W \in SUBSET DOMAIN d,
         NEW Y, Y = V \cup W
  PROVE  Kept(Without(d, V), StillThere(d, V, W)) = Kept(d, Y)
<1> DEFINE K == Kept(d, V)
           e == Without(d, V)
           X == StillThere(d, V, W)
<1>1. DOMAIN e = K
  BY WithoutIs
<1>2. K \subseteq DOMAIN d /\ DOMAIN d \subseteq Seq(STRING)
  BY DEF WellFormed, Kept
<1>3. \A a \in DOMAIN d : a \in K <=> \A v \in V : ~IsPrefix(v, a)
  BY DEF Kept
<1>4. ASSUME NEW a \in K, NEW w \in W, IsPrefix(w, a)
      PROVE  w \in K
  <2>1. w \in DOMAIN d /\ w \in Seq(STRING) /\ a \in DOMAIN d /\ a \in Seq(STRING)
    BY <1>2
  <2>2. ASSUME NEW v \in V PROVE ~IsPrefix(v, w)
    <3>1. v \in Seq(STRING) /\ ~IsPrefix(v, a)
      BY <1>3, <2>1
    <3> QED
      BY <1>4, <2>1, <3>1, PrefixTrans
  <2> QED
    BY <1>3, <2>1, <2>2
<1>5. ASSUME NEW a \in DOMAIN d
      PROVE  a \in Kept(d, Y) <=> a \in K /\ \A w \in W : ~IsPrefix(w, a)
  BY <1>3 DEF Kept
<1>6. ASSUME NEW a \in K
      PROVE  a \in Kept(e, X) <=> \A w \in X : ~IsPrefix(w, a)
  BY <1>1 DEF Kept
<1>7. Kept(e, X) \subseteq K /\ Kept(d, Y) \subseteq DOMAIN d
  BY <1>1 DEF Kept
<1>8. X = W \cap K
  BY DEF StillThere
<1> HIDE DEF K, e, X
<1>9. Kept(e, X) = Kept(d, Y)
  BY <1>2, <1>4, <1>5, <1>6, <1>7, <1>8
<1> QED
  BY <1>9 DEF e, X

LEMMA WithoutTwice ==
  ASSUME NEW d, WellFormed(d), NEW V \in SUBSET Seq(STRING), <<>> \notin V,
         NEW W \in SUBSET DOMAIN d, NEW Y, Y = V \cup W
  PROVE  Without(Without(d, V), StillThere(d, V, W)) = Without(d, Y)
<1> DEFINE K    == Kept(d, V)
           L    == Kept(d, Y)
           e    == Without(d, V)
           X    == StillThere(d, V, W)
           less == Without(e, X)
           once == Without(d, Y)
<1>1. WellFormed(e) /\ DOMAIN e = K /\ \A a \in K : e[a] = Within(d, a, K)
  BY WithoutIsWellFormed, WithoutIs
<1>2. Kept(e, X) = L
  BY KeptTwice
<1>3. DOMAIN less = L /\ \A a \in L : less[a] = Within(e, a, L)
  BY <1>2, WithoutIs
<1>4. DOMAIN once = L /\ \A a \in L : once[a] = Within(d, a, L)
  BY WithoutIs
<1>5. L \subseteq K /\ K \subseteq DOMAIN d
  BY DEF Kept
<1>6. less = [a \in L |-> less[a]] /\ once = [a \in L |-> once[a]]
  BY <1>3, <1>4 DEF Without
<1> HIDE DEF K, L, e, X, less, once
<1>7. ASSUME NEW a \in L PROVE Within(e, a, L) = Within(d, a, L)
  <2> DEFINE S == {k \in ToSet(d[a].keys) : Append(a, k) \in K}
             R == {k \in ToSet(e[a].keys) : Append(a, k) \in L}
             Q == {k \in ToSet(d[a].keys) : Append(a, k) \in L}
  <2>1. a \in K /\ a \in DOMAIN d
    BY <1>5
  <2>2. e[a] = Node(d[a].kind, Only(d[a].keys, S), d[a].text)
    BY <1>1, <2>1 DEF Within
  <2>3. /\ e[a].kind = d[a].kind /\ e[a].text = d[a].text
        /\ e[a].keys = Only(d[a].keys, S)
    BY <2>2 DEF Node
  <2>4. Within(e, a, L) = Node(e[a].kind, Only(e[a].keys, R), e[a].text)
    BY DEF Within
  <2>5. Within(d, a, L) = Node(d[a].kind, Only(d[a].keys, Q), d[a].text)
    BY DEF Within
  <2>6. d[a].keys \in Seq(STRING)
    BY <2>1, NodesOf
  <2>7. ToSet(e[a].keys) = ToSet(d[a].keys) \cap S
    BY <2>3, <2>6, OnlySet
  <2>8. \A k \in STRING : k \in Q <=> k \in S /\ k \in R
    BY <1>5, <2>7
  <2> HIDE DEF S, R, Q
  <2>9. \A s \in Seq(STRING) : Only(Only(s, S), R) = Only(s, Q)
    <3>1. PICK T : T = STRING
      OBVIOUS
    <3>2. \A k \in T : k \in Q <=> k \in S /\ k \in R
      BY <2>8, <3>1
    <3>3. \A s \in Seq(T) : Only(Only(s, S), R) = Only(s, Q)
      BY <3>2, OnlyOnly
    <3> QED
      BY <3>1, <3>3
  <2> QED
    BY <2>3, <2>4, <2>5, <2>6, <2>9
<1>8. less = once
  BY <1>3, <1>4, <1>6, <1>7
<1> QED
  BY <1>8 DEF less, once, e, X

=============================================================================
