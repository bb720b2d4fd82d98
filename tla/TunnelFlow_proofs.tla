--------------------------- MODULE TunnelFlow_proofs ---------------------------
(***************************************************************************)
(* Theorems about TunnelFlow, for any windows, frame sizes, buffer lengths *)
(* and amounts of data.                                                    *)
(*                                                                         *)
(* The properties compare sums over queues.  What a sum over a sequence is *)
(* after an Append or a Tail needs induction, and the induction theorems   *)
(* of the library take an operator that no installed prover instantiates.  *)
(* WFMin takes a set: a statement that fails for some number fails for a   *)
(* least one.                                                              *)
(***************************************************************************)
EXTENDS TunnelFlow, WellFoundedInduction, TLAPS

-----------------------------------------------------------------------------
(* Sums of sequences.                                                      *)

\* Every set of numbers that is not empty has a least element.
LEMMA LeastNumber ==
  ASSUME NEW T, T \subseteq Nat, T # {}
  PROVE  \E m \in T : \A k \in T : m <= k
<1> DEFINE Below == {ss \in Nat \X Nat : ss[1] < ss[2]}
<1>1. OpToRel(<, Nat) = Below
  BY Zenon DEF OpToRel
<1>2. IsWellFoundedOn(Below, Nat)
  BY <1>1, NatLessThanWellFounded, Zenon
<1> HIDE DEF Below
<1>3. \E m \in T : \A k \in T : <<k, m>> \notin Below
  BY <1>2, WFMin, Zenon
<1>4. \A k, m \in Nat : k < m => <<k, m>> \in Below
  BY DEF Below
<1>5. PICK m \in T : \A k \in T : <<k, m>> \notin Below
  BY <1>3
<1>6. \A k \in T : ~(k < m)
  BY <1>4, <1>5
<1> QED
  BY <1>6

\* Induction over the numbers up to n, for a set G of numbers.
LEMMA Induction ==
  ASSUME NEW n \in Nat, NEW G, 0 \in G,
         \A i \in 1 .. n : i - 1 \in G => i \in G
  PROVE  0 .. n \subseteq G
<1> SUFFICES ASSUME ~(0 .. n \subseteq G) PROVE FALSE
  OBVIOUS
<1> DEFINE Bad == {i \in 0 .. n : i \notin G}
<1>1. Bad \subseteq Nat /\ Bad # {}
  OBVIOUS
<1>2. PICK m \in Bad : \A k \in Bad : m <= k
  BY <1>1, LeastNumber
<1>3. m \in 1 .. n /\ m - 1 \in 0 .. n /\ m - 1 \notin Bad
  BY <1>2
<1> QED
  BY <1>2, <1>3

\* g is the running sum of w.
Sums(g, w) ==
  /\ g \in [0 .. Len(w) -> Nat]
  /\ g[0] = 0
  /\ \A i \in 1 .. Len(w) : g[i] = g[i - 1] + w[i]

LEMMA SumsExist ==
  ASSUME NEW w \in Seq(Nat)
  PROVE  \E g : Sums(g, w)
<1> DEFINE n == Len(w)
           Upto(k, g) == /\ g \in [0 .. k -> Nat]
                         /\ g[0] = 0
                         /\ \A i \in 1 .. k : g[i] = g[i - 1] + w[i]
           G == {k \in 0 .. n : \E g : Upto(k, g)}
<1>1. n \in Nat /\ \A i \in 1 .. n : w[i] \in Nat
  OBVIOUS
<1>2. 0 \in G
  <2> DEFINE z == [i \in 0 .. 0 |-> 0]
  <2>1. Upto(0, z)
    OBVIOUS
  <2> HIDE DEF z
  <2> QED
    BY <1>1, <2>1
<1>3. ASSUME NEW k \in 1 .. n, k - 1 \in G PROVE k \in G
  <2>1. PICK g : Upto(k - 1, g)
    BY <1>3
  <2> DEFINE h == [i \in 0 .. k |-> IF i = k THEN g[k - 1] + w[k] ELSE g[i]]
  <2>2. g[k - 1] \in Nat /\ w[k] \in Nat
    BY <1>1, <2>1
  <2>3. h \in [0 .. k -> Nat]
    BY <2>1, <2>2
  <2>4. h[0] = 0
    BY <2>1
  <2>5. ASSUME NEW i \in 1 .. k PROVE h[i] = h[i - 1] + w[i]
    <3>1. CASE i = k
      BY <3>1
    <3>2. CASE i # k
      <4>1. i \in 1 .. k - 1 /\ i - 1 \in 0 .. k - 1 /\ i - 1 # k
        BY <3>2
      <4>2. h[i] = g[i] /\ h[i - 1] = g[i - 1]
        BY <3>2, <4>1
      <4> QED
        BY <2>1, <4>1, <4>2
    <3> QED
      BY <3>1, <3>2
  <2>6. Upto(k, h)
    BY <2>3, <2>4, <2>5
  <2> HIDE DEF h, Upto
  <2> QED
    BY <2>6
<1> HIDE DEF G
<1>4. 0 .. n \subseteq G
  BY <1>1, <1>2, <1>3, Induction
<1>5. n \in G
  BY <1>1, <1>4
<1> QED
  BY <1>5 DEF G, Sums

\* Two running sums agree as far as their sequences do.
LEMMA SumsAgree ==
  ASSUME NEW v \in Seq(Nat), NEW w \in Seq(Nat), NEW g, NEW h, Sums(g, v), Sums(h, w),
         NEW n \in Nat, n <= Len(v), n <= Len(w), \A i \in 1 .. n : v[i] = w[i]
  PROVE  \A i \in 0 .. n : g[i] = h[i]
<1> DEFINE G == {i \in 0 .. n : g[i] = h[i]}
<1>1. 0 \in G
  BY DEF Sums
<1>2. ASSUME NEW i \in 1 .. n, i - 1 \in G PROVE i \in G
  <2>1. i \in 1 .. Len(v) /\ i \in 1 .. Len(w)
    OBVIOUS
  <2> QED
    BY <1>2, <2>1 DEF Sums
<1> HIDE DEF G
<1>3. 0 .. n \subseteq G
  BY <1>1, <1>2, Induction
<1> QED
  BY <1>3 DEF G

LEMMA SumsFacts ==
  ASSUME NEW w \in Seq(Nat), NEW g, Sums(g, w)
  PROVE  /\ Len(w) \in Nat
         /\ g[0] = 0
         /\ \A i \in 0 .. Len(w) : g[i] \in Nat
         /\ \A i \in 1 .. Len(w) : w[i] \in Nat /\ g[i] = g[i - 1] + w[i]
<1>1. \A i \in 1 .. Len(w) : w[i] \in Nat
  OBVIOUS
<1> QED
  BY <1>1 DEF Sums

\* Total is where the running sum ends.
LEMMA TotalIs ==
  ASSUME NEW w \in Seq(Nat), NEW g, Sums(g, w)
  PROVE  Total(w) = g[Len(w)] /\ Total(w) \in Nat
<1> DEFINE Rec(f) == f = [i \in 0 .. Len(w) |-> IF i = 0 THEN 0 ELSE f[i - 1] + w[i]]
<1>1. Total(w) = (CHOOSE f : Rec(f))[Len(w)]
  BY DEF Total
<1>2. Rec(g)
  <2>1. \A i \in 0 .. Len(w) : g[i] = IF i = 0 THEN 0 ELSE g[i - 1] + w[i]
    BY DEF Sums
  <2>2. g = [i \in 0 .. Len(w) |-> g[i]]
    BY DEF Sums
  <2> QED
    BY <2>1, <2>2
<1> DEFINE f == CHOOSE x : Rec(x)
<1>3. Rec(f)
  BY <1>2
<1> HIDE DEF f
<1>4. \A i \in 0 .. Len(w) : f[i] = IF i = 0 THEN 0 ELSE f[i - 1] + w[i]
  BY <1>3
<1> HIDE DEF Rec
<1>5. PICK n \in Nat : n = Len(w)
  BY SumsFacts
<1> DEFINE G == {i \in 0 .. n : f[i] = g[i]}
<1>6. 0 \in G
  BY <1>4, <1>5 DEF Sums
<1>7. ASSUME NEW i \in 1 .. n, i - 1 \in G PROVE i \in G
  BY <1>4, <1>5, <1>7 DEF Sums
<1> HIDE DEF G
<1>8. 0 .. n \subseteq G
  BY <1>6, <1>7, Induction
<1>9. f[n] = g[n] /\ g[n] \in Nat
  BY <1>5, <1>8, SumsFacts DEF G
<1> QED
  BY <1>1, <1>5, <1>9 DEF f

LEMMA TotalNat ==
  ASSUME NEW w \in Seq(Nat)
  PROVE  Total(w) \in Nat
BY SumsExist, TotalIs

LEMMA TotalEmpty == Total(<<>>) = 0
<1>1. <<>> \in Seq(Nat) /\ Len(<<>>) = 0
  OBVIOUS
<1>2. PICK g : Sums(g, <<>>)
  BY <1>1, SumsExist
<1> QED
  BY <1>1, <1>2, TotalIs, SumsFacts

LEMMA TotalLonger ==
  ASSUME NEW v \in Seq(Nat), NEW w \in Seq(Nat), NEW k \in Nat,
         Len(w) = k, Len(v) = k + 1, \A i \in 1 .. k : v[i] = w[i]
  PROVE  Total(v) = Total(w) + v[k + 1]
<1>1. PICK g : Sums(g, w)
  BY SumsExist
<1>2. PICK h : Sums(h, v)
  BY SumsExist
<1>3. h[k] = g[k]
  <2>1. k <= Len(v) /\ k <= Len(w)
    OBVIOUS
  <2>2. \A i \in 0 .. k : h[i] = g[i]
    BY <1>1, <1>2, <2>1, SumsAgree
  <2> QED
    BY <2>2
<1>4. h[k + 1] = h[k] + v[k + 1]
  <2>1. k + 1 \in 1 .. Len(v) /\ (k + 1) - 1 = k
    OBVIOUS
  <2>2. h[k + 1] = h[(k + 1) - 1] + v[k + 1]
    BY <1>2, <2>1, SumsFacts
  <2> QED
    BY <2>1, <2>2
<1>5. Total(w) = g[k] /\ Total(v) = h[k + 1]
  BY <1>1, <1>2, TotalIs
<1> QED
  BY <1>3, <1>4, <1>5

LEMMA TotalAppend ==
  ASSUME NEW w \in Seq(Nat), NEW n \in Nat
  PROVE  Total(Append(w, n)) = Total(w) + n
<1>1. PICK k \in Nat : k = Len(w)
  OBVIOUS
<1>2. PICK v \in Seq(Nat) : v = Append(w, n)
  <2>1. Append(w, n) \in Seq(Nat)
    OBVIOUS
  <2> QED
    BY <2>1
<1>3. Len(v) = k + 1 /\ v[k + 1] = n /\ \A i \in 1 .. k : v[i] = w[i]
  BY <1>1, <1>2
<1> QED
  BY <1>1, <1>2, <1>3, TotalLonger

LEMMA TotalLater ==
  ASSUME NEW w \in Seq(Nat), NEW v \in Seq(Nat), NEW k \in Nat,
         Len(v) = k, Len(w) = k + 1, \A i \in 1 .. k : v[i] = w[i + 1]
  PROVE  Total(w) = w[1] + Total(v)
<1>1. PICK g : Sums(g, w)
  BY SumsExist
<1>2. PICK h : Sums(h, v)
  BY SumsExist
<1>3. w[1] \in Nat
  OBVIOUS
<1> DEFINE G == {i \in 0 .. k : g[i + 1] = w[1] + h[i]}
<1>4. 0 \in G
  <2>1. 1 \in 1 .. Len(w)
    OBVIOUS
  <2>2. g[1] = g[1 - 1] + w[1]
    BY <1>1, <2>1, SumsFacts
  <2>3. g[0] = 0 /\ h[0] = 0
    BY <1>1, <1>2, SumsFacts
  <2>4. g[0 + 1] = w[1] + h[0]
    BY <1>3, <2>2, <2>3
  <2> QED
    BY <2>4
<1>5. ASSUME NEW i \in 1 .. k, i - 1 \in G PROVE i \in G
  <2>1. /\ i + 1 \in 1 .. Len(w) /\ i \in 1 .. Len(v) /\ i - 1 \in 0 .. Len(v)
        /\ (i + 1) - 1 = i /\ (i - 1) + 1 = i
    OBVIOUS
  <2>2. g[i + 1] = g[i] + w[i + 1]
    <3>1. g[i + 1] = g[(i + 1) - 1] + w[i + 1]
      BY <1>1, <2>1, SumsFacts
    <3> QED
      BY <2>1, <3>1
  <2>3. g[i] = w[1] + h[i - 1]
    BY <1>5, <2>1
  <2>4. h[i] = h[i - 1] + v[i] /\ h[i - 1] \in Nat /\ v[i] \in Nat
    BY <1>2, <2>1, SumsFacts
  <2>5. w[i + 1] = v[i]
    OBVIOUS
  <2>6. g[i + 1] = w[1] + h[i]
    BY <1>3, <2>2, <2>3, <2>4, <2>5
  <2> QED
    BY <2>6
<1> HIDE DEF G
<1>6. 0 .. k \subseteq G
  BY <1>4, <1>5, Induction
<1>7. g[k + 1] = w[1] + h[k]
  BY <1>6 DEF G
<1>8. Total(w) = g[k + 1] /\ Total(v) = h[k]
  BY <1>1, <1>2, TotalIs
<1> QED
  BY <1>7, <1>8

LEMMA TotalTail ==
  ASSUME NEW w \in Seq(Nat), w # <<>>
  PROVE  Total(w) = Head(w) + Total(Tail(w))
<1>1. PICK v \in Seq(Nat) : v = Tail(w)
  <2>1. Tail(w) \in Seq(Nat)
    OBVIOUS
  <2> QED
    BY <2>1
<1>2. PICK k \in Nat : k = Len(v)
  OBVIOUS
<1>3. Len(w) = k + 1 /\ Head(w) = w[1] /\ \A i \in 1 .. k : v[i] = w[i + 1]
  BY <1>1, <1>2
<1> QED
  BY <1>1, <1>2, <1>3, TotalLater

LEMMA TotalOfZeros ==
  ASSUME NEW w \in Seq(Nat), \A i \in 1 .. Len(w) : w[i] = 0
  PROVE  Total(w) = 0
<1>1. PICK g : Sums(g, w)
  BY SumsExist
<1>2. PICK n \in Nat : n = Len(w)
  BY <1>1, SumsFacts
<1> DEFINE G == {i \in 0 .. n : g[i] = 0}
<1>3. 0 \in G
  BY <1>1, SumsFacts
<1>4. ASSUME NEW i \in 1 .. n, i - 1 \in G PROVE i \in G
  <2>1. g[i - 1] = 0
    BY <1>4
  <2>2. i \in 1 .. Len(w) /\ w[i] = 0
    BY <1>2
  <2>3. g[i] = g[i - 1] + w[i]
    BY <1>1, <2>2, SumsFacts
  <2> QED
    BY <2>1, <2>2, <2>3
<1> HIDE DEF G
<1>5. 0 .. n \subseteq G
  BY <1>3, <1>4, Induction
<1>6. g[n] = 0
  BY <1>5 DEF G
<1> QED
  BY <1>1, <1>2, <1>6, TotalIs

\* Without its last element a sequence adds up to less.
LEMMA TotalFront ==
  ASSUME NEW w \in Seq(Nat), NEW n \in Nat, Len(w) = n + 1
  PROVE  Total(SubSeq(w, 1, n)) <= Total(w)
<1> DEFINE v == SubSeq(w, 1, n)
<1>1. v \in Seq(Nat) /\ w[n + 1] \in Nat /\ w = Append(v, w[n + 1])
  OBVIOUS
<1> HIDE DEF v
<1>2. Total(w) = Total(v) + w[n + 1]
  BY <1>1, TotalAppend
<1>3. Total(v) \in Nat
  BY <1>1, TotalNat
<1> QED
  BY <1>1, <1>2, <1>3 DEF v

-----------------------------------------------------------------------------
(* The bytes of the frames of one kind.                                    *)

Weight(kind, f) == IF f.kind = kind THEN f.size ELSE 0

Weights(kind, frames) ==
  [i \in 1 .. Len(frames) |-> IF frames[i].kind = kind THEN frames[i].size ELSE 0]

LEMMA FrameFacts ==
  /\ Sizes \subseteq Nat \ {0}
  /\ \A f \in Frames : f.size \in Nat
  /\ \A f \in DataFrames : f \in Frames /\ f.kind \in {"data", "eof"}
  /\ \A n \in Sizes : Data(n) \in DataFrames /\ Ack(n) \in Frames
  /\ Eof \in DataFrames /\ Frame("closed", 0) \in Frames /\ Frame("overflow", 0) \in Frames
<1>1. Sizes \subseteq Nat \ {0}
  BY WindowAssumption, SizesAssumption
<1>2. ASSUME NEW f \in Frames PROVE f.size \in Nat
  <2>1. CASE f \in [kind : {"data", "ack"}, size : Sizes]
    BY <1>1, <2>1
  <2>2. CASE f \in {Frame(k, 0) : k \in {"eof", "closed", "overflow"}}
    BY <2>2 DEF Frame
  <2> QED
    BY <2>1, <2>2 DEF Frames
<1>3. \A n \in Sizes : Data(n) \in DataFrames /\ Ack(n) \in Frames /\ Data(n) \in Frames
  BY DEF DataFrames, Frames, Data, Ack, Frame
<1>4. Eof \in DataFrames /\ Eof \in Frames
      /\ Frame("closed", 0) \in Frames /\ Frame("overflow", 0) \in Frames
  BY DEF DataFrames, Frames, Eof, Frame
<1>5. ASSUME NEW f \in DataFrames PROVE f \in Frames /\ f.kind \in {"data", "eof"}
  BY <1>3, <1>4 DEF DataFrames, Data, Eof, Frame
<1> QED
  BY <1>1, <1>2, <1>3, <1>4, <1>5

LEMMA BytesAreTotals ==
  ASSUME NEW s \in Seq(Frames), NEW kind
  PROVE  /\ Weights(kind, s) \in Seq(Nat)
         /\ Bytes(kind, s) = Total(Weights(kind, s))
         /\ Len(Weights(kind, s)) = Len(s)
         /\ \A i \in 1 .. Len(s) : Weights(kind, s)[i] = Weight(kind, s[i])
<1>1. \A i \in 1 .. Len(s) : s[i].size \in Nat
  <2>1. \A i \in 1 .. Len(s) : s[i] \in Frames
    OBVIOUS
  <2> QED
    BY <2>1, FrameFacts
<1>2. Len(s) \in Nat /\ Weights(kind, s) \in [1 .. Len(s) -> Nat]
  BY <1>1 DEF Weights
<1>3. Weights(kind, s) \in Seq(Nat)
  BY <1>2
<1> QED
  BY <1>2, <1>3 DEF Bytes, Weights, Weight

\* What the queues hold, after they were extended or read.
LEMMA BytesAppend ==
  ASSUME NEW s \in Seq(Frames), NEW f \in Frames, NEW kind
  PROVE  Bytes(kind, Append(s, f)) = Bytes(kind, s) + Weight(kind, f)
<1> DEFINE t == Append(s, f)
<1>1. t \in Seq(Frames) /\ Len(s) \in Nat /\ Len(t) = Len(s) + 1 /\ t[Len(s) + 1] = f
      /\ \A i \in 1 .. Len(s) : t[i] = s[i]
  OBVIOUS
<1> HIDE DEF t
<1>2. Weights(kind, t) \in Seq(Nat) /\ Weights(kind, s) \in Seq(Nat)
  BY <1>1, BytesAreTotals
<1>3. /\ Len(Weights(kind, s)) = Len(s) /\ Len(Weights(kind, t)) = Len(s) + 1
      /\ \A i \in 1 .. Len(s) : Weights(kind, t)[i] = Weights(kind, s)[i]
      /\ Weights(kind, t)[Len(s) + 1] = Weight(kind, f)
  <2>1. \A i \in 1 .. Len(s) : Weights(kind, s)[i] = Weight(kind, s[i])
    BY BytesAreTotals
  <2>2. \A i \in 1 .. Len(t) : Weights(kind, t)[i] = Weight(kind, t[i])
    BY <1>1, BytesAreTotals
  <2>3. Len(s) + 1 \in 1 .. Len(t) /\ \A i \in 1 .. Len(s) : i \in 1 .. Len(t)
    BY <1>1
  <2>4. Len(Weights(kind, s)) = Len(s) /\ Len(Weights(kind, t)) = Len(t)
    BY <1>1, BytesAreTotals
  <2> QED
    BY <1>1, <2>1, <2>2, <2>3, <2>4
<1>4. Total(Weights(kind, t)) = Total(Weights(kind, s)) + Weights(kind, t)[Len(s) + 1]
  BY <1>1, <1>2, <1>3, TotalLonger
<1> QED
  BY <1>1, <1>3, <1>4, BytesAreTotals DEF t

LEMMA BytesTail ==
  ASSUME NEW s \in Seq(Frames), s # <<>>, NEW kind
  PROVE  Bytes(kind, s) = Weight(kind, Head(s)) + Bytes(kind, Tail(s))
<1> DEFINE t == Tail(s)
<1>1. t \in Seq(Frames) /\ Len(t) \in Nat /\ Len(s) = Len(t) + 1 /\ Head(s) = s[1]
      /\ \A i \in 1 .. Len(t) : t[i] = s[i + 1]
  OBVIOUS
<1> HIDE DEF t
<1>2. Weights(kind, t) \in Seq(Nat) /\ Weights(kind, s) \in Seq(Nat)
  BY <1>1, BytesAreTotals
<1>3. /\ Len(Weights(kind, t)) = Len(t) /\ Len(Weights(kind, s)) = Len(t) + 1
      /\ \A i \in 1 .. Len(t) : Weights(kind, t)[i] = Weights(kind, s)[i + 1]
      /\ Weights(kind, s)[1] = Weight(kind, Head(s))
  <2>1. \A i \in 1 .. Len(s) : Weights(kind, s)[i] = Weight(kind, s[i])
    BY BytesAreTotals
  <2>2. \A i \in 1 .. Len(t) : Weights(kind, t)[i] = Weight(kind, t[i])
    BY <1>1, BytesAreTotals
  <2>3. 1 \in 1 .. Len(s) /\ \A i \in 1 .. Len(t) : i + 1 \in 1 .. Len(s)
    BY <1>1
  <2>4. Len(Weights(kind, s)) = Len(s) /\ Len(Weights(kind, t)) = Len(t)
    BY <1>1, BytesAreTotals
  <2> QED
    BY <1>1, <2>1, <2>2, <2>3, <2>4
<1>4. Total(Weights(kind, s)) = Weights(kind, s)[1] + Total(Weights(kind, t))
  BY <1>1, <1>2, <1>3, TotalLater
<1> QED
  BY <1>1, <1>3, <1>4, BytesAreTotals DEF t

LEMMA BytesNat ==
  ASSUME NEW s \in Seq(Frames), NEW kind
  PROVE  Bytes(kind, s) \in Nat
BY BytesAreTotals, TotalNat

LEMMA BytesNone ==
  ASSUME NEW s \in Seq(Frames), NEW kind, \A i \in 1 .. Len(s) : s[i].kind # kind
  PROVE  Bytes(kind, s) = 0
<1>1. \A i \in 1 .. Len(Weights(kind, s)) : Weights(kind, s)[i] = 0
  BY BytesAreTotals DEF Weight
<1> QED
  BY <1>1, BytesAreTotals, TotalOfZeros

LEMMA BytesEmpty == \A kind : Bytes(kind, <<>>) = 0
<1> SUFFICES ASSUME NEW kind PROVE Bytes(kind, <<>>) = 0
  OBVIOUS
<1>1. <<>> \in Seq(Frames) /\ \A i \in 1 .. Len(<<>>) : <<>>[i].kind # kind
  OBVIOUS
<1> QED
  BY <1>1, BytesNone

-----------------------------------------------------------------------------
(* The inductive invariants.                                               *)

\* The types without the bounds that need the ledgers.  A goroutine in a
\* write or waiting for credit has a chunk, which still fits MaxDown.
WireShape ==
  /\ stream \in {"up", "down"}
  /\ up \in Seq(Frames) /\ down \in Seq(DataFrames)
ReadShape ==
  /\ slot \in [open : BOOLEAN, buf : Seq(Frames)] /\ Len(slot.buf) <= SlotBuf
  /\ demux \in {"run", "done"}
  /\ readBytes \in Seq(Sizes) /\ Len(readBytes) <= ReadBuf + 1
  /\ readErr \in {"none", "peer eof", "slot closed", "peer closed"}
  /\ reader \in {"reading", "eof", "error"}
WriteShape ==
  /\ credit \in Nat
  /\ creditCh \in Seq(Sizes) /\ Len(creditCh) <= CreditBuf
  /\ writer \in [at : {"idle", "reserve", "failed"}, n : Sizes \cup {0}]
  /\ writer.at = "reserve" => writer.n \in Sizes /\ wrote + writer.n <= MaxDown
  /\ closed \in BOOLEAN
  /\ wrote \in 0 .. MaxDown
SessionShape ==
  /\ AgentTypeOK
  /\ IF toApi.at = "write" THEN toApi.n \in Sizes ELSE toApi.n = 0
  /\ produced \in 0 .. MaxUp /\ arrived \in Nat /\ read \in Nat

Shape == WireShape /\ ReadShape /\ WriteShape /\ SessionShape

\* What is on its way down, or up, was written, or read, before.
DownLedger == arrived + toApi.n + Bytes("data", inbound) + Bytes("data", down) <= wrote
UpLedger ==
  read + Total(readBytes) + Bytes("data", slot.buf) + Bytes("data", up) <= produced

Ledgers == DownLedger /\ UpLedger /\ CreditWithinWindow

\* A broken stream carries nothing, and a session that is gone has told its
\* goroutines so.
Endings == (~Live => up = <<>>) /\ (sess = "gone" => done)

IsEof(f) == f.kind = "eof"
Final(f) == f.kind \in {"eof", "closed", "overflow"}
HasEof(frames) == \E i \in 1 .. Len(frames) : IsEof(frames[i])
HasFinal(frames) == \E i \in 1 .. Len(frames) : Final(frames[i])
\* No data follows an eof; nothing at all follows a final frame.
EofCloses(frames) ==
  \A i \in 1 .. Len(frames) :
    /\ frames[i].kind # "overflow"
    /\ IsEof(frames[i]) => \A j \in i + 1 .. Len(frames) : frames[j].kind # "data"
FinalCloses(frames) == \A i \in 1 .. Len(frames) : Final(frames[i]) => i = Len(frames)

\* The eof is the last that pumpToBackend sends, and the last in the slot: its
\* data are in front of it, and the slot admits nothing behind it.
UpEnds == EofCloses(up) /\ (HasEof(up) => toBackend.at = "exit")
SlotEnds ==
  /\ FinalCloses(slot.buf) /\ (HasFinal(slot.buf) => ~slot.open)
  /\ closed \/ demux = "done" => ~slot.open

-----------------------------------------------------------------------------
(* Shape is an invariant.                                                  *)

LEMMA ConstantFacts ==
  /\ Window \in Nat
  /\ \A w \in AgentWindows : w \in Nat
  /\ SlotBuf \in Nat /\ SlotBuf >= 1 /\ ReadBuf \in Nat /\ ReadBuf >= 1
  /\ CreditBuf \in Nat /\ CreditBuf >= 1 /\ InboundBuf \in Nat /\ InboundBuf >= 1
  /\ MaxDown \in Nat /\ MaxUp \in Nat
  /\ \A n \in Sizes : n \in Nat /\ n >= 1
<1>1. Sizes \subseteq 1 .. Window /\ Window \in Nat
  BY WindowAssumption, SizesAssumption
<1> QED
  BY <1>1, WindowAssumption, BufAssumption, MaxAssumption

LEMMA ShapeUnchanged ==
  /\ WireShape /\ UNCHANGED wires => WireShape'
  /\ ReadShape /\ UNCHANGED readSide => ReadShape'
  /\ WriteShape /\ UNCHANGED <<writeSide, closed, wrote>> => WriteShape'
  /\ SessionShape /\ UNCHANGED <<session, produced, arrived, read>> => SessionShape'
<1>1. WireShape /\ UNCHANGED wires => WireShape'
  BY DEF WireShape, wires
<1>2. ReadShape /\ UNCHANGED readSide => ReadShape'
  BY DEF ReadShape, readSide
<1>3. WriteShape /\ UNCHANGED <<writeSide, closed, wrote>> => WriteShape'
  BY DEF WriteShape, writeSide
<1>4. SessionShape /\ UNCHANGED <<session, produced, arrived, read>> => SessionShape'
  BY DEF SessionShape, AgentTypeOK, session
<1> QED
  BY <1>1, <1>2, <1>3, <1>4

LEMMA InitShape == Init => Shape
<1> SUFFICES ASSUME Init PROVE Shape
  OBVIOUS
<1>1. WireShape
  BY DEF Init, WireShape
<1>2. ReadShape
  <2>1. slot \in [open : BOOLEAN, buf : Seq(Frames)] /\ Len(slot.buf) = 0
    BY DEF Init
  <2>2. readBytes \in Seq(Sizes) /\ Len(readBytes) = 0
    BY DEF Init
  <2> QED
    BY <2>1, <2>2, ConstantFacts DEF Init, ReadShape
<1>3. WriteShape
  <2>1. creditCh \in Seq(Sizes) /\ Len(creditCh) = 0
    BY DEF Init
  <2>2. writer \in [at : {"idle", "reserve", "failed"}, n : Sizes \cup {0}]
        /\ writer.at = "idle"
    BY DEF Init
  <2>3. credit = Window /\ closed = FALSE /\ wrote = 0
    BY DEF Init
  <2>4. credit \in Nat /\ Len(creditCh) <= CreditBuf /\ wrote \in 0 .. MaxDown
    BY <2>1, <2>3, ConstantFacts
  <2>5. closed \in BOOLEAN
    BY <2>3
  <2> QED
    BY <2>1, <2>2, <2>4, <2>5 DEF WriteShape
<1>4. SessionShape
  <2>1. AgentTypeOK
    <3>1. inbound \in Seq(DataFrames) /\ Len(inbound) = 0
      BY DEF Init
    <3>2. toBackend \in [at : {"read", "exit"}, credit : Nat]
      BY ConstantFacts DEF Init
    <3>3. /\ toApi \in [at : {"take", "write", "exit"}, n : Sizes \cup {0}]
          /\ api \in [open : BOOLEAN, ended : BOOLEAN]
      BY DEF Init
    <3>4. sess \in {"running", "gone"} /\ done \in BOOLEAN /\ watcher \in {"wait", "exit"}
      BY DEF Init
    <3>5. Len(inbound) <= InboundBuf
      BY <3>1, ConstantFacts
    <3> QED
      BY <3>1, <3>2, <3>3, <3>4, <3>5 DEF AgentTypeOK
  <2> QED
    BY <2>1, ConstantFacts DEF Init, SessionShape
<1> QED
  BY <1>1, <1>2, <1>3, <1>4 DEF Shape

\* Agent.Send of a frame, with at least as much credit.
LEMMA SendFrameShape ==
  ASSUME Shape, NEW have \in Nat, NEW n \in Sizes, n <= have, wrote + n <= MaxDown,
         SendFrame(have, n), UNCHANGED <<stream, up, closed>>,
         creditCh' \in Seq(Sizes), Len(creditCh') <= CreditBuf
  PROVE  WireShape' /\ WriteShape'
<1>1. n \in Nat /\ Data(n) \in DataFrames
  BY FrameFacts
<1>2. WireShape'
  <2>1. down \in Seq(DataFrames)
    BY DEF Shape, WireShape
  <2>2. Append(down, Data(n)) \in Seq(DataFrames)
    BY <1>1, <2>1
  <2>3. down' = down \/ down' = Append(down, Data(n))
    BY DEF SendFrame
  <2> QED
    BY <2>1, <2>2, <2>3 DEF Shape, WireShape
<1>3. credit' \in Nat
  BY <1>1 DEF SendFrame, Spend
<1>4. wrote' \in 0 .. MaxDown
  BY <1>1, ConstantFacts DEF SendFrame, Shape, WriteShape
<1>5. writer' \in [at : {"idle", "reserve", "failed"}, n : Sizes \cup {0}]
      /\ writer'.at # "reserve"
  BY DEF SendFrame
<1> QED
  BY <1>2, <1>3, <1>4, <1>5 DEF WriteShape, Shape

LEMMA WriterShape ==
  ASSUME Shape, (\E n \in Sizes : Write(n)) \/ WriterStep
  PROVE  Shape'
<1>1. ReadShape' /\ SessionShape'
  BY ShapeUnchanged DEF Shape, WriterStep, Write, TakeCredit, ReserveFails, writeOnly
<1>2. ASSUME NEW n \in Sizes, Write(n) PROVE WireShape' /\ WriteShape'
  <2>1. CASE credit >= n
    BY <1>2, <2>1, SendFrameShape DEF Write, writeOnly, Shape, WriteShape
  <2>2. CASE ~(credit >= n)
    <3>1. WireShape'
      BY <1>2, <2>2 DEF Write, writeOnly, Shape, WireShape
    <3>2. WriteShape'
      BY <1>2, <2>2 DEF Write, writeOnly, Shape, WriteShape
    <3> QED
      BY <3>1, <3>2
  <2> QED
    BY <2>1, <2>2
<1>3. ASSUME TakeCredit PROVE WireShape' /\ WriteShape'
  <2> DEFINE have == credit + Head(creditCh)
  <2>1. have \in Nat
    <3>1. creditCh \in Seq(Sizes) /\ creditCh # <<>> /\ credit \in Nat
      BY <1>3 DEF TakeCredit, Shape, WriteShape
    <3>2. Head(creditCh) \in Sizes
      BY <3>1
    <3> QED
      BY <3>1, <3>2, ConstantFacts
  <2>2. creditCh' \in Seq(Sizes) /\ Len(creditCh') <= CreditBuf
    BY <1>3, ConstantFacts DEF TakeCredit, Shape, WriteShape
  <2>3. writer.n \in Sizes /\ wrote + writer.n <= MaxDown
    BY <1>3 DEF TakeCredit, Shape, WriteShape
  <2>4. CASE have >= writer.n
    <3>1. SendFrame(have, writer.n) /\ UNCHANGED <<stream, up, closed>>
      BY <1>3, <2>4 DEF TakeCredit, writeOnly
    <3>2. writer.n <= have
      BY <2>1, <2>3, <2>4, ConstantFacts
    <3> HIDE DEF have
    <3> QED
      BY <2>1, <2>2, <2>3, <3>1, <3>2, SendFrameShape
  <2>5. CASE ~(have >= writer.n)
    <3>1. credit' = have /\ UNCHANGED <<wires, wrote, writer, closed>>
      BY <1>3, <2>5 DEF TakeCredit, writeOnly, wires
    <3> HIDE DEF have
    <3>2. WriteShape'
      BY <2>1, <2>2, <3>1 DEF Shape, WriteShape
    <3>3. WireShape'
      BY <3>1, ShapeUnchanged DEF Shape
    <3> QED
      BY <3>2, <3>3
  <2> QED
    BY <2>4, <2>5
<1>4. ASSUME ReserveFails PROVE WireShape' /\ WriteShape'
  <2>1. WireShape'
    BY <1>4 DEF ReserveFails, writeOnly, Shape, WireShape
  <2>2. writer' \in [at : {"idle", "reserve", "failed"}, n : Sizes \cup {0}]
        /\ writer'.at = "failed"
    BY <1>4 DEF ReserveFails
  <2>3. WriteShape'
    BY <1>4, <2>2 DEF ReserveFails, writeOnly, Shape, WriteShape
  <2> QED
    BY <2>1, <2>3
<1> QED
  BY <1>1, <1>2, <1>3, <1>4 DEF WriterStep, Shape

LEMMA HeadFacts ==
  ASSUME NEW S, NEW s \in Seq(S), s # <<>>
  PROVE  Head(s) \in S /\ Tail(s) \in Seq(S) /\ Len(Tail(s)) = Len(s) - 1 /\ Len(s) \in Nat
OBVIOUS

LEMMA AppendFacts ==
  ASSUME NEW S, NEW s \in Seq(S), NEW e \in S
  PROVE  Append(s, e) \in Seq(S) /\ Len(Append(s, e)) = Len(s) + 1 /\ Len(s) \in Nat
OBVIOUS

LEMMA FrameKinds ==
  ASSUME NEW f \in Frames
  PROVE  /\ f.kind \in {"data", "ack", "eof", "closed", "overflow"}
         /\ IF f.kind \in {"data", "ack"} THEN f.size \in Sizes ELSE f.size = 0
BY DEF Frames, Frame

LEMMA ReaderShape ==
  ASSUME Shape, DemuxStep \/ ReaderStep \/ Close \/ Deliver \/ AgentClose
  PROVE  Shape'
<1> DEFINE OtherShapes == WireShape' /\ WriteShape' /\ SessionShape'
<1>1. ASSUME DemuxTake PROVE ReadShape' /\ OtherShapes
  <2> DEFINE f == Head(slot.buf)
  <2>1. /\ slot \in [open : BOOLEAN, buf : Seq(Frames)] /\ slot.buf # <<>>
        /\ slot' = [slot EXCEPT !.buf = Tail(@)]
    BY <1>1 DEF DemuxTake, Shape, ReadShape
  <2>2. f \in Frames /\ Tail(slot.buf) \in Seq(Frames) /\ Len(Tail(slot.buf)) <= SlotBuf
    <3>1. slot.buf \in Seq(Frames) /\ slot.buf # <<>> /\ Len(slot.buf) <= SlotBuf
      BY <2>1 DEF Shape, ReadShape
    <3>2. f \in Frames /\ Tail(slot.buf) \in Seq(Frames)
          /\ Len(Tail(slot.buf)) = Len(slot.buf) - 1 /\ Len(slot.buf) \in Nat
      BY <3>1, HeadFacts
    <3>3. Len(Tail(slot.buf)) <= SlotBuf
      BY <3>1, <3>2, ConstantFacts
    <3> QED
      BY <3>2, <3>3
  <2>3. slot' \in [open : BOOLEAN, buf : Seq(Frames)] /\ Len(slot'.buf) <= SlotBuf
    BY <2>1, <2>2
  <2>4. UNCHANGED <<wires, reader, credit, writer, closed, session, history>>
    BY <1>1 DEF DemuxTake
  <2>5. WireShape' /\ SessionShape'
    BY <2>4, ShapeUnchanged DEF Shape, history
  <2> HIDE DEF f
  <2>6. CASE f.kind = "data"
    <3>1. readBytes' = Append(readBytes, f.size) /\ UNCHANGED <<demux, readErr, creditCh>>
          /\ ~(Len(readBytes) > ReadBuf)
      BY <1>1, <2>6 DEF DemuxTake, f, Pushing
    <3>2. f.size \in Sizes /\ readBytes \in Seq(Sizes)
      BY <2>2, <2>6, FrameKinds DEF Shape, ReadShape
    <3>3. readBytes' \in Seq(Sizes) /\ Len(readBytes') <= ReadBuf + 1
      <4>1. readBytes' \in Seq(Sizes) /\ Len(readBytes') = Len(readBytes) + 1
            /\ Len(readBytes) \in Nat
        BY <3>1, <3>2, AppendFacts
      <4> QED
        BY <3>1, <4>1, ConstantFacts
    <3>4. ReadShape'
      BY <2>3, <2>4, <3>1, <3>3 DEF Shape, ReadShape
    <3>5. WriteShape'
      BY <2>4, <3>1, ShapeUnchanged DEF Shape, writeSide, history
    <3> QED
      BY <2>5, <3>4, <3>5
  <2>7. CASE f.kind = "ack"
    <3>1. /\ creditCh' = IF Len(creditCh) < CreditBuf THEN Append(creditCh, f.size) ELSE creditCh
          /\ UNCHANGED <<demux, readBytes, readErr>>
      BY <1>1, <2>7 DEF DemuxTake, f
    <3>2. f.size \in Sizes /\ creditCh \in Seq(Sizes) /\ Len(creditCh) <= CreditBuf
      BY <2>2, <2>7, FrameKinds DEF Shape, WriteShape
    <3>3. creditCh' \in Seq(Sizes) /\ Len(creditCh') <= CreditBuf
      BY <3>1, <3>2, AppendFacts, ConstantFacts
    <3>4. ReadShape'
      BY <2>3, <2>4, <3>1 DEF Shape, ReadShape
    <3>5. WriteShape'
      BY <2>4, <3>3 DEF Shape, WriteShape, history
    <3> QED
      BY <2>5, <3>4, <3>5
  <2>8. CASE f.kind \notin {"data", "ack"}
    <3>1. /\ UNCHANGED <<readBytes, creditCh>> /\ demux' = "done"
          /\ readErr' \in {"peer eof", "peer closed"}
      BY <1>1, <2>8 DEF DemuxTake, f, DemuxEnds
    <3>2. ReadShape'
      BY <2>3, <2>4, <3>1 DEF Shape, ReadShape
    <3>3. WriteShape'
      BY <2>4, <3>1, ShapeUnchanged DEF Shape, writeSide, history
    <3> QED
      BY <2>5, <3>2, <3>3
  <2> QED
    BY <2>6, <2>7, <2>8
<1>2. ASSUME DemuxSlotClosed PROVE ReadShape' /\ OtherShapes
  <2>1. ReadShape'
    BY <1>2 DEF DemuxSlotClosed, DemuxEnds, Shape, ReadShape
  <2> QED
    BY <1>2, <2>1, ShapeUnchanged DEF DemuxSlotClosed, Shape, history
<1>3. ASSUME DemuxConnClosed PROVE ReadShape' /\ OtherShapes
  <2>1. readBytes' \in Seq(Sizes) /\ Len(readBytes') <= ReadBuf + 1
    <3>1. CASE Pushing
      <4>1. readBytes \in Seq(Sizes) /\ ReadBuf < Len(readBytes)
        BY <3>1 DEF Pushing, Shape, ReadShape
      <4>2. SubSeq(readBytes, 1, ReadBuf) \in Seq(Sizes)
            /\ Len(SubSeq(readBytes, 1, ReadBuf)) = ReadBuf
        BY <4>1, ConstantFacts
      <4> QED
        BY <1>3, <3>1, <4>2, ConstantFacts DEF DemuxConnClosed
    <3>2. CASE ~Pushing
      BY <1>3, <3>2 DEF DemuxConnClosed, Shape, ReadShape
    <3> QED
      BY <3>1, <3>2
  <2>2. ReadShape'
    BY <1>3, <2>1 DEF DemuxConnClosed, DemuxEnds, Shape, ReadShape
  <2> QED
    BY <1>3, <2>2, ShapeUnchanged DEF DemuxConnClosed, Shape, history
<1>4. ASSUME ReadChunk PROVE ReadShape' /\ OtherShapes
  <2>1. readBytes \in Seq(Sizes) /\ readBytes # <<>> /\ read \in Nat
    BY <1>4 DEF ReadChunk, Shape, ReadShape, SessionShape
  <2>2. Head(readBytes) \in Sizes /\ Tail(readBytes) \in Seq(Sizes)
        /\ Len(Tail(readBytes)) = Len(readBytes) - 1 /\ Len(readBytes) \in Nat
    BY <2>1, HeadFacts
  <2>3. read' \in Nat
    BY <1>4, <2>1, <2>2, ConstantFacts DEF ReadChunk
  <2>4. ReadShape'
    <3>1. readBytes' \in Seq(Sizes) /\ Len(readBytes') <= ReadBuf + 1
      <4>1. readBytes' = Tail(readBytes) /\ Len(readBytes) <= ReadBuf + 1
        BY <1>4 DEF ReadChunk, Shape, ReadShape
      <4> QED
        BY <2>2, <4>1, ConstantFacts
    <3> QED
      BY <1>4, <3>1 DEF ReadChunk, Shape, ReadShape
  <2>5. SessionShape'
    BY <1>4, <2>3 DEF ReadChunk, Shape, SessionShape, AgentTypeOK, session
  <2> QED
    BY <1>4, <2>4, <2>5, ShapeUnchanged DEF ReadChunk, Shape
<1>5. ASSUME ReadEnds \/ ReadConnClosed PROVE ReadShape' /\ OtherShapes
  <2>1. ReadShape'
    BY <1>5 DEF ReadEnds, ReadConnClosed, Shape, ReadShape
  <2> QED
    BY <1>5, <2>1, ShapeUnchanged DEF ReadEnds, ReadConnClosed, Shape, history
<1>6. ASSUME Close \/ AgentClose PROVE ReadShape' /\ OtherShapes
  <2>1. ReadShape'
    BY <1>6 DEF Close, AgentClose, Shape, ReadShape
  <2>2. WireShape'
    <3>1. Append(down, Eof) \in Seq(DataFrames)
      BY FrameFacts, AppendFacts DEF Shape, WireShape
    <3> QED
      BY <1>6, <3>1 DEF Close, AgentClose, Shape, WireShape, wires
  <2>3. WriteShape'
    BY <1>6 DEF Close, AgentClose, Shape, WriteShape, writeSide, history
  <2> QED
    BY <1>6, <2>1, <2>2, <2>3, ShapeUnchanged DEF Close, AgentClose, Shape, history
<1>7. ASSUME Deliver PROVE ReadShape' /\ OtherShapes
  <2>1. up # <<>> /\ up \in Seq(Frames) /\ up' = Tail(up)
        /\ slot \in [open : BOOLEAN, buf : Seq(Frames)]
    BY <1>7 DEF Deliver, Shape, WireShape, ReadShape
  <2>2. Head(up) \in Frames /\ Tail(up) \in Seq(Frames)
    BY <2>1, HeadFacts
  <2>3. slot' \in [open : BOOLEAN, buf : Seq(Frames)] /\ Len(slot'.buf) <= SlotBuf
    <3>1. CASE ~slot.open
      BY <1>7, <3>1 DEF Deliver, Shape, ReadShape
    <3>2. CASE slot.open /\ Len(slot.buf) < SlotBuf
      <4> DEFINE longer == Append(slot.buf, Head(up))
      <4>1. longer \in Seq(Frames) /\ Len(longer) <= SlotBuf
        BY <2>1, <2>2, <3>2, AppendFacts, ConstantFacts
      <4>2. slot'.buf = longer /\ slot' \in [open : BOOLEAN, buf : {longer}]
        BY <1>7, <3>2 DEF Deliver, Placed
      <4> HIDE DEF longer
      <4> QED
        BY <4>1, <4>2
    <3>3. CASE slot.open /\ ~(Len(slot.buf) < SlotBuf)
      <4>1. slot' = [open |-> FALSE, buf |-> <<Frame("overflow", 0)>>]
        BY <1>7, <3>3 DEF Deliver, Placed
      <4>2. <<Frame("overflow", 0)>> \in Seq(Frames) /\ Len(<<Frame("overflow", 0)>>) = 1
        BY FrameFacts
      <4> QED
        BY <4>1, <4>2, ConstantFacts
    <3> QED
      BY <3>1, <3>2, <3>3
  <2>4. ReadShape'
    BY <1>7, <2>3 DEF Deliver, Shape, ReadShape
  <2>5. WireShape'
    BY <1>7, <2>1, <2>2 DEF Deliver, Shape, WireShape
  <2> QED
    BY <1>7, <2>4, <2>5, ShapeUnchanged DEF Deliver, Shape, history
<1> QED
  BY <1>1, <1>2, <1>3, <1>4, <1>5, <1>6, <1>7 DEF DemuxStep, ReaderStep, Shape

\* The steps of the agent, and the failures around it.
LEMMA HandleShape ==
  ASSUME Shape, HandleKubeStreamData PROVE Shape'
<1>1. UNCHANGED sessOnly /\ down # <<>> /\ down' = Tail(down)
  BY DEF HandleKubeStreamData
<1>2. ReadShape' /\ WriteShape'
  BY <1>1, ShapeUnchanged DEF Shape, sessOnly, history
<1>3. down \in Seq(DataFrames) /\ down # <<>>
  BY <1>1 DEF Shape, WireShape
<1>4. Head(down) \in DataFrames /\ Tail(down) \in Seq(DataFrames)
  BY <1>3, HeadFacts
<1>5. WireShape'
  BY <1>1, <1>4 DEF sessOnly, Shape, WireShape
<1>6. inbound' \in Seq(DataFrames) /\ Len(inbound') <= InboundBuf
  <2>1. inbound \in Seq(DataFrames) /\ Len(inbound) <= InboundBuf
    BY DEF Shape, SessionShape, AgentTypeOK
  <2>2. Append(inbound, Head(down)) \in Seq(DataFrames)
        /\ Len(Append(inbound, Head(down))) = Len(inbound) + 1 /\ Len(inbound) \in Nat
    BY <1>4, <2>1, AppendFacts
  <2>3. \/ inbound' = inbound
        \/ inbound' = Append(inbound, Head(down)) /\ Len(inbound) < InboundBuf
    BY DEF HandleKubeStreamData, Saturated
  <2>4. CASE inbound' = inbound
    BY <2>1, <2>4
  <2>5. CASE inbound' = Append(inbound, Head(down)) /\ Len(inbound) < InboundBuf
    <3>1. Len(inbound') <= InboundBuf
      BY <2>2, <2>5, ConstantFacts
    <3> QED
      BY <2>2, <2>5, <3>1
  <2> QED
    BY <2>3, <2>4, <2>5
<1>7. done' \in BOOLEAN
  BY DEF HandleKubeStreamData, Saturated, Shape, SessionShape, AgentTypeOK
<1>8. SessionShape'
  BY <1>1, <1>6, <1>7 DEF sessOnly, history, Shape, SessionShape, AgentTypeOK
<1> QED
  BY <1>2, <1>5, <1>8 DEF Shape

LEMMA UpAppend ==
  ASSUME WireShape, NEW f \in Frames, up' = IF Live THEN Append(up, f) ELSE up,
         UNCHANGED <<stream, down>>
  PROVE  WireShape'
<1>1. Append(up, f) \in Seq(Frames)
  BY AppendFacts DEF WireShape
<1> QED
  BY <1>1 DEF WireShape

LEMMA ToApiShape ==
  ASSUME Shape, ToApiStep \/ ToApiWrite
  PROVE  Shape'
<1>1. UNCHANGED toApiOnly
  BY DEF ToApiStep, ToApiTake, ToApiDone, ToApiWriteFails, ToApiWrite
<1>2. ReadShape' /\ WriteShape'
  BY <1>1, ShapeUnchanged DEF Shape, toApiOnly
<1>3. ASSUME inbound' \in Seq(DataFrames), Len(inbound') <= InboundBuf, UNCHANGED api,
             arrived' \in Nat, NEW step \in {"take", "write", "exit"}, NEW n,
             ToApiGoto(step, n), IF step = "write" THEN n \in Sizes ELSE n = 0
      PROVE  SessionShape'
  <2>1. toApi' \in [at : {"take", "write", "exit"}, n : Sizes \cup {0}]
        /\ (IF toApi'.at = "write" THEN toApi'.n \in Sizes ELSE toApi'.n = 0)
    BY <1>3 DEF ToApiGoto
  <2>2. AgentTypeOK'
    BY <1>1, <1>3, <2>1 DEF toApiOnly, Shape, SessionShape, AgentTypeOK
  <2> QED
    BY <1>1, <1>3, <2>1, <2>2 DEF toApiOnly, Shape, SessionShape
<1>4. /\ inbound \in Seq(DataFrames) /\ Len(inbound) <= InboundBuf
      /\ arrived \in Nat
  BY DEF Shape, SessionShape, AgentTypeOK
<1>5. ASSUME ToApiTake PROVE Shape'
  <2>1. inbound # <<>> /\ inbound' = Tail(inbound) /\ UNCHANGED <<up, api, arrived>>
    BY <1>5 DEF ToApiTake
  <2>2. Head(inbound) \in DataFrames /\ inbound' \in Seq(DataFrames)
        /\ Len(inbound') = Len(inbound) - 1 /\ Len(inbound) \in Nat
    BY <1>4, <2>1, HeadFacts
  <2>3. Len(inbound') <= InboundBuf
    BY <1>4, <2>2, ConstantFacts
  <2>4. CASE Head(inbound) = Eof
    BY <1>3, <1>4, <1>5, <2>1, <2>2, <2>3, <2>4, <1>1, <1>2
       DEF ToApiTake, Shape, WireShape, toApiOnly
  <2>5. CASE Head(inbound) # Eof
    <3>1. Head(inbound).size \in Sizes
      BY <2>2, <2>5 DEF DataFrames, Data, Frame
    <3>2. ToApiGoto("write", Head(inbound).size)
      BY <1>5, <2>5 DEF ToApiTake
    <3>3. SessionShape'
      BY <1>3, <1>4, <2>1, <2>2, <2>3, <3>1, <3>2
    <3> QED
      BY <1>1, <1>2, <2>1, <3>3 DEF Shape, WireShape, toApiOnly
  <2> QED
    BY <2>4, <2>5
<1>6. ASSUME ToApiDone \/ ToApiWriteFails PROVE Shape'
  <2>1. UNCHANGED <<up, inbound, api, arrived>> /\ ToApiGoto("exit", 0)
    BY <1>6 DEF ToApiDone, ToApiWriteFails
  <2>2. SessionShape'
    BY <1>3, <1>4, <2>1
  <2> QED
    BY <1>1, <1>2, <2>1, <2>2 DEF Shape, WireShape, toApiOnly
<1>7. ASSUME ToApiWrite PROVE Shape'
  <2>1. toApi.n \in Sizes
    BY <1>7 DEF ToApiWrite, Shape, SessionShape
  <2>2. arrived' \in Nat
    BY <1>4, <1>7, <2>1, ConstantFacts DEF ToApiWrite
  <2>3. SessionShape'
    BY <1>3, <1>4, <1>7, <2>2 DEF ToApiWrite
  <2>4. WireShape'
    BY <1>1, <1>7, <2>1, FrameFacts, UpAppend DEF ToApiWrite, toApiOnly, Shape
  <2> QED
    BY <1>2, <2>3, <2>4 DEF Shape
<1> QED
  BY <1>5, <1>6, <1>7 DEF ToApiStep

LEMMA ToBackendShape ==
  ASSUME Shape, ToBackendStep \/ \E n \in Sizes : ToBackendRead(n)
  PROVE  Shape'
<1>1. UNCHANGED toBackendOnly
  BY DEF ToBackendStep, ToBackendReadEnds, ToBackendDone, ToBackendRead
<1>2. ReadShape' /\ WriteShape'
  BY <1>1, ShapeUnchanged DEF Shape, toBackendOnly
<1>3. toBackend \in [at : {"read", "exit"}, credit : Nat]
  BY DEF Shape, SessionShape, AgentTypeOK
<1>4. ASSUME produced' \in 0 .. MaxUp, toBackend' \in [at : {"read", "exit"}, credit : Nat]
      PROVE  SessionShape'
  <2>1. AgentTypeOK'
    BY <1>1, <1>4 DEF toBackendOnly, Shape, SessionShape, AgentTypeOK
  <2> QED
    BY <1>1, <1>4, <2>1 DEF toBackendOnly, Shape, SessionShape
<1>5. ASSUME NEW n \in Sizes, ToBackendRead(n) PROVE Shape'
  <2>1. n \in Nat /\ n <= toBackend.credit /\ produced + n <= MaxUp /\ produced \in Nat
    BY <1>5, ConstantFacts DEF ToBackendRead, Shape, SessionShape
  <2>2. produced' \in 0 .. MaxUp
    BY <1>5, <2>1, ConstantFacts DEF ToBackendRead
  <2>3. toBackend.credit \in Nat /\ toBackend.credit - n \in Nat
    BY <1>3, <2>1
  <2>4. toBackend' \in [at : {"read", "exit"}, credit : Nat]
    BY <1>5, <2>3 DEF ToBackendRead
  <2>5. WireShape'
    BY <1>1, <1>5, FrameFacts, UpAppend DEF ToBackendRead, toBackendOnly, Shape
  <2> QED
    BY <1>2, <1>4, <2>2, <2>4, <2>5 DEF Shape
<1>6. ASSUME ToBackendReadEnds \/ ToBackendDone PROVE Shape'
  <2>1. toBackend' \in [at : {"read", "exit"}, credit : Nat] /\ UNCHANGED produced
    BY <1>3, <1>6 DEF ToBackendReadEnds, ToBackendDone
  <2>2. SessionShape'
    BY <1>4, <2>1 DEF Shape, SessionShape
  <2>3. WireShape'
    <3>1. CASE ToBackendReadEnds
      BY <1>1, <3>1, FrameFacts, UpAppend DEF ToBackendReadEnds, toBackendOnly, Shape
    <3>2. CASE ToBackendDone
      BY <1>1, <3>2 DEF ToBackendDone, toBackendOnly, Shape, WireShape
    <3> QED
      BY <1>6, <3>1, <3>2
  <2> QED
    BY <1>2, <2>2, <2>3 DEF Shape
<1> QED
  BY <1>5, <1>6 DEF ToBackendStep

LEMMA EndShape ==
  ASSUME Shape, Watch \/ SessionReturns \/ ApiserverEnds \/ StreamBreaks
  PROVE  Shape'
<1>1. ReadShape' /\ WriteShape'
  BY ShapeUnchanged DEF Shape, Watch, SessionReturns, ApiserverEnds, StreamBreaks, history
<1>2. ASSUME Watch \/ ApiserverEnds PROVE WireShape' /\ SessionShape'
  BY <1>2 DEF Watch, ApiserverEnds, wires, history, Shape, WireShape, SessionShape, AgentTypeOK
<1>3. ASSUME SessionReturns PROVE WireShape' /\ SessionShape'
  <2>1. WireShape'
    BY <1>3, FrameFacts, UpAppend DEF SessionReturns, Shape
  <2>2. SessionShape'
    BY <1>3 DEF SessionReturns, history, Shape, SessionShape, AgentTypeOK
  <2> QED
    BY <2>1, <2>2
<1>4. ASSUME StreamBreaks PROVE WireShape' /\ SessionShape'
  <2>1. WireShape'
    BY <1>4 DEF StreamBreaks, WireShape
  <2> QED
    BY <1>4, <2>1, ShapeUnchanged DEF StreamBreaks, Shape, history
<1> QED
  BY <1>1, <1>2, <1>3, <1>4 DEF Shape

\* Every step keeps Shape.
LEMMA ShapeStep == Shape /\ [Next]_vars => Shape'
<1> SUFFICES ASSUME Shape, [Next]_vars PROVE Shape'
  OBVIOUS
<1>1. CASE UNCHANGED vars
  BY <1>1, ShapeUnchanged DEF Shape, vars, history
<1>2. CASE Next
  BY <1>2, WriterShape, ReaderShape, HandleShape, ToApiShape, ToBackendShape, EndShape
     DEF Next, ReceiveStep, Environment
<1> QED
  BY <1>1, <1>2
-----------------------------------------------------------------------------
(* How the steps move bytes: the sums over the queues, by name.            *)

DownBytes == Bytes("data", down)
InboundBytes == Bytes("data", inbound)
UpBytes == Bytes("data", up)
SlotBytes == Bytes("data", slot.buf)
ReadyBytes == Total(readBytes)
UpAcks == Bytes("ack", up)
SlotAcks == Bytes("ack", slot.buf)
TakenAcks == Total(creditCh)

\* The ledgers, in these terms.
LedgersInSums ==
  /\ DownLedger <=> arrived + toApi.n + InboundBytes + DownBytes <= wrote
  /\ UpLedger <=> read + ReadyBytes + SlotBytes + UpBytes <= produced
  /\ CreditWithinWindow <=>
       credit + wrote + (UpAcks + SlotAcks + TakenAcks) <= Window + arrived
  /\ NothingLostInSession <=>
       (Live /\ ~done /\ toApi.at # "exit" =>
          wrote = arrived + (DownBytes + InboundBytes + toApi.n))

LEMMA LedgersBySums == LedgersInSums /\ LedgersInSums'
BY DEF LedgersInSums, DownLedger, UpLedger, CreditWithinWindow, NothingLostInSession,
       DownBytes, InboundBytes, UpBytes, SlotBytes, ReadyBytes, UpAcks, SlotAcks, TakenAcks, Live

LEMMA WeightFacts ==
  ASSUME NEW kind, NEW f \in Frames
  PROVE  Weight(kind, f) \in Nat
BY FrameFacts DEF Weight

\* Everything summed is a natural number.
LEMMA Numbers ==
  ASSUME Shape
  PROVE  /\ credit \in Nat /\ wrote \in Nat /\ arrived \in Nat /\ produced \in Nat
         /\ read \in Nat /\ toApi.n \in Nat
         /\ DownBytes \in Nat /\ InboundBytes \in Nat /\ UpBytes \in Nat
         /\ SlotBytes \in Nat /\ ReadyBytes \in Nat
         /\ UpAcks \in Nat /\ SlotAcks \in Nat /\ TakenAcks \in Nat
         /\ down \in Seq(Frames) /\ inbound \in Seq(Frames) /\ up \in Seq(Frames)
         /\ slot.buf \in Seq(Frames)
         /\ readBytes \in Seq(Nat) /\ creditCh \in Seq(Nat)
<1>1. credit \in Nat /\ wrote \in Nat /\ arrived \in Nat /\ produced \in Nat /\ read \in Nat
  BY ConstantFacts DEF Shape, WriteShape, SessionShape
<1>2. toApi.n \in Nat
  BY ConstantFacts DEF Shape, SessionShape
<1>3. \A s \in Seq(DataFrames) : s \in Seq(Frames)
  BY FrameFacts
<1>4. \A s \in Seq(Sizes) : s \in Seq(Nat)
  BY ConstantFacts
<1>5. down \in Seq(Frames) /\ inbound \in Seq(Frames) /\ up \in Seq(Frames)
  BY <1>3 DEF Shape, WireShape, SessionShape, AgentTypeOK
<1>6. slot.buf \in Seq(Frames) /\ readBytes \in Seq(Nat) /\ creditCh \in Seq(Nat)
  BY <1>4 DEF Shape, ReadShape, WriteShape
<1>7. /\ DownBytes \in Nat /\ InboundBytes \in Nat /\ UpBytes \in Nat /\ SlotBytes \in Nat
      /\ UpAcks \in Nat /\ SlotAcks \in Nat
  BY <1>5, <1>6, BytesNat DEF DownBytes, InboundBytes, UpBytes, SlotBytes, UpAcks, SlotAcks
<1>8. ReadyBytes \in Nat /\ TakenAcks \in Nat
  BY <1>6, TotalNat DEF ReadyBytes, TakenAcks
<1> QED
  BY <1>1, <1>2, <1>5, <1>6, <1>7, <1>8

\* A queue of frames that loses its head, or gets one more.
LEMMA Shrinks ==
  ASSUME NEW s \in Seq(Frames), s # <<>>, NEW t, t = Tail(s), NEW kind
  PROVE  /\ Bytes(kind, s) = Weight(kind, Head(s)) + Bytes(kind, t)
         /\ Bytes(kind, t) \in Nat /\ Weight(kind, Head(s)) \in Nat
BY HeadFacts, BytesTail, BytesNat, WeightFacts

LEMMA Grows ==
  ASSUME NEW s \in Seq(Frames), NEW f \in Frames, NEW kind
  PROVE  /\ Bytes(kind, Append(s, f)) = Bytes(kind, s) + Weight(kind, f)
         /\ Bytes(kind, s) \in Nat /\ Weight(kind, f) \in Nat
BY BytesAppend, BytesNat, WeightFacts

LEMMA WeightsOf ==
  /\ \A n \in Sizes : Weight("data", Data(n)) = n /\ Weight("ack", Data(n)) = 0
                     /\ Weight("data", Ack(n)) = 0 /\ Weight("ack", Ack(n)) = n
  /\ Weight("data", Eof) = 0 /\ Weight("ack", Eof) = 0
  /\ \A k \in {"closed", "overflow"} :
       Weight("data", Frame(k, 0)) = 0 /\ Weight("ack", Frame(k, 0)) = 0
BY DEF Weight, Data, Ack, Eof, Frame

\* Sums over queues that a step leaves alone.
LEMMA SumsUnchanged ==
  /\ UNCHANGED down => UNCHANGED DownBytes
  /\ UNCHANGED inbound => UNCHANGED InboundBytes
  /\ UNCHANGED up => UNCHANGED <<UpBytes, UpAcks>>
  /\ slot'.buf = slot.buf => UNCHANGED <<SlotBytes, SlotAcks>>
  /\ UNCHANGED readBytes => UNCHANGED ReadyBytes
  /\ UNCHANGED creditCh => UNCHANGED TakenAcks
BY DEF DownBytes, InboundBytes, UpBytes, UpAcks, SlotBytes, SlotAcks, ReadyBytes, TakenAcks

\* Write, and the goroutine that waits for credit: bytes go down against
\* credit, acks turn into credit.
WriterMoves ==
  \E n \in Nat :
    /\ \/ DownBytes' = DownBytes + n /\ wrote' = wrote + n
       \/ DownBytes' = DownBytes /\ wrote' = wrote /\ (n = 0 \/ ~Live)
    /\ credit' + TakenAcks' + n = credit + TakenAcks
    /\ credit' \in Nat /\ TakenAcks' \in Nat
    /\ UNCHANGED <<stream, InboundBytes, UpBytes, SlotBytes, ReadyBytes, UpAcks, SlotAcks,
                   arrived, produced, read, toApi, done, sess>>

LEMMA SendFrameMoves ==
  ASSUME Shape, Shape', NEW have \in Nat, NEW n \in Sizes, n <= have, SendFrame(have, n),
         UNCHANGED writeOnly, have + TakenAcks' = credit + TakenAcks, TakenAcks' \in Nat
  PROVE  WriterMoves
<1>1. n \in Nat /\ Data(n) \in Frames /\ down \in Seq(Frames)
  BY FrameFacts, Numbers
<1>2. Bytes("data", Append(down, Data(n))) = DownBytes + n
  BY <1>1, Grows, WeightsOf DEF DownBytes
<1>3. \/ DownBytes' = DownBytes + n /\ wrote' = wrote + n
      \/ DownBytes' = DownBytes /\ wrote' = wrote /\ ~Live
  BY <1>2 DEF SendFrame, DownBytes
<1>4. credit' = have - n /\ credit' \in Nat /\ credit \in Nat /\ TakenAcks \in Nat
  BY <1>1, Numbers DEF SendFrame, Spend
<1>5. credit' + TakenAcks' + n = credit + TakenAcks
  <2>1. n \in Nat /\ credit' = have - n
    BY <1>1, <1>4
  <2>2. credit' + TakenAcks' + n = have + TakenAcks'
    BY <2>1
  <2> QED
    BY <2>2
<1>6. UNCHANGED <<stream, InboundBytes, UpBytes, SlotBytes, ReadyBytes, UpAcks, SlotAcks,
                  arrived, produced, read, toApi, done, sess>>
  BY SumsUnchanged DEF writeOnly, readSide, session
<1> QED
  BY <1>1, <1>3, <1>4, <1>5, <1>6 DEF WriterMoves

LEMMA WriterStepMoves ==
  ASSUME Shape, Shape', (\E n \in Sizes : Write(n)) \/ WriterStep
  PROVE  WriterMoves
<1>0. credit \in Nat /\ TakenAcks \in Nat
  BY Numbers
<1>1. UNCHANGED writeOnly
  BY DEF WriterStep, Write, TakeCredit, ReserveFails
<1>2. UNCHANGED <<stream, InboundBytes, UpBytes, SlotBytes, ReadyBytes, UpAcks, SlotAcks,
                  arrived, produced, read, toApi, done, sess>>
  BY <1>1, SumsUnchanged DEF writeOnly, readSide, session
<1>3. ASSUME UNCHANGED <<down, wrote>>, credit' \in Nat, TakenAcks' \in Nat,
             credit' + TakenAcks' = credit + TakenAcks
      PROVE  WriterMoves
  <2>1. DownBytes' = DownBytes /\ wrote' = wrote
    BY <1>3, SumsUnchanged
  <2>2. credit' + TakenAcks' + 0 = credit + TakenAcks
    BY <1>3
  <2> QED
    BY <1>2, <1>3, <2>1, <2>2 DEF WriterMoves
<1>4. ASSUME NEW n \in Sizes, Write(n) PROVE WriterMoves
  <2>1. TakenAcks' = TakenAcks
    BY <1>4, SumsUnchanged DEF Write
  <2>2. CASE credit >= n
    <3>1. n <= credit
      BY <1>0, <2>2, ConstantFacts
    <3> QED
      BY <1>0, <1>1, <1>4, <2>1, <2>2, <3>1, SendFrameMoves DEF Write
  <2>3. CASE ~(credit >= n)
    BY <1>0, <1>3, <1>4, <2>1, <2>3 DEF Write
  <2> QED
    BY <2>2, <2>3
<1>5. ASSUME TakeCredit PROVE WriterMoves
  <2>1. creditCh # <<>> /\ creditCh' = Tail(creditCh) /\ creditCh \in Seq(Nat)
    BY <1>5, Numbers DEF TakeCredit
  <2>2. Head(creditCh) \in Nat /\ creditCh' \in Seq(Nat)
    BY <2>1, HeadFacts
  <2>3. TakenAcks' \in Nat /\ TakenAcks = Head(creditCh) + TakenAcks'
    BY <2>1, <2>2, TotalTail, TotalNat DEF TakenAcks
  <2> DEFINE have == credit + Head(creditCh)
  <2>4. have \in Nat /\ have + TakenAcks' = credit + TakenAcks
    BY <1>0, <2>2, <2>3
  <2>5. CASE have >= writer.n
    <3>1. writer.n \in Sizes
      BY <1>5 DEF TakeCredit, Shape, WriteShape
    <3>2. SendFrame(have, writer.n) /\ writer.n <= have
      BY <1>5, <2>4, <2>5, <3>1, ConstantFacts DEF TakeCredit
    <3> HIDE DEF have
    <3> QED
      BY <1>1, <2>3, <2>4, <3>1, <3>2, SendFrameMoves
  <2>6. CASE ~(have >= writer.n)
    <3>1. UNCHANGED <<down, wrote>> /\ credit' = have
      BY <1>5, <2>6 DEF TakeCredit
    <3> HIDE DEF have
    <3> QED
      BY <1>3, <2>3, <2>4, <3>1
  <2> QED
    BY <2>5, <2>6
<1>6. ASSUME ReserveFails PROVE WriterMoves
  <2>1. TakenAcks' = TakenAcks /\ UNCHANGED <<credit, down, wrote>>
    BY <1>6, SumsUnchanged DEF ReserveFails
  <2> QED
    BY <1>0, <1>3, <2>1
<1> QED
  BY <1>4, <1>5, <1>6 DEF WriterStep

\* demuxLoop moves a frame out of the slot.
DemuxMoves ==
  /\ LET f == Head(slot.buf)
     IN  /\ SlotBytes = Weight("data", f) + SlotBytes'
         /\ SlotAcks = Weight("ack", f) + SlotAcks'
         /\ ReadyBytes' = ReadyBytes + Weight("data", f)
         /\ TakenAcks' \in {TakenAcks, TakenAcks + Weight("ack", f)}
         /\ Weight("data", f) \in Nat /\ Weight("ack", f) \in Nat
  /\ SlotBytes' \in Nat /\ SlotAcks' \in Nat
  /\ UNCHANGED <<DownBytes, InboundBytes, UpBytes, UpAcks>>

LEMMA DemuxTakeMoves ==
  ASSUME Shape, Shape', DemuxTake
  PROVE  DemuxMoves
<1> DEFINE f == Head(slot.buf)
<1>1. slot.buf # <<>> /\ slot.buf \in Seq(Frames) /\ slot'.buf = Tail(slot.buf)
  <2>1. slot \in [open : BOOLEAN, buf : Seq(Frames)]
    BY DEF Shape, ReadShape
  <2> QED
    BY <2>1 DEF DemuxTake
<1>2. f \in Frames
  BY <1>1, HeadFacts
<1>3. /\ SlotBytes = Weight("data", f) + SlotBytes' /\ SlotAcks = Weight("ack", f) + SlotAcks'
      /\ SlotBytes' \in Nat /\ SlotAcks' \in Nat
      /\ Weight("data", f) \in Nat /\ Weight("ack", f) \in Nat
  BY <1>1, Shrinks DEF SlotBytes, SlotAcks
<1>4. UNCHANGED <<DownBytes, InboundBytes, UpBytes, UpAcks>>
  BY SumsUnchanged DEF DemuxTake, wires, session
<1>5. ReadyBytes \in Nat /\ TakenAcks \in Nat /\ readBytes \in Seq(Nat) /\ creditCh \in Seq(Nat)
  BY Numbers
<1> HIDE DEF f
<1>6. ReadyBytes' = ReadyBytes + Weight("data", f)
  <2>1. CASE f.kind = "data"
    <3>1. readBytes' = Append(readBytes, f.size)
      BY <2>1 DEF DemuxTake, f
    <3>2. f.size \in Nat /\ Weight("data", f) = f.size
      BY <1>2, <2>1, FrameFacts DEF Weight
    <3> QED
      BY <1>5, <3>1, <3>2, TotalAppend DEF ReadyBytes
  <2>2. CASE f.kind # "data"
    <3>1. readBytes' = readBytes /\ Weight("data", f) = 0
      BY <2>2 DEF DemuxTake, f, Weight
    <3>2. ReadyBytes' = ReadyBytes
      BY <3>1, SumsUnchanged
    <3> QED
      BY <1>5, <3>1, <3>2
  <2> QED
    BY <2>1, <2>2
<1>7. TakenAcks' \in {TakenAcks, TakenAcks + Weight("ack", f)}
  <2>1. CASE UNCHANGED creditCh
    BY <2>1, SumsUnchanged
  <2>2. CASE f.kind = "ack" /\ creditCh' = Append(creditCh, f.size)
    <3>1. f.size \in Nat /\ Weight("ack", f) = f.size
      BY <1>2, <2>2, FrameFacts DEF Weight
    <3> QED
      BY <1>5, <2>2, <3>1, TotalAppend DEF TakenAcks
  <2>3. UNCHANGED creditCh \/ (f.kind = "ack" /\ creditCh' = Append(creditCh, f.size))
    BY DEF DemuxTake, f
  <2> QED
    BY <2>1, <2>2, <2>3
<1> QED
  BY <1>3, <1>4, <1>6, <1>7 DEF DemuxMoves, f

\* A frame that the agent sends up, if the stream still takes it.
LEMMA UpGrows ==
  ASSUME Shape, NEW f \in Frames, up' = IF Live THEN Append(up, f) ELSE up
  PROVE  /\ IF Live
              THEN UpBytes' = UpBytes + Weight("data", f) /\ UpAcks' = UpAcks + Weight("ack", f)
              ELSE UpBytes' = UpBytes /\ UpAcks' = UpAcks
         /\ Weight("data", f) \in Nat /\ Weight("ack", f) \in Nat
<1>1. up \in Seq(Frames)
  BY Numbers
<1> QED
  BY <1>1, Grows DEF UpBytes, UpAcks

\* A frame that the receive loop takes from the stream goes into the slot, is
\* dropped with everything in it, or finds it closed.
DeliverMoves ==
  LET f == Head(up)
  IN  /\ UpBytes = Weight("data", f) + UpBytes' /\ UpAcks = Weight("ack", f) + UpAcks'
      /\ UpBytes' \in Nat /\ UpAcks' \in Nat
      /\ Weight("data", f) \in Nat /\ Weight("ack", f) \in Nat
      /\ \/ /\ slot.open /\ slot'.buf = Append(slot.buf, f)
            /\ slot'.open = (f.kind \notin {"eof", "closed"})
            /\ SlotBytes' = SlotBytes + Weight("data", f)
            /\ SlotAcks' = SlotAcks + Weight("ack", f)
         \/ /\ slot.open /\ ~slot'.open /\ slot'.buf = <<Frame("overflow", 0)>>
            /\ SlotBytes' = 0 /\ SlotAcks' = 0
         \/ ~slot.open /\ slot' = slot /\ SlotBytes' = SlotBytes /\ SlotAcks' = SlotAcks
      /\ UNCHANGED <<DownBytes, InboundBytes, ReadyBytes, TakenAcks>>

LEMMA DeliverStepMoves ==
  ASSUME Shape, Deliver
  PROVE  DeliverMoves
<1> DEFINE f == Head(up)
<1>1. up # <<>> /\ up \in Seq(Frames) /\ slot.buf \in Seq(Frames)
  BY Numbers DEF Deliver
<1>2. f \in Frames
  BY <1>1, HeadFacts
<1>3. /\ UpBytes = Weight("data", f) + UpBytes' /\ UpAcks = Weight("ack", f) + UpAcks'
      /\ UpBytes' \in Nat /\ UpAcks' \in Nat
      /\ Weight("data", f) \in Nat /\ Weight("ack", f) \in Nat
  BY <1>1, Shrinks DEF Deliver, UpBytes, UpAcks
<1>4. UNCHANGED <<DownBytes, InboundBytes, ReadyBytes, TakenAcks>>
  BY SumsUnchanged DEF Deliver, session, writeSide
<1> HIDE DEF f
<1>5. \/ /\ slot.open /\ slot'.buf = Append(slot.buf, f)
         /\ slot'.open = (f.kind \notin {"eof", "closed"})
      \/ slot.open /\ ~slot'.open /\ slot'.buf = <<Frame("overflow", 0)>>
      \/ ~slot.open /\ slot' = slot
  BY DEF Deliver, Placed, f
<1>6. CASE slot.open /\ slot'.buf = Append(slot.buf, f)
            /\ slot'.open = (f.kind \notin {"eof", "closed"})
  <2>1. SlotBytes' = SlotBytes + Weight("data", f) /\ SlotAcks' = SlotAcks + Weight("ack", f)
    BY <1>1, <1>2, <1>6, Grows DEF SlotBytes, SlotAcks
  <2> QED
    BY <1>3, <1>4, <1>6, <2>1 DEF DeliverMoves, f
<1>7. CASE slot.open /\ ~slot'.open /\ slot'.buf = <<Frame("overflow", 0)>>
  <2>1. <<Frame("overflow", 0)>> \in Seq(Frames)
    BY FrameFacts
  <2>2. \A i \in 1 .. Len(<<Frame("overflow", 0)>>) :
          <<Frame("overflow", 0)>>[i].kind \notin {"data", "ack"}
    BY DEF Frame
  <2>3. Bytes("data", <<Frame("overflow", 0)>>) = 0 /\ Bytes("ack", <<Frame("overflow", 0)>>) = 0
    BY <2>1, <2>2, BytesNone
  <2>4. SlotBytes' = 0 /\ SlotAcks' = 0
    BY <1>7, <2>3 DEF SlotBytes, SlotAcks
  <2> QED
    BY <1>3, <1>4, <1>7, <2>4 DEF DeliverMoves, f
<1>8. CASE ~slot.open /\ slot' = slot
  BY <1>3, <1>4, <1>8, SumsUnchanged DEF DeliverMoves, f
<1> QED
  BY <1>5, <1>6, <1>7, <1>8

\* A frame that the agent's read loop takes from the stream is queued, or is
\* lost together with the session.
HandleMoves ==
  \E n \in Nat :
    /\ DownBytes = n + DownBytes' /\ DownBytes' \in Nat
    /\ \/ InboundBytes' = InboundBytes + n /\ UNCHANGED done
       \/ InboundBytes' = InboundBytes /\ (done' \/ sess = "gone")
    /\ UNCHANGED <<UpBytes, SlotBytes, ReadyBytes, UpAcks, SlotAcks, TakenAcks>>

LEMMA HandleStepMoves ==
  ASSUME Shape, HandleKubeStreamData
  PROVE  HandleMoves
<1> DEFINE n == Weight("data", Head(down))
<1>1. down # <<>> /\ down \in Seq(Frames) /\ inbound \in Seq(Frames)
  BY Numbers DEF HandleKubeStreamData
<1>2. DownBytes = n + DownBytes' /\ DownBytes' \in Nat /\ n \in Nat
  BY <1>1, Shrinks DEF HandleKubeStreamData, DownBytes
<1>3. UNCHANGED <<UpBytes, SlotBytes, ReadyBytes, UpAcks, SlotAcks, TakenAcks>>
  BY SumsUnchanged DEF HandleKubeStreamData, sessOnly, readSide, writeSide
<1>4. \/ InboundBytes' = InboundBytes + n /\ UNCHANGED done
      \/ InboundBytes' = InboundBytes /\ (done' \/ sess = "gone")
  <2>1. Bytes("data", Append(inbound, Head(down))) = InboundBytes + n
    BY <1>1, HeadFacts, Grows DEF InboundBytes
  <2>2. \/ inbound' = Append(inbound, Head(down)) /\ UNCHANGED done
        \/ UNCHANGED inbound /\ (done' \/ sess = "gone")
    BY DEF HandleKubeStreamData, Saturated
  <2> QED
    BY <2>1, <2>2, SumsUnchanged DEF InboundBytes
<1> HIDE DEF n
<1> QED
  BY <1>2, <1>3, <1>4 DEF HandleMoves

\* pumpToApiserver: a frame into its hand, from its hand to the apiserver, or
\* lost when it exits.
ToApiMoves ==
  /\ \/ /\ InboundBytes = toApi'.n + InboundBytes' /\ InboundBytes' \in Nat
        /\ UNCHANGED <<arrived, UpAcks>> /\ toApi.n = 0
     \/ /\ arrived' = arrived + toApi.n /\ UNCHANGED InboundBytes
        /\ UpAcks' \in {UpAcks, UpAcks + toApi.n}
        /\ toApi'.n = 0
     \/ /\ toApi'.n = 0 /\ toApi'.at = "exit" /\ UNCHANGED <<arrived, InboundBytes, UpAcks>>
  /\ toApi'.n \in Nat
  /\ UNCHANGED <<DownBytes, UpBytes, SlotBytes, ReadyBytes, SlotAcks, TakenAcks>>

LEMMA ToApiStepMoves ==
  ASSUME Shape, ToApiStep \/ ToApiWrite
  PROVE  ToApiMoves
<1>1. UNCHANGED <<DownBytes, SlotBytes, ReadyBytes, SlotAcks, TakenAcks>>
  BY SumsUnchanged DEF ToApiStep, ToApiTake, ToApiDone, ToApiWriteFails, ToApiWrite, toApiOnly,
                       readSide, writeSide
<1>2. /\ inbound \in Seq(DataFrames) /\ inbound \in Seq(Frames)
      /\ IF toApi.at = "write" THEN toApi.n \in Sizes ELSE toApi.n = 0
  BY Numbers DEF Shape, SessionShape, AgentTypeOK
<1>3. ASSUME ToApiTake PROVE ToApiMoves
  <2> DEFINE f == Head(inbound)
  <2>1. inbound # <<>> /\ inbound' = Tail(inbound) /\ UNCHANGED <<up, arrived>> /\ toApi.n = 0
    BY <1>2, <1>3 DEF ToApiTake
  <2>2. f \in DataFrames
    BY <1>2, <2>1, HeadFacts
  <2>3. InboundBytes = Weight("data", f) + InboundBytes' /\ InboundBytes' \in Nat
        /\ Weight("data", f) \in Nat
    BY <1>2, <2>1, Shrinks DEF InboundBytes
  <2> HIDE DEF f
  <2>4. toApi'.n = Weight("data", f)
    <3>1. CASE f = Eof
      BY <1>3, <3>1, WeightsOf DEF ToApiTake, ToApiGoto, f
    <3>2. CASE f # Eof
      <4>1. f.kind = "data"
        BY <2>2, <3>2 DEF DataFrames, Data, Frame
      <4>2. toApi'.n = f.size
        BY <1>3, <3>2 DEF ToApiTake, ToApiGoto, f
      <4> QED
        BY <4>1, <4>2 DEF Weight
    <3> QED
      BY <3>1, <3>2
  <2>5. UNCHANGED <<UpBytes, UpAcks>>
    BY <2>1, SumsUnchanged
  <2> QED
    BY <1>1, <2>1, <2>3, <2>4, <2>5 DEF ToApiMoves
<1>4. ASSUME ToApiWrite PROVE ToApiMoves
  <2>1. toApi.n \in Sizes /\ toApi'.n = 0
    BY <1>2, <1>4 DEF ToApiWrite, ToApiGoto
  <2>2. Ack(toApi.n) \in Frames /\ up' = IF Live THEN Append(up, Ack(toApi.n)) ELSE up
    BY <1>4, <2>1, FrameFacts DEF ToApiWrite
  <2>3. UNCHANGED UpBytes /\ UpAcks' \in {UpAcks, UpAcks + toApi.n}
    <3>1. Weight("data", Ack(toApi.n)) = 0 /\ Weight("ack", Ack(toApi.n)) = toApi.n
      BY <2>1, WeightsOf
    <3>2. UpBytes \in Nat /\ UpAcks \in Nat
      BY Numbers
    <3> QED
      BY <2>2, <3>1, <3>2, UpGrows
  <2>4. UNCHANGED InboundBytes /\ arrived' = arrived + toApi.n
    BY <1>4, SumsUnchanged DEF ToApiWrite
  <2>5. toApi'.n \in Nat
    BY <2>1
  <2> QED
    BY <1>1, <2>1, <2>3, <2>4, <2>5 DEF ToApiMoves
<1>5. ASSUME ToApiDone \/ ToApiWriteFails PROVE ToApiMoves
  <2>1. toApi'.n = 0 /\ toApi'.at = "exit" /\ UNCHANGED <<up, inbound, arrived>>
    BY <1>5 DEF ToApiDone, ToApiWriteFails, ToApiGoto
  <2>2. toApi'.n \in Nat
    BY <2>1
  <2> QED
    BY <1>1, <2>1, <2>2, SumsUnchanged DEF ToApiMoves
<1> QED
  BY <1>3, <1>4, <1>5 DEF ToApiStep

\* What pumpToBackend reads goes up, with the credit.
ToBackendMoves ==
  /\ \/ \E n \in Sizes : /\ produced' = produced + n /\ n \in Nat
                          /\ toBackend.at = "read"
                          /\ IF Live THEN UpBytes' = UpBytes + n ELSE UNCHANGED UpBytes
     \/ UNCHANGED <<produced, UpBytes>>
  /\ UNCHANGED <<DownBytes, InboundBytes, SlotBytes, ReadyBytes, UpAcks, SlotAcks, TakenAcks>>

LEMMA ToBackendStepMoves ==
  ASSUME Shape, ToBackendStep \/ \E n \in Sizes : ToBackendRead(n)
  PROVE  ToBackendMoves
<1>1. UNCHANGED <<DownBytes, InboundBytes, SlotBytes, ReadyBytes, SlotAcks, TakenAcks>>
  BY SumsUnchanged DEF ToBackendStep, ToBackendReadEnds, ToBackendDone, ToBackendRead,
                       toBackendOnly, readSide, writeSide
<1>0. UpBytes \in Nat /\ UpAcks \in Nat
  BY Numbers
<1>2. ASSUME NEW n \in Sizes, ToBackendRead(n) PROVE ToBackendMoves
  <2>1. n \in Nat /\ Data(n) \in Frames
    BY FrameFacts
  <2>2. Weight("data", Data(n)) = n /\ Weight("ack", Data(n)) = 0
    BY WeightsOf
  <2>3. up' = IF Live THEN Append(up, Data(n)) ELSE up
    BY <1>2 DEF ToBackendRead
  <2>4. UNCHANGED UpAcks /\ IF Live THEN UpBytes' = UpBytes + n ELSE UNCHANGED UpBytes
    BY <1>0, <2>1, <2>2, <2>3, UpGrows
  <2>5. produced' = produced + n /\ toBackend.at = "read"
    BY <1>2 DEF ToBackendRead
  <2> QED
    BY <1>1, <2>1, <2>4, <2>5 DEF ToBackendMoves
<1>3. ASSUME ToBackendReadEnds PROVE ToBackendMoves
  <2>1. Eof \in Frames /\ Weight("data", Eof) = 0 /\ Weight("ack", Eof) = 0
    BY FrameFacts, WeightsOf
  <2>2. up' = IF Live THEN Append(up, Eof) ELSE up
    BY <1>3 DEF ToBackendReadEnds
  <2>3. UNCHANGED <<UpBytes, UpAcks>>
    BY <1>0, <2>1, <2>2, UpGrows
  <2> QED
    BY <1>1, <1>3, <2>3 DEF ToBackendMoves, ToBackendReadEnds
<1>4. ASSUME ToBackendDone PROVE ToBackendMoves
  BY <1>1, <1>4, SumsUnchanged DEF ToBackendMoves, ToBackendDone
<1> QED
  BY <1>2, <1>3, <1>4 DEF ToBackendStep

\* The steps that move nothing.
Quiet ==
  /\ UNCHANGED <<DownBytes, InboundBytes, UpBytes, SlotBytes, ReadyBytes, UpAcks, SlotAcks,
                 TakenAcks>>
  /\ UNCHANGED <<credit, wrote, arrived, produced, read>> /\ UNCHANGED toApi
QuietStep ==
  \/ DemuxSlotClosed \/ ReadEnds \/ ReadConnClosed \/ Close \/ AgentClose \/ Watch
  \/ SessionReturns \/ ApiserverEnds

LEMMA QuietMoves ==
  ASSUME Shape, QuietStep
  PROVE  Quiet
<1>0. DownBytes \in Nat /\ UpBytes \in Nat /\ UpAcks \in Nat /\ down \in Seq(Frames)
  BY Numbers
<1>1. ASSUME DemuxSlotClosed \/ ReadEnds \/ ReadConnClosed PROVE Quiet
  BY <1>1, SumsUnchanged
     DEF Quiet, DemuxSlotClosed, ReadEnds, ReadConnClosed, wires, writeSide, session, history
<1>2. ASSUME Watch \/ ApiserverEnds PROVE Quiet
  BY <1>2, SumsUnchanged DEF Quiet, Watch, ApiserverEnds, wires, readSide, writeSide, history
<1>3. ASSUME AgentClose PROVE Quiet
  <2>1. slot'.buf = slot.buf
    BY <1>3 DEF AgentClose, Shape, ReadShape
  <2> QED
    BY <1>3, <2>1, SumsUnchanged DEF Quiet, AgentClose, wires, writeSide, session, history
<1>4. ASSUME Close PROVE Quiet
  <2>1. slot'.buf = slot.buf
    BY <1>4 DEF Close, Shape, ReadShape
  <2>2. DownBytes' = DownBytes
    <3>1. Eof \in Frames /\ Weight("data", Eof) = 0
      BY FrameFacts, WeightsOf
    <3>2. Bytes("data", Append(down, Eof)) = DownBytes
      BY <1>0, <3>1, Grows DEF DownBytes
    <3> QED
      BY <1>4, <3>2 DEF Close, DownBytes
  <2> QED
    BY <1>4, <2>1, <2>2, SumsUnchanged DEF Quiet, Close, writeSide, session, history
<1>5. ASSUME SessionReturns PROVE Quiet
  <2> DEFINE f == Frame("closed", 0)
  <2>1. f \in Frames /\ Weight("data", f) = 0 /\ Weight("ack", f) = 0
    BY FrameFacts, WeightsOf
  <2>2. up' = IF Live THEN Append(up, f) ELSE up
    BY <1>5 DEF SessionReturns
  <2> HIDE DEF f
  <2>3. UNCHANGED <<UpBytes, UpAcks>>
    BY <1>0, <2>1, <2>2, UpGrows
  <2> QED
    BY <1>5, <2>3, SumsUnchanged DEF Quiet, SessionReturns, readSide, writeSide, history
<1> QED
  BY <1>1, <1>2, <1>3, <1>4, <1>5 DEF QuietStep

LEMMA ReadChunkMoves ==
  ASSUME Shape, ReadChunk
  PROVE  \E n \in Nat :
           /\ ReadyBytes = n + ReadyBytes' /\ ReadyBytes' \in Nat /\ read' = read + n
           /\ UNCHANGED <<DownBytes, InboundBytes, UpBytes, SlotBytes, UpAcks, SlotAcks,
                          TakenAcks>>
<1> DEFINE n == Head(readBytes)
<1>1. readBytes # <<>> /\ readBytes' = Tail(readBytes) /\ readBytes \in Seq(Nat)
  BY Numbers DEF ReadChunk
<1>2. n \in Nat /\ readBytes' \in Seq(Nat)
  BY <1>1, HeadFacts
<1>3. ReadyBytes = n + ReadyBytes' /\ ReadyBytes' \in Nat
  BY <1>1, <1>2, TotalTail, TotalNat DEF ReadyBytes
<1>4. read' = read + n
  BY DEF ReadChunk
<1>5. UNCHANGED <<DownBytes, InboundBytes, UpBytes, SlotBytes, UpAcks, SlotAcks, TakenAcks>>
  BY SumsUnchanged DEF ReadChunk, wires, writeSide, session
<1> HIDE DEF n
<1> QED
  BY <1>2, <1>3, <1>4, <1>5

LEMMA ConnClosedMoves ==
  ASSUME Shape, DemuxConnClosed
  PROVE  /\ ReadyBytes' <= ReadyBytes /\ ReadyBytes' \in Nat
         /\ UNCHANGED <<DownBytes, InboundBytes, UpBytes, SlotBytes, UpAcks, SlotAcks,
                        TakenAcks>>
<1>1. readBytes \in Seq(Nat) /\ ReadyBytes \in Nat /\ Len(readBytes) <= ReadBuf + 1
  BY Numbers DEF Shape, ReadShape
<1>2. UNCHANGED <<DownBytes, InboundBytes, UpBytes, SlotBytes, UpAcks, SlotAcks, TakenAcks>>
  BY SumsUnchanged DEF DemuxConnClosed, wires, writeSide, session
<1>3. CASE Pushing
  <2>1. Len(readBytes) = ReadBuf + 1 /\ ReadBuf \in Nat
    <3>1. Len(readBytes) \in Nat /\ Len(readBytes) > ReadBuf
      BY <1>1, <1>3 DEF Pushing
    <3> QED
      BY <1>1, <3>1, ConstantFacts
  <2>2. readBytes' = SubSeq(readBytes, 1, ReadBuf)
    BY <1>3 DEF DemuxConnClosed
  <2>3. readBytes' \in Seq(Nat)
    BY <1>1, <2>1, <2>2
  <2> QED
    BY <1>1, <1>2, <2>1, <2>2, <2>3, TotalFront, TotalNat DEF ReadyBytes
<1>4. CASE ~Pushing
  <2>1. ReadyBytes' = ReadyBytes
    BY <1>4, SumsUnchanged DEF DemuxConnClosed
  <2> QED
    BY <1>1, <1>2, <2>1
<1> QED
  BY <1>3, <1>4

LEMMA StreamBreaksMoves ==
  ASSUME Shape, StreamBreaks
  PROVE  /\ DownBytes' = 0 /\ UpBytes' = 0 /\ UpAcks' = 0
         /\ UNCHANGED <<InboundBytes, SlotBytes, ReadyBytes, SlotAcks, TakenAcks>>
<1>1. DownBytes' = 0 /\ UpBytes' = 0 /\ UpAcks' = 0
  BY BytesEmpty DEF StreamBreaks, DownBytes, UpBytes, UpAcks
<1> QED
  BY <1>1, SumsUnchanged DEF StreamBreaks, readSide, writeSide, session

-----------------------------------------------------------------------------
(* The ledgers.                                                            *)

LEMMA InitLedgers == Init => Ledgers
<1> SUFFICES ASSUME Init PROVE Ledgers
  OBVIOUS
<1>1. DownBytes = 0 /\ InboundBytes = 0 /\ UpBytes = 0 /\ SlotBytes = 0
      /\ UpAcks = 0 /\ SlotAcks = 0
  BY BytesEmpty DEF Init, DownBytes, InboundBytes, UpBytes, SlotBytes, UpAcks, SlotAcks
<1>2. ReadyBytes = 0 /\ TakenAcks = 0
  BY TotalEmpty DEF Init, ReadyBytes, TakenAcks
<1>3. credit = Window /\ toApi.n = 0 /\ wrote = 0 /\ arrived = 0 /\ read = 0 /\ produced = 0
  BY DEF Init
<1>4. Window \in Nat
  BY ConstantFacts
<1> QED
  BY <1>1, <1>2, <1>3, <1>4, LedgersBySums DEF Ledgers, LedgersInSums

\* The arithmetic of the steps with several terms.
LEMMA FewerUp ==
  ASSUME NEW r \in Nat, NEW y \in Nat, NEW s \in Nat, NEW u \in Nat, NEW p \in Nat,
         NEW s2 \in Nat, NEW u2 \in Nat, r + y + s + u <= p, s2 + u2 <= s + u
  PROVE  r + y + s2 + u2 <= p
OBVIOUS

LEMMA FewerAcks ==
  ASSUME NEW a \in Nat, NEW u \in Nat, NEW s \in Nat, NEW k \in Nat, NEW w \in Nat,
         NEW u2 \in Nat, NEW s2 \in Nat, a + (u + s + k) <= w, s2 + u2 <= s + u
  PROVE  a + (u2 + s2 + k) <= w
OBVIOUS

LEMMA AcksTaken ==
  ASSUME NEW e \in Nat, NEW u \in Nat, NEW s \in Nat, NEW k \in Nat, NEW w \in Nat,
         NEW n \in Nat, NEW s2 \in Nat, NEW k2 \in Nat,
         e + (u + s + k) <= w, s = n + s2, k2 <= k + n
  PROVE  e + (u + s2 + k2) <= w
OBVIOUS

\* Every step keeps the three ledgers.
LEMMA LedgersStep ==
  ASSUME Shape, Shape', Ledgers, [Next]_vars
  PROVE  Ledgers'
<1>1. /\ credit \in Nat /\ wrote \in Nat /\ arrived \in Nat /\ produced \in Nat
      /\ read \in Nat /\ toApi.n \in Nat
      /\ DownBytes \in Nat /\ InboundBytes \in Nat /\ UpBytes \in Nat
      /\ SlotBytes \in Nat /\ ReadyBytes \in Nat
      /\ UpAcks \in Nat /\ SlotAcks \in Nat /\ TakenAcks \in Nat
  BY Numbers
<1>2. Window \in Nat /\ \A n \in Sizes : n \in Nat
  BY ConstantFacts
<1>3. /\ arrived + toApi.n + InboundBytes + DownBytes <= wrote
      /\ read + ReadyBytes + SlotBytes + UpBytes <= produced
      /\ credit + wrote + (UpAcks + SlotAcks + TakenAcks) <= Window + arrived
  BY LedgersBySums DEF Ledgers, LedgersInSums
<1>4. SUFFICES
        /\ arrived' + toApi'.n + InboundBytes' + DownBytes' <= wrote'
        /\ read' + ReadyBytes' + SlotBytes' + UpBytes' <= produced'
        /\ credit' + wrote' + (UpAcks' + SlotAcks' + TakenAcks') <= Window + arrived'
  BY LedgersBySums DEF Ledgers, LedgersInSums
<1>5. CASE (\E n \in Sizes : Write(n)) \/ WriterStep
  <2>1. WriterMoves
    BY <1>5, WriterStepMoves
  <2>2. PICK n \in Nat :
          /\ \/ DownBytes' = DownBytes + n /\ wrote' = wrote + n
             \/ DownBytes' = DownBytes /\ wrote' = wrote
          /\ credit' + TakenAcks' + n = credit + TakenAcks
    BY <2>1 DEF WriterMoves
  <2>3. credit' \in Nat /\ TakenAcks' \in Nat
    BY <2>1 DEF WriterMoves
  <2>4. UNCHANGED <<InboundBytes, UpBytes, SlotBytes, ReadyBytes, UpAcks, SlotAcks>>
        /\ UNCHANGED <<arrived, produced, read>> /\ toApi'.n = toApi.n
    BY <2>1 DEF WriterMoves
  <2>5. arrived' + toApi'.n + InboundBytes' + DownBytes' <= wrote'
    BY <1>1, <1>3, <2>2, <2>4
  <2>6. read' + ReadyBytes' + SlotBytes' + UpBytes' <= produced'
    BY <1>3, <2>4
  <2>7. credit' + wrote' + (UpAcks' + SlotAcks' + TakenAcks') <= Window + arrived'
    <3>1. PICK b \in Nat, m \in Nat : b = UpAcks + SlotAcks /\ m = Window + arrived
      BY <1>1, <1>2
    <3>2. PICK c \in Nat, w \in Nat, k \in Nat : c = credit /\ w = wrote /\ k = TakenAcks
      BY <1>1
    <3>3. PICK c2 \in Nat, k2 \in Nat : c2 = credit' /\ k2 = TakenAcks'
      BY <2>3
    <3>4. PICK w2 \in Nat : w2 = wrote' /\ (w2 = w + n \/ w2 = w)
      BY <1>1, <2>2, <3>2
    <3>5. c + w + (b + k) <= m
      BY <1>1, <1>3, <3>1, <3>2
    <3>6. c2 + k2 + n = c + k
      BY <2>2, <3>2, <3>3
    <3>7. c2 + w2 + (b + k2) <= m
      <4>1. w2 <= w + n
        BY <3>4
      <4>2. (c2 + k2) + w2 <= (c + k) + w
        BY <3>6, <4>1
      <4>3. c2 + w2 + (b + k2) = ((c2 + k2) + w2) + b /\ c + w + (b + k) = ((c + k) + w) + b
        OBVIOUS
      <4> QED
        BY <3>5, <4>2, <4>3
    <3> QED
      BY <1>1, <2>3, <2>4, <3>1, <3>3, <3>4, <3>7
  <2> QED
    BY <2>5, <2>6, <2>7
<1>6. CASE DemuxTake
  <2>1. DemuxMoves /\ UNCHANGED <<credit, wrote, arrived, produced, read>> /\ UNCHANGED toApi
    BY <1>6, DemuxTakeMoves DEF DemuxTake, history, session
  <2>2. /\ arrived' + toApi'.n + InboundBytes' + DownBytes' <= wrote'
        /\ read' + ReadyBytes' + SlotBytes' + UpBytes' <= produced'
    BY <1>1, <1>2, <1>3, <2>1 DEF DemuxMoves
  <2>3. credit' + wrote' + (UpAcks' + SlotAcks' + TakenAcks') <= Window + arrived'
    <3>1. PICK a \in Nat : SlotAcks = a + SlotAcks' /\ TakenAcks' \in {TakenAcks, TakenAcks + a}
      BY <2>1 DEF DemuxMoves
    <3>2. SlotAcks' \in Nat /\ UNCHANGED UpAcks
      BY <2>1 DEF DemuxMoves
    <3>3. TakenAcks' \in Nat /\ TakenAcks' <= TakenAcks + a
      BY <1>1, <3>1
    <3>4. credit + wrote \in Nat /\ Window + arrived \in Nat
      BY <1>1, <1>2
    <3>5. credit + wrote + (UpAcks + SlotAcks' + TakenAcks') <= Window + arrived
      BY <1>1, <1>3, <3>1, <3>2, <3>3, <3>4, AcksTaken
    <3> QED
      BY <2>1, <3>2, <3>5
  <2> QED
    BY <2>2, <2>3
<1>7. CASE QuietStep
  <2>1. Quiet
    BY <1>7, QuietMoves
  <2> QED
    BY <1>1, <1>2, <1>3, <2>1 DEF Quiet
<1>8. CASE ReadChunk
  <2>1. UNCHANGED <<credit, wrote, arrived, produced>> /\ UNCHANGED toApi
    BY <1>8 DEF ReadChunk, writeSide, session
  <2> QED
    BY <1>1, <1>2, <1>3, <1>8, <2>1, ReadChunkMoves
<1>9. CASE DemuxConnClosed
  <2>1. UNCHANGED <<credit, wrote, arrived, produced, read>> /\ UNCHANGED toApi
    BY <1>9 DEF DemuxConnClosed, writeSide, session, history
  <2> QED
    BY <1>1, <1>2, <1>3, <1>9, <2>1, ConnClosedMoves
<1>10. CASE StreamBreaks
  <2>1. UNCHANGED <<credit, wrote, arrived, produced, read>> /\ UNCHANGED toApi
    BY <1>10 DEF StreamBreaks, writeSide, session, history
  <2> QED
    BY <1>1, <1>2, <1>3, <1>10, <2>1, StreamBreaksMoves
<1>11. CASE Deliver
  <2>1. UNCHANGED <<credit, wrote, arrived, produced, read>> /\ UNCHANGED toApi
    BY <1>11 DEF Deliver, writeSide, session, history
  <2>2. DeliverMoves
    BY <1>11, DeliverStepMoves
  <2>3. PICK d, a \in Nat :
          /\ UpBytes = d + UpBytes' /\ UpAcks = a + UpAcks'
          /\ \/ SlotBytes' = SlotBytes + d /\ SlotAcks' = SlotAcks + a
             \/ SlotBytes' = 0 /\ SlotAcks' = 0
             \/ SlotBytes' = SlotBytes /\ SlotAcks' = SlotAcks
    BY <2>2 DEF DeliverMoves
  <2>4. UpBytes' \in Nat /\ UpAcks' \in Nat
        /\ UNCHANGED <<DownBytes, InboundBytes, ReadyBytes, TakenAcks>> /\ toApi'.n = toApi.n
    BY <2>1, <2>2 DEF DeliverMoves
  <2>5. arrived' + toApi'.n + InboundBytes' + DownBytes' <= wrote'
    BY <1>3, <2>1, <2>4
  <2>6. read' + ReadyBytes' + SlotBytes' + UpBytes' <= produced'
    <3>1. SlotBytes' + UpBytes' <= SlotBytes + UpBytes /\ SlotBytes' \in Nat
      BY <1>1, <2>3, <2>4
    <3>2. read + ReadyBytes + SlotBytes' + UpBytes' <= produced
      BY <1>1, <1>3, <2>4, <3>1, FewerUp
    <3> QED
      BY <2>1, <2>4, <3>2
  <2>7. credit' + wrote' + (UpAcks' + SlotAcks' + TakenAcks') <= Window + arrived'
    <3>1. SlotAcks' + UpAcks' <= SlotAcks + UpAcks /\ SlotAcks' \in Nat
      BY <1>1, <2>3, <2>4
    <3>2. credit + wrote \in Nat /\ Window + arrived \in Nat
      BY <1>1, <1>2
    <3>3. credit + wrote + (UpAcks' + SlotAcks' + TakenAcks) <= Window + arrived
      BY <1>1, <1>3, <2>4, <3>1, <3>2, FewerAcks
    <3> QED
      BY <2>1, <2>4, <3>3
  <2> QED
    BY <2>5, <2>6, <2>7
<1>12. CASE HandleKubeStreamData
  <2>1. UNCHANGED <<credit, wrote, arrived, produced, read>> /\ UNCHANGED toApi
    BY <1>12 DEF HandleKubeStreamData, sessOnly, writeSide, history
  <2>2. HandleMoves
    BY <1>12, HandleStepMoves
  <2> QED
    BY <1>1, <1>2, <1>3, <2>1, <2>2 DEF HandleMoves
<1>13. CASE ToApiStep \/ ToApiWrite
  <2>1. UNCHANGED <<credit, wrote, produced, read>>
    BY <1>13 DEF ToApiStep, ToApiTake, ToApiDone, ToApiWriteFails, ToApiWrite, toApiOnly, writeSide
  <2>2. ToApiMoves
    BY <1>13, ToApiStepMoves
  <2> QED
    BY <1>1, <1>2, <1>3, <2>1, <2>2 DEF ToApiMoves
<1>14. CASE ToBackendStep \/ \E n \in Sizes : ToBackendRead(n)
  <2>1. UNCHANGED <<credit, wrote, arrived, read>> /\ UNCHANGED toApi
    BY <1>14 DEF ToBackendStep, ToBackendReadEnds, ToBackendDone, ToBackendRead, toBackendOnly,
                 writeSide
  <2>2. ToBackendMoves
    BY <1>14, ToBackendStepMoves
  <2> QED
    BY <1>1, <1>2, <1>3, <2>1, <2>2 DEF ToBackendMoves
<1>15. CASE UNCHANGED vars
  <2>1. Quiet
    BY <1>15, SumsUnchanged DEF vars, wires, readSide, writeSide, session, history, Quiet
  <2> QED
    BY <1>1, <1>2, <1>3, <2>1 DEF Quiet
<1> QED
  BY <1>5, <1>6, <1>7, <1>8, <1>9, <1>10, <1>11, <1>12, <1>13, <1>14, <1>15
     DEF Next, DemuxStep, ReaderStep, ReceiveStep, Environment, QuietStep

-----------------------------------------------------------------------------
(* No byte that Write reported is missing while the session runs.          *)

\* A session that is gone has told its goroutines, and a broken stream carries
\* nothing.
LEMMA EndingsStep ==
  ASSUME Shape, Endings, [Next]_vars
  PROVE  Endings'
<1>1. (~Live => up = <<>>) /\ (sess = "gone" => done) /\ done \in BOOLEAN
  BY DEF Endings, Shape, SessionShape, AgentTypeOK
<1>2. SUFFICES (~Live' => up' = <<>>) /\ (sess' = "gone" => done')
  BY DEF Endings
<1>3. CASE (\E n \in Sizes : Write(n)) \/ WriterStep
  BY <1>1, <1>3 DEF WriterStep, Write, TakeCredit, ReserveFails, writeOnly, session, Live
<1>4. CASE DemuxStep \/ ReaderStep \/ Close \/ AgentClose
  BY <1>1, <1>4 DEF DemuxStep, DemuxTake, DemuxSlotClosed, DemuxConnClosed, ReaderStep, ReadChunk,
                    ReadEnds, ReadConnClosed, Close, AgentClose, wires, session, Live
<1>5. CASE Deliver
  BY <1>1, <1>5 DEF Deliver, session, Live
<1>6. CASE HandleKubeStreamData
  BY <1>1, <1>6 DEF HandleKubeStreamData, Saturated, sessOnly, Live
<1>7. CASE ToApiStep \/ ToApiWrite
  BY <1>1, <1>7 DEF ToApiStep, ToApiTake, ToApiDone, ToApiWriteFails, ToApiWrite, toApiOnly, Live
<1>8. CASE ToBackendStep \/ \E n \in Sizes : ToBackendRead(n)
  BY <1>1, <1>8 DEF ToBackendStep, ToBackendReadEnds, ToBackendDone, ToBackendRead, toBackendOnly,
                    Live
<1>9. CASE Watch \/ ApiserverEnds \/ SessionReturns \/ StreamBreaks
  BY <1>1, <1>9 DEF Watch, ApiserverEnds, SessionReturns, StreamBreaks, wires, session, Live
<1>10. CASE UNCHANGED vars
  BY <1>1, <1>10 DEF vars, wires, session, Live
<1> QED
  BY <1>3, <1>4, <1>5, <1>6, <1>7, <1>8, <1>9, <1>10 DEF Next, ReceiveStep, Environment

LEMMA NothingLostStep ==
  ASSUME Shape, Shape', Endings, NothingLostInSession, [Next]_vars
  PROVE  NothingLostInSession'
<1> DEFINE P == Live /\ ~done /\ toApi.at # "exit"
<1>1. /\ wrote \in Nat /\ arrived \in Nat /\ toApi.n \in Nat
      /\ DownBytes \in Nat /\ InboundBytes \in Nat
  BY Numbers
<1>2. P => wrote = arrived + (DownBytes + InboundBytes + toApi.n)
  BY LedgersBySums DEF LedgersInSums
<1>3. SUFFICES ASSUME P'
               PROVE  wrote' = arrived' + (DownBytes' + InboundBytes' + toApi'.n)
  BY LedgersBySums DEF LedgersInSums
<1>4. CASE (\E n \in Sizes : Write(n)) \/ WriterStep
  <2>1. WriterMoves
    BY <1>4, WriterStepMoves
  <2>2. P
    BY <1>3, <2>1 DEF WriterMoves, Live
  <2>3. PICK n \in Nat : \/ DownBytes' = DownBytes + n /\ wrote' = wrote + n
                         \/ DownBytes' = DownBytes /\ wrote' = wrote
    BY <2>1 DEF WriterMoves
  <2>4. UNCHANGED <<InboundBytes, arrived>> /\ toApi'.n = toApi.n
    BY <2>1 DEF WriterMoves
  <2> QED
    BY <1>1, <1>2, <2>2, <2>3, <2>4
<1>5. CASE DemuxTake \/ ReadChunk \/ DemuxConnClosed \/ Deliver
  <2>1. UNCHANGED <<stream, down, session, wrote, arrived>>
    BY <1>5 DEF DemuxTake, ReadChunk, DemuxConnClosed, Deliver, wires, history
  <2>3. P /\ toApi'.n = toApi.n /\ UNCHANGED <<down, inbound>>
    BY <1>3, <2>1 DEF session, Live
  <2>2. UNCHANGED <<DownBytes, InboundBytes>>
    BY <2>3, SumsUnchanged
  <2> QED
    BY <1>2, <2>1, <2>2, <2>3
<1>6. CASE QuietStep
  <2>1. P
    <3>1. UNCHANGED <<stream, toApi>> /\ (done' \/ done' = done)
      BY <1>6 DEF QuietStep, DemuxSlotClosed, ReadEnds, ReadConnClosed, Close, AgentClose,
                  Watch, SessionReturns, ApiserverEnds, wires, session
    <3> QED
      BY <1>3, <3>1 DEF Live
  <2>2. Quiet
    BY <1>6, QuietMoves
  <2> QED
    BY <1>2, <2>1, <2>2 DEF Quiet
<1>7. CASE HandleKubeStreamData
  <2>1. HandleMoves
    BY <1>7, HandleStepMoves
  <2>2. UNCHANGED <<wrote, arrived, stream, sess, toApi>>
    BY <1>7 DEF HandleKubeStreamData, sessOnly, history
  <2>3. ~(sess = "gone")
    <3>1. sess = "gone" => done
      BY DEF Endings
    <3>2. done => done'
      BY <1>7 DEF HandleKubeStreamData, Saturated
    <3> QED
      BY <1>3, <3>1, <3>2
  <2>4. PICK n \in Nat : /\ DownBytes = n + DownBytes' /\ DownBytes' \in Nat
                         /\ InboundBytes' = InboundBytes + n /\ UNCHANGED done
    BY <1>3, <2>1, <2>3 DEF HandleMoves
  <2>5. P
    BY <1>3, <2>2, <2>4 DEF Live
  <2>6. UNCHANGED <<wrote, arrived>> /\ toApi'.n = toApi.n
    BY <2>2
  <2> QED
    BY <1>1, <1>2, <2>4, <2>5, <2>6
<1>8. CASE ToApiStep \/ ToApiWrite
  <2>1. UNCHANGED <<wrote, stream, done>> /\ toApi.at # "exit"
    BY <1>8 DEF ToApiStep, ToApiTake, ToApiDone, ToApiWriteFails, ToApiWrite, toApiOnly
  <2>2. P
    BY <1>3, <2>1 DEF Live
  <2>3. ToApiMoves
    BY <1>8, ToApiStepMoves
  <2>4. \/ /\ InboundBytes = toApi'.n + InboundBytes' /\ InboundBytes' \in Nat
           /\ arrived' = arrived /\ toApi.n = 0
        \/ arrived' = arrived + toApi.n /\ InboundBytes' = InboundBytes /\ toApi'.n = 0
    BY <1>3, <2>3 DEF ToApiMoves
  <2>5. DownBytes' = DownBytes /\ wrote' = wrote /\ toApi'.n \in Nat
    BY <2>1, <2>3 DEF ToApiMoves
  <2> QED
    BY <1>1, <1>2, <2>2, <2>4, <2>5
<1>9. CASE ToBackendStep \/ \E n \in Sizes : ToBackendRead(n)
  <2>1. UNCHANGED <<wrote, arrived, down, inbound>> /\ UNCHANGED toApi /\ P
    BY <1>3, <1>9 DEF ToBackendStep, ToBackendReadEnds, ToBackendDone, ToBackendRead,
                      toBackendOnly, Live
  <2>2. UNCHANGED <<DownBytes, InboundBytes>>
    BY <2>1, SumsUnchanged
  <2> QED
    BY <1>2, <2>1, <2>2
<1>10. CASE StreamBreaks
  BY <1>3, <1>10 DEF StreamBreaks, Live
<1>11. CASE UNCHANGED vars
  <2>1. UNCHANGED <<wrote, arrived, down, inbound>> /\ UNCHANGED toApi /\ P
    BY <1>3, <1>11 DEF vars, wires, session, history, Live
  <2>2. UNCHANGED <<DownBytes, InboundBytes>>
    BY <2>1, SumsUnchanged
  <2> QED
    BY <1>2, <2>1, <2>2
<1> QED
  BY <1>4, <1>5, <1>6, <1>7, <1>8, <1>9, <1>10, <1>11
     DEF Next, DemuxStep, ReaderStep, ReceiveStep, Environment, QuietStep

-----------------------------------------------------------------------------
(* The agent's eof stays behind its data, and nothing is missing in front. *)

LEMMA EofTail ==
  ASSUME NEW s \in Seq(Frames), s # <<>>, NEW t, t = Tail(s)
  PROVE  /\ EofCloses(s) => EofCloses(t) /\ Head(s).kind # "overflow"
         /\ EofCloses(s) /\ IsEof(Head(s)) => HasEof(s) /\ Bytes("data", t) = 0
         /\ HasEof(t) => HasEof(s)
         /\ FinalCloses(s) => FinalCloses(t)
         /\ FinalCloses(s) /\ Final(Head(s)) => HasFinal(s) /\ t = <<>>
         /\ HasFinal(t) => HasFinal(s)
         /\ IsEof(Head(s)) => HasEof(s) /\ HasFinal(s)
<1>1. t \in Seq(Frames) /\ Len(t) \in Nat /\ Len(s) = Len(t) + 1 /\ Head(s) = s[1]
      /\ \A i \in 1 .. Len(t) : t[i] = s[i + 1]
  OBVIOUS
<1>2. PICK k \in Nat : k = Len(t)
  BY <1>1
<1>3. Len(s) = k + 1 /\ 1 \in 1 .. k + 1
  BY <1>1, <1>2
<1>4. ASSUME EofCloses(s) PROVE EofCloses(t) /\ Head(s).kind # "overflow"
  <2>1. \A i \in 1 .. k + 1 :
          /\ s[i].kind # "overflow"
          /\ IsEof(s[i]) => \A j \in i + 1 .. k + 1 : s[j].kind # "data"
    BY <1>3, <1>4 DEF EofCloses
  <2>2. ASSUME NEW i \in 1 .. k
        PROVE  /\ t[i].kind # "overflow"
               /\ IsEof(t[i]) => \A j \in i + 1 .. k : t[j].kind # "data"
    <3>1. i + 1 \in 1 .. k + 1 /\ t[i] = s[i + 1]
      BY <1>1, <1>2
    <3>2. ASSUME IsEof(t[i]), NEW j \in i + 1 .. k PROVE t[j].kind # "data"
      <4>1. j + 1 \in (i + 1) + 1 .. k + 1 /\ j \in 1 .. k
        OBVIOUS
      <4>2. t[j] = s[j + 1]
        BY <1>1, <1>2, <4>1
      <4> QED
        BY <2>1, <3>1, <3>2, <4>1, <4>2
    <3> QED
      BY <2>1, <3>1, <3>2
  <2> QED
    BY <1>1, <1>2, <1>3, <2>1, <2>2 DEF EofCloses
<1>5. ASSUME EofCloses(s), IsEof(Head(s)) PROVE HasEof(s) /\ Bytes("data", t) = 0
  <2>1. HasEof(s)
    BY <1>1, <1>3, <1>5 DEF HasEof
  <2>2. \A j \in 1 + 1 .. k + 1 : s[j].kind # "data"
    BY <1>1, <1>3, <1>5 DEF EofCloses
  <2>3. \A i \in 1 .. Len(t) : t[i].kind # "data"
    <3> SUFFICES ASSUME NEW i \in 1 .. k PROVE t[i].kind # "data"
      BY <1>2
    <3>1. i + 1 \in 1 + 1 .. k + 1 /\ t[i] = s[i + 1]
      BY <1>1, <1>2
    <3> QED
      BY <2>2, <3>1
  <2> QED
    BY <1>1, <2>1, <2>3, BytesNone
<1>6. \A i \in 1 .. k : i + 1 \in 1 .. k + 1 /\ t[i] = s[i + 1]
  BY <1>1, <1>2
<1>7. HasEof(t) => HasEof(s)
  BY <1>2, <1>3, <1>6 DEF HasEof
<1>8. HasFinal(t) => HasFinal(s)
  BY <1>2, <1>3, <1>6 DEF HasFinal
<1>9. FinalCloses(s) => FinalCloses(t)
  BY <1>2, <1>3, <1>6 DEF FinalCloses
<1>10. ASSUME FinalCloses(s), Final(Head(s)) PROVE HasFinal(s) /\ t = <<>>
  <2>1. HasFinal(s)
    BY <1>1, <1>3, <1>10 DEF HasFinal
  <2>2. Len(t) = 0
    <3>1. \A i \in 1 .. k + 1 : Final(s[i]) => i = k + 1
      BY <1>3, <1>10 DEF FinalCloses
    <3>2. 1 = k + 1
      BY <1>1, <1>3, <1>10, <3>1
    <3> QED
      BY <1>2, <3>2
  <2> QED
    BY <1>1, <2>1, <2>2
<1>11. IsEof(Head(s)) => HasEof(s) /\ HasFinal(s)
  BY <1>1, <1>3 DEF HasEof, HasFinal, IsEof, Final
<1> QED
  BY <1>4, <1>5, <1>7, <1>8, <1>9, <1>10, <1>11

LEMMA EofAppend ==
  ASSUME NEW s \in Seq(Frames), NEW f \in Frames, NEW t, t = Append(s, f)
  PROVE  /\ EofCloses(s) /\ f.kind # "overflow" /\ (f.kind = "data" => ~HasEof(s)) => EofCloses(t)
         /\ HasEof(t) => HasEof(s) \/ IsEof(f)
         /\ HasFinal(t) => HasFinal(s) \/ Final(f)
         /\ ~HasFinal(s) => FinalCloses(t)
<1>1. Len(s) \in Nat /\ Len(t) = Len(s) + 1 /\ t[Len(s) + 1] = f
      /\ \A i \in 1 .. Len(s) : t[i] = s[i]
  OBVIOUS
<1>2. PICK k \in Nat : k = Len(s)
  BY <1>1
<1>3. Len(t) = k + 1 /\ t[k + 1] = f /\ \A i \in 1 .. k : t[i] = s[i]
  BY <1>1, <1>2
<1>4. \A i \in 1 .. k + 1 : i \in 1 .. k \/ i = k + 1
  OBVIOUS
<1>5. HasEof(t) => HasEof(s) \/ IsEof(f)
  BY <1>2, <1>3, <1>4 DEF HasEof
<1>6. HasFinal(t) => HasFinal(s) \/ Final(f)
  BY <1>2, <1>3, <1>4 DEF HasFinal
<1>7. ~HasFinal(s) => FinalCloses(t)
  BY <1>2, <1>3, <1>4 DEF HasFinal, FinalCloses
<1>8. ASSUME EofCloses(s), f.kind # "overflow", f.kind = "data" => ~HasEof(s)
      PROVE  EofCloses(t)
  <2>1. \A m \in 1 .. k : s[m].kind # "overflow"
    BY <1>2, <1>8 DEF EofCloses
  <2>3. \A m \in 1 .. k, j \in 1 .. k : IsEof(s[m]) /\ m < j => s[j].kind # "data"
    <3> SUFFICES ASSUME NEW m \in 1 .. k, NEW j \in 1 .. k, IsEof(s[m]), m < j
                 PROVE  s[j].kind # "data"
      OBVIOUS
    <3>1. j \in m + 1 .. k
      OBVIOUS
    <3>2. \A l \in m + 1 .. k : s[l].kind # "data"
      BY <1>2, <1>8 DEF EofCloses
    <3> QED
      BY <3>1, <3>2
  <2>2. ASSUME NEW i \in 1 .. k + 1
        PROVE  /\ t[i].kind # "overflow"
               /\ IsEof(t[i]) => \A j \in i + 1 .. k + 1 : t[j].kind # "data"
    <3>1. CASE i = k + 1
      <4>1. \A j \in i + 1 .. k + 1 : FALSE
        BY <3>1
      <4> QED
        BY <1>3, <1>8, <3>1, <4>1
    <3>2. CASE i \in 1 .. k
      <4>1. t[i] = s[i]
        BY <1>3, <3>2
      <4>2. ASSUME IsEof(t[i]), NEW j \in i + 1 .. k + 1 PROVE t[j].kind # "data"
        <5>1. CASE j \in i + 1 .. k
          <6>1. j \in 1 .. k
            BY <3>2, <5>1
          <6>2. t[j] = s[j] /\ IsEof(s[i])
            BY <1>3, <4>1, <4>2, <6>1
          <6>3. s[j].kind # "data"
            BY <2>3, <3>2, <5>1, <6>1, <6>2
          <6> QED
            BY <6>2, <6>3
        <5>2. CASE j = k + 1
          <6>1. HasEof(s)
            BY <1>2, <3>2, <4>1, <4>2 DEF HasEof
          <6> QED
            BY <1>3, <1>8, <5>2, <6>1
        <5>3. j \in i + 1 .. k \/ j = k + 1
          BY <3>2, <4>2
        <5> QED
          BY <5>1, <5>2, <5>3, Zenon
      <4>3. t[i].kind # "overflow"
        BY <2>1, <3>2, <4>1
      <4> QED
        BY <4>2, <4>3
    <3> QED
      BY <1>4, <3>1, <3>2
  <2> QED
    BY <1>3, <2>2 DEF EofCloses
<1> QED
  BY <1>5, <1>6, <1>7, <1>8

LEMMA UpSends ==
  ASSUME Shape, UpEnds, NEW f \in Frames, up' = IF Live THEN Append(up, f) ELSE up,
         f.kind # "overflow", f.kind = "data" => toBackend.at # "exit",
         IsEof(f) => toBackend'.at = "exit", toBackend.at = "exit" => toBackend'.at = "exit"
  PROVE  UpEnds'
<1>1. up \in Seq(Frames)
  BY Numbers
<1>2. EofCloses(up) /\ (HasEof(up) => toBackend.at = "exit")
  BY DEF UpEnds
<1>3. CASE Live
  <2>1. up' = Append(up, f)
    BY <1>3
  <2>2. EofCloses(up') /\ (HasEof(up') => HasEof(up) \/ IsEof(f))
    BY <1>1, <1>2, <2>1, EofAppend
  <2> QED
    BY <1>2, <2>2 DEF UpEnds
<1>4. CASE ~Live
  BY <1>2, <1>4 DEF UpEnds
<1> QED
  BY <1>3, <1>4

LEMMA UpEndsStep ==
  ASSUME Shape, Shape', UpEnds, [Next]_vars
  PROVE  UpEnds'
<1>1. up \in Seq(Frames) /\ toBackend \in [at : {"read", "exit"}, credit : Nat]
  BY Numbers DEF Shape, SessionShape, AgentTypeOK
<1>2. CASE UNCHANGED <<up, toBackend>>
  BY <1>2 DEF UpEnds
<1>3. CASE Deliver
  <2>1. up # <<>> /\ up' = Tail(up) /\ UNCHANGED toBackend
    BY <1>3 DEF Deliver, session
  <2> QED
    BY <1>1, <2>1, EofTail DEF UpEnds
<1>4. CASE ToApiWrite
  <2>1. toApi.n \in Sizes
    BY <1>4 DEF ToApiWrite, Shape, SessionShape
  <2>2. Ack(toApi.n) \in Frames /\ Ack(toApi.n).kind = "ack"
    BY <2>1, FrameFacts DEF Ack, Frame
  <2>3. up' = (IF Live THEN Append(up, Ack(toApi.n)) ELSE up) /\ UNCHANGED toBackend
    BY <1>4 DEF ToApiWrite, toApiOnly
  <2> QED
    BY <2>2, <2>3, UpSends DEF IsEof
<1>5. CASE \E n \in Sizes : ToBackendRead(n)
  <2>1. PICK n \in Sizes : ToBackendRead(n)
    BY <1>5
  <2>2. Data(n) \in Frames /\ Data(n).kind = "data"
    BY FrameFacts DEF Data, Frame
  <2>3. up' = (IF Live THEN Append(up, Data(n)) ELSE up) /\ toBackend.at = "read"
    BY <2>1 DEF ToBackendRead
  <2> QED
    BY <2>2, <2>3, UpSends DEF IsEof
<1>6. CASE ToBackendReadEnds
  <2>1. Eof \in Frames /\ Eof.kind = "eof"
    BY FrameFacts DEF Eof, Frame
  <2>2. up' = (IF Live THEN Append(up, Eof) ELSE up) /\ toBackend'.at = "exit"
    BY <1>1, <1>6 DEF ToBackendReadEnds
  <2> QED
    BY <2>1, <2>2, UpSends
<1>7. CASE ToBackendDone
  BY <1>1, <1>7 DEF ToBackendDone, UpEnds
<1>8. CASE SessionReturns
  <2>1. Frame("closed", 0) \in Frames /\ Frame("closed", 0).kind = "closed"
    BY FrameFacts DEF Frame
  <2>2. up' = (IF Live THEN Append(up, Frame("closed", 0)) ELSE up) /\ UNCHANGED toBackend
    BY <1>8 DEF SessionReturns
  <2> QED
    BY <2>1, <2>2, UpSends DEF IsEof
<1>9. CASE StreamBreaks
  <2>1. up' = <<>> /\ UNCHANGED toBackend
    BY <1>9 DEF StreamBreaks, session
  <2>2. Len(<<>>) = 0 /\ \A i \in 1 .. 0 : FALSE
    OBVIOUS
  <2> QED
    BY <2>1, <2>2 DEF UpEnds, EofCloses, HasEof
<1>10. CASE (\E n \in Sizes : Write(n)) \/ WriterStep \/ HandleKubeStreamData
  BY <1>2, <1>10 DEF WriterStep, Write, TakeCredit, ReserveFails, writeOnly, session,
                     HandleKubeStreamData, sessOnly
<1>11. CASE DemuxStep \/ ReaderStep \/ Close \/ AgentClose
  BY <1>2, <1>11 DEF DemuxStep, DemuxTake, DemuxSlotClosed, DemuxConnClosed, ReaderStep, ReadChunk,
                     ReadEnds, ReadConnClosed, Close, AgentClose, wires, session
<1>12. CASE ToApiStep \/ Watch \/ ApiserverEnds
  BY <1>2, <1>12 DEF ToApiStep, ToApiTake, ToApiDone, ToApiWriteFails, toApiOnly, Watch,
                     ApiserverEnds, wires
<1>13. CASE UNCHANGED vars
  BY <1>2, <1>13 DEF vars, wires, session
<1> QED
  BY <1>3, <1>4, <1>5, <1>6, <1>7, <1>8, <1>9, <1>10, <1>11, <1>12, <1>13
     DEF Next, ReceiveStep, Environment, ToBackendStep

LEMMA SlotEndsStep ==
  ASSUME Shape, Shape', UpEnds, SlotEnds, [Next]_vars
  PROVE  SlotEnds'
<1>1. /\ up \in Seq(Frames) /\ slot.buf \in Seq(Frames) /\ slot.open \in BOOLEAN
      /\ slot \in [open : BOOLEAN, buf : Seq(Frames)] /\ closed \in BOOLEAN
  BY Numbers DEF Shape, ReadShape, WriteShape
<1>2. /\ FinalCloses(slot.buf) /\ (HasFinal(slot.buf) => ~slot.open)
      /\ closed \/ demux = "done" => ~slot.open
  BY DEF SlotEnds
<1>3. CASE UNCHANGED <<slot, closed, demux>>
  BY <1>3 DEF SlotEnds
<1>4. CASE DemuxTake
  <2>1. slot.buf # <<>> /\ slot'.buf = Tail(slot.buf) /\ slot'.open = slot.open /\ UNCHANGED closed
    BY <1>1, <1>4 DEF DemuxTake
  <2>2. FinalCloses(slot'.buf) /\ (HasFinal(slot'.buf) => ~slot'.open)
    BY <1>1, <1>2, <2>1, EofTail
  <2>3. demux' = "done" => ~slot'.open
    <3>1. Head(slot.buf) \in Frames
      BY <1>1, <2>1, HeadFacts
    <3>2. demux' = "done" => Final(Head(slot.buf))
      BY <1>4, <3>1, FrameKinds DEF DemuxTake, DemuxEnds, Final
    <3> QED
      BY <1>1, <1>2, <2>1, <3>2, EofTail
  <2> QED
    BY <1>2, <2>1, <2>2, <2>3 DEF SlotEnds
<1>5. CASE DemuxSlotClosed \/ DemuxConnClosed
  <2>1. UNCHANGED slot /\ UNCHANGED closed /\ ~slot.open
    BY <1>2, <1>5 DEF DemuxSlotClosed, DemuxConnClosed
  <2> QED
    BY <1>2, <2>1 DEF SlotEnds
<1>6. CASE Close \/ AgentClose
  <2>1. slot'.buf = slot.buf /\ ~slot'.open
    BY <1>1, <1>6 DEF Close, AgentClose
  <2> QED
    BY <1>2, <2>1 DEF SlotEnds
<1>7. CASE Deliver
  <2>1. DeliverMoves /\ up # <<>> /\ UNCHANGED <<closed, demux>>
    BY <1>7, DeliverStepMoves DEF Deliver
  <2> DEFINE f == Head(up)
  <2>2. f \in Frames /\ f.kind # "overflow"
    BY <1>1, <2>1, HeadFacts, EofTail DEF UpEnds
  <2> HIDE DEF f
  <2>3. CASE slot.open /\ slot'.buf = Append(slot.buf, f)
             /\ slot'.open = (f.kind \notin {"eof", "closed"})
    <3>1. FinalCloses(slot'.buf) /\ (HasFinal(slot'.buf) => Final(f))
      BY <1>1, <1>2, <2>2, <2>3, EofAppend
    <3>2. Final(f) => ~slot'.open
      BY <2>2, <2>3 DEF Final
    <3> QED
      BY <1>2, <2>1, <2>3, <3>1, <3>2 DEF SlotEnds
  <2>4. CASE ~slot'.open /\ slot'.buf = <<Frame("overflow", 0)>>
    <3>1. Len(slot'.buf) = 1 /\ \A i \in 1 .. 1 : i = 1
      BY <2>4
    <3> QED
      BY <2>4, <3>1 DEF SlotEnds, FinalCloses
  <2>5. CASE ~slot.open /\ slot' = slot
    BY <1>3, <2>1, <2>5
  <2> QED
    BY <2>1, <2>3, <2>4, <2>5 DEF DeliverMoves, f
<1>8. CASE (\E n \in Sizes : Write(n)) \/ WriterStep \/ HandleKubeStreamData \/ ReaderStep
  BY <1>3, <1>8 DEF WriterStep, Write, TakeCredit, ReserveFails, writeOnly, readSide,
                    HandleKubeStreamData, sessOnly, ReaderStep, ReadChunk, ReadEnds, ReadConnClosed
<1>9. CASE ToApiStep \/ ToApiWrite \/ ToBackendStep \/ \E n \in Sizes : ToBackendRead(n)
  BY <1>3, <1>9 DEF ToApiStep, ToApiTake, ToApiDone, ToApiWriteFails, ToApiWrite, toApiOnly,
                    ToBackendStep, ToBackendReadEnds, ToBackendDone, ToBackendRead, toBackendOnly,
                    readSide
<1>10. CASE Watch \/ ApiserverEnds \/ SessionReturns \/ StreamBreaks \/ UNCHANGED vars
  BY <1>3, <1>10 DEF Watch, ApiserverEnds, SessionReturns, StreamBreaks, vars, readSide
<1> QED
  BY <1>4, <1>5, <1>6, <1>7, <1>8, <1>9, <1>10
     DEF Next, DemuxStep, ReceiveStep, Environment

\* No byte that pumpToBackend took is missing while the slot admits frames;
\* none is once the eof is in the slot, and none after demuxLoop has met it.
EofIsComplete ==
  /\ Live /\ slot.open => read + ReadyBytes + SlotBytes + UpBytes = produced
  /\ HasEof(slot.buf) /\ demux = "run" =>
       toBackend.at = "exit" /\ read + ReadyBytes + SlotBytes = produced
  /\ readErr = "peer eof" =>
       demux = "done" /\ toBackend.at = "exit" /\ read + ReadyBytes = produced
  /\ reader = "eof" => demux = "done" /\ readBytes = <<>>

LEMMA PlusNat == \A m \in Nat, n \in Nat : m + n \in Nat
OBVIOUS

LEMMA PlusZero == \A m \in Nat : m + 0 = m
OBVIOUS

\* A step that changes none of what EofIsComplete speaks of.
LEMMA CompleteUnchanged ==
  ASSUME EofIsComplete, UNCHANGED <<demux, readBytes, readErr, reader, read, produced>>,
         slot'.buf = slot.buf, slot'.open => slot.open, Live' => Live /\ UNCHANGED UpBytes,
         toBackend.at = "exit" => toBackend'.at = "exit"
  PROVE  EofIsComplete'
<1>1. UNCHANGED <<ReadyBytes, SlotBytes>>
  BY SumsUnchanged
<1> QED
  BY <1>1 DEF EofIsComplete

LEMMA CompleteStep ==
  ASSUME Shape, Shape', Endings, UpEnds, SlotEnds, EofIsComplete, [Next]_vars
  PROVE  EofIsComplete'
<1>1. /\ produced \in Nat /\ read \in Nat /\ UpBytes \in Nat /\ SlotBytes \in Nat
      /\ ReadyBytes \in Nat /\ up \in Seq(Frames) /\ slot.buf \in Seq(Frames)
  BY Numbers
<1>2. /\ Live /\ slot.open => read + ReadyBytes + SlotBytes + UpBytes = produced
      /\ HasEof(slot.buf) /\ demux = "run" =>
           toBackend.at = "exit" /\ read + ReadyBytes + SlotBytes = produced
      /\ readErr = "peer eof" =>
           demux = "done" /\ toBackend.at = "exit" /\ read + ReadyBytes = produced
      /\ reader = "eof" => demux = "done" /\ readBytes = <<>>
  BY DEF EofIsComplete
<1>3. /\ FinalCloses(slot.buf) /\ (HasFinal(slot.buf) => ~slot.open)
      /\ closed \/ demux = "done" => ~slot.open
      /\ EofCloses(up) /\ (HasEof(up) => toBackend.at = "exit")
  BY DEF SlotEnds, UpEnds
<1>4. slot \in [open : BOOLEAN, buf : Seq(Frames)] /\ demux \in {"run", "done"}
      /\ toBackend \in [at : {"read", "exit"}, credit : Nat]
  BY DEF Shape, ReadShape, SessionShape, AgentTypeOK
<1>5. CASE DemuxTake
  <2> DEFINE f == Head(slot.buf)
             d == Weight("data", f)
  <2>1. /\ demux = "run" /\ slot.buf # <<>> /\ slot'.buf = Tail(slot.buf) /\ slot'.open = slot.open
        /\ UNCHANGED <<stream, toBackend, reader, read, produced>>
    BY <1>4, <1>5 DEF DemuxTake, wires, session, history
  <2>2. f \in Frames
    BY <1>1, <2>1, HeadFacts
  <2>3. /\ d \in Nat /\ SlotBytes = d + SlotBytes' /\ SlotBytes' \in Nat
        /\ ReadyBytes' = ReadyBytes + d /\ UNCHANGED UpBytes
    BY <1>5, DemuxTakeMoves DEF DemuxMoves
  <2>4. readErr # "peer eof" /\ reader # "eof"
    BY <1>2, <2>1
  <2> HIDE DEF d
  <2>5. ReadyBytes' + SlotBytes' = ReadyBytes + SlotBytes /\ ReadyBytes' \in Nat
    BY <1>1, <2>3
  <2>6. /\ read + ReadyBytes' + SlotBytes' + UpBytes = read + ReadyBytes + SlotBytes + UpBytes
        /\ read + ReadyBytes' + SlotBytes' = read + ReadyBytes + SlotBytes
    BY <1>1, <2>3, <2>5
  <2>7. Live' /\ slot'.open => read' + ReadyBytes' + SlotBytes' + UpBytes' = produced'
    BY <1>2, <2>1, <2>3, <2>6 DEF Live
  <2>8. HasEof(slot'.buf) => toBackend'.at = "exit" /\ read' + ReadyBytes' + SlotBytes' = produced'
    <3>1. HasEof(slot'.buf) => HasEof(slot.buf)
      BY <1>1, <2>1, EofTail
    <3> QED
      BY <1>2, <2>1, <2>6, <3>1
  <2>9. readErr' = "peer eof" =>
          demux' = "done" /\ toBackend'.at = "exit" /\ read' + ReadyBytes' = produced'
    <3> SUFFICES ASSUME readErr' = "peer eof"
                 PROVE  demux' = "done" /\ toBackend'.at = "exit" /\ read' + ReadyBytes' = produced'
      OBVIOUS
    <3>1. IsEof(f) /\ demux' = "done"
      BY <1>5, <2>2, <2>4, FrameKinds DEF DemuxTake, DemuxEnds, IsEof, f
    <3>2. HasEof(slot.buf) /\ Final(f)
      BY <1>1, <2>1, <3>1, EofTail DEF f, IsEof, Final
    <3>3. slot'.buf = <<>>
      BY <1>1, <1>3, <2>1, <3>2, EofTail DEF f
    <3>4. SlotBytes' = 0
      BY <3>3, BytesEmpty DEF SlotBytes
    <3>5. toBackend.at = "exit" /\ read + ReadyBytes + SlotBytes = produced
      BY <1>2, <2>1, <3>2
    <3>6. read + ReadyBytes' + 0 = produced
      BY <2>6, <3>4, <3>5
    <3>7. read + ReadyBytes' = produced
      <4>1. read \in Nat /\ ReadyBytes' \in Nat
        BY <1>1, <2>5
      <4>2. read + ReadyBytes' \in Nat
        BY <4>1, PlusNat, Zenon
      <4> QED
        BY <3>6, <4>2, PlusZero
    <3> QED
      BY <2>1, <3>1, <3>5, <3>7
  <2> QED
    BY <2>1, <2>4, <2>7, <2>8, <2>9 DEF EofIsComplete
<1>6. CASE DemuxSlotClosed \/ DemuxConnClosed
  <2>1. demux' = "done" /\ demux = "run" /\ readErr' # "peer eof" /\ ~slot'.open
        /\ UNCHANGED reader
    BY <1>3, <1>6 DEF DemuxSlotClosed, DemuxConnClosed, DemuxEnds
  <2> QED
    BY <1>2, <2>1 DEF EofIsComplete
<1>7. CASE ReadChunk
  <2>1. PICK n \in Nat :
          /\ ReadyBytes = n + ReadyBytes' /\ ReadyBytes' \in Nat /\ read' = read + n
          /\ UNCHANGED <<UpBytes, SlotBytes>>
    BY <1>7, ReadChunkMoves
  <2>2. reader' # "eof" /\ UNCHANGED <<stream, slot, demux, readErr, toBackend, produced>>
    BY <1>7 DEF ReadChunk, wires, session
  <2>3. read' + ReadyBytes' = read + ReadyBytes
    BY <1>1, <2>1
  <2>4. read' + ReadyBytes' + SlotBytes' = read + ReadyBytes + SlotBytes
    BY <2>1, <2>3
  <2>5. read' + ReadyBytes' + SlotBytes' + UpBytes' = read + ReadyBytes + SlotBytes + UpBytes
    BY <2>1, <2>4
  <2> QED
    BY <1>2, <2>2, <2>3, <2>4, <2>5 DEF EofIsComplete, Live
<1>8. CASE ReadEnds \/ ReadConnClosed
  <2>1. UNCHANGED <<stream, up, slot, demux, readBytes, readErr, toBackend, read, produced>>
        /\ (reader' = "eof" => demux = "done" /\ readBytes = <<>>)
    BY <1>8 DEF ReadEnds, ReadConnClosed, wires, session, history
  <2>2. UNCHANGED <<UpBytes, SlotBytes, ReadyBytes>>
    BY <2>1, SumsUnchanged
  <2> QED
    BY <1>2, <2>1, <2>2 DEF EofIsComplete, Live
<1>9. CASE Deliver
  <2> DEFINE f == Head(up)
             d == Weight("data", f)
  <2>1. up # <<>> /\ DeliverMoves
        /\ UNCHANGED <<stream, demux, readErr, reader, readBytes, toBackend, read, produced>>
    BY <1>9, DeliverStepMoves DEF Deliver, session, history
  <2>2. f \in Frames /\ Live
    BY <1>1, <2>1, HeadFacts DEF Endings
  <2>3. d \in Nat /\ UpBytes = d + UpBytes' /\ UpBytes' \in Nat /\ UNCHANGED ReadyBytes
    BY <2>1 DEF DeliverMoves
  <2>4. CASE slot.open /\ slot'.buf = Append(slot.buf, f) /\ SlotBytes' = SlotBytes + d
    <3>1. read + ReadyBytes + SlotBytes + UpBytes = produced
      BY <1>2, <2>2, <2>4
    <3> HIDE DEF d, f
    <3>2. read + ReadyBytes + SlotBytes' + UpBytes' = produced
      <4>1. PICK m \in Nat : m = read + ReadyBytes
        BY <1>1
      <4>2. PICK a \in Nat, b \in Nat, c \in Nat, p \in Nat :
              a = SlotBytes /\ b = d /\ c = UpBytes' /\ p = produced
        BY <1>1, <2>3
      <4>3. m + a + (b + c) = p
        BY <2>3, <3>1, <4>1, <4>2
      <4>4. m + (a + b) + c = p
        BY <4>3
      <4> QED
        BY <2>4, <4>1, <4>2, <4>4
    <3>3. HasEof(slot'.buf) =>
            toBackend.at = "exit" /\ read + ReadyBytes + SlotBytes' = produced
      <4> SUFFICES ASSUME HasEof(slot'.buf)
                   PROVE  toBackend.at = "exit" /\ read + ReadyBytes + SlotBytes' = produced
        OBVIOUS
      <4>1. ~HasFinal(slot.buf)
        BY <1>3, <2>4
      <4>2. ~HasEof(slot.buf)
        BY <4>1 DEF HasEof, HasFinal, IsEof, Final
      <4>3. IsEof(f)
        BY <1>1, <2>2, <2>4, <4>2, EofAppend
      <4>4. up' = Tail(up)
        BY <1>9 DEF Deliver
      <4>5. HasEof(up) /\ UpBytes' = 0
        BY <1>1, <1>3, <2>1, <4>3, <4>4, EofTail DEF f, UpBytes
      <4>6. read + ReadyBytes + SlotBytes' + 0 = produced
        BY <3>2, <4>5
      <4>7. SlotBytes' \in Nat
        BY <1>1, <2>3, <2>4
      <4>8. read + ReadyBytes + SlotBytes' = produced
        <5>1. read + ReadyBytes \in Nat
          BY <1>1
        <5>2. read + ReadyBytes + SlotBytes' \in Nat
          BY <4>7, <5>1
        <5> QED
          BY <4>6, <5>2, PlusZero
      <4> QED
        BY <1>3, <4>5, <4>8
    <3> QED
      BY <1>2, <2>1, <2>3, <3>2, <3>3 DEF EofIsComplete
  <2>5. CASE ~slot'.open /\ slot'.buf = <<Frame("overflow", 0)>>
    <3>1. ~HasEof(slot'.buf)
      BY <2>5 DEF HasEof, IsEof, Frame
    <3> QED
      BY <1>2, <2>1, <2>3, <2>5, <3>1 DEF EofIsComplete
  <2>6. CASE ~slot.open /\ slot' = slot
    BY <1>2, <2>1, <2>3, <2>6, SumsUnchanged DEF EofIsComplete
  <2> QED
    BY <2>1, <2>4, <2>5, <2>6 DEF DeliverMoves
<1>10. CASE \E n \in Sizes : ToBackendRead(n)
  <2>1. PICK n \in Sizes : ToBackendRead(n)
    BY <1>10
  <2>2. /\ toBackend.at = "read" /\ produced' = produced + n
        /\ UNCHANGED <<stream, slot, demux, readErr, reader, readBytes, read>>
    BY <2>1 DEF ToBackendRead, toBackendOnly, readSide
  <2>3. UNCHANGED <<SlotBytes, ReadyBytes>>
    BY <2>2, SumsUnchanged
  <2>4. n \in Nat /\ (Live => UpBytes' = UpBytes + n)
    <3>1. n \in Nat /\ Data(n) \in Frames /\ Weight("data", Data(n)) = n
      BY FrameFacts, WeightsOf
    <3>2. up' = IF Live THEN Append(up, Data(n)) ELSE up
      BY <2>1 DEF ToBackendRead
    <3> QED
      BY <3>1, <3>2, UpGrows
  <2>5. Live /\ slot.open => read + ReadyBytes + SlotBytes + UpBytes' = produced'
    <3> SUFFICES ASSUME Live, slot.open
                 PROVE  read + ReadyBytes + SlotBytes + UpBytes' = produced'
      OBVIOUS
    <3>1. PICK m \in Nat, a \in Nat : m = read + ReadyBytes + SlotBytes /\ a = UpBytes
      BY <1>1
    <3>2. m + a = produced
      BY <1>2, <3>1
    <3>3. m + (a + n) = produced + n
      BY <1>1, <2>4, <3>2
    <3> QED
      BY <2>2, <2>4, <3>1, <3>3
  <2>6. ~(HasEof(slot.buf) /\ demux = "run") /\ readErr # "peer eof"
    BY <1>2, <2>2
  <2> QED
    BY <1>2, <2>2, <2>3, <2>5, <2>6 DEF EofIsComplete, Live
<1>11. CASE ToBackendStep
  <2>1. UNCHANGED <<stream, slot, demux, readErr, reader, readBytes, read>>
        /\ toBackend.at = "read" /\ UNCHANGED produced
    BY <1>11 DEF ToBackendStep, ToBackendReadEnds, ToBackendDone, OutOfCredit, toBackendOnly,
                 readSide
  <2>2. UNCHANGED UpBytes
    <3>1. CASE ToBackendDone
      BY <3>1, SumsUnchanged DEF ToBackendDone
    <3>2. CASE ToBackendReadEnds
      <4>1. up' = IF Live THEN Append(up, Eof) ELSE up
        BY <3>2 DEF ToBackendReadEnds
      <4>2. Eof \in Frames /\ Weight("data", Eof) = 0
        BY FrameFacts, WeightsOf
      <4> QED
        BY <1>1, <4>1, <4>2, UpGrows
    <3> QED
      BY <1>11, <3>1, <3>2 DEF ToBackendStep
  <2> QED
    BY <2>1, <2>2, CompleteUnchanged DEF Live
<1>12. CASE Close \/ AgentClose
  <2>1. UNCHANGED <<demux, readBytes, readErr, reader, read, produced, stream, up, toBackend>>
        /\ slot'.buf = slot.buf /\ ~slot'.open
    BY <1>4, <1>12 DEF Close, AgentClose, wires, session, history
  <2> QED
    BY <2>1, SumsUnchanged, CompleteUnchanged DEF Live
<1>13. CASE SessionReturns \/ ToApiWrite
  <2>1. UNCHANGED <<demux, readBytes, readErr, reader, read, produced, stream, slot, toBackend>>
    BY <1>13 DEF SessionReturns, ToApiWrite, toApiOnly, readSide, history
  <2>2. UNCHANGED UpBytes
    <3>1. CASE SessionReturns
      BY <3>1, QuietMoves DEF QuietStep, Quiet
    <3>2. CASE ToApiWrite
      BY <3>2, ToApiStepMoves DEF ToApiMoves
    <3> QED
      BY <1>13, <3>1, <3>2
  <2> QED
    BY <2>1, <2>2, CompleteUnchanged DEF Live
<1>14. CASE StreamBreaks
  <2>1. UNCHANGED <<demux, readBytes, readErr, reader, read, produced, slot, toBackend>> /\ ~Live'
    BY <1>14 DEF StreamBreaks, readSide, session, history, Live
  <2> QED
    BY <2>1, CompleteUnchanged
<1>15. CASE \/ (\E n \in Sizes : Write(n)) \/ WriterStep \/ HandleKubeStreamData \/ ToApiStep
            \/ Watch \/ ApiserverEnds \/ UNCHANGED vars
  <2>1. UNCHANGED <<readSide, read, produced, stream, up, toBackend>>
    BY <1>15 DEF WriterStep, Write, TakeCredit, ReserveFails, writeOnly, session,
                 HandleKubeStreamData, sessOnly, ToApiStep, ToApiTake, ToApiDone, ToApiWriteFails,
                 toApiOnly, Watch, ApiserverEnds, vars, wires, history
  <2>2. UNCHANGED <<demux, readBytes, readErr, reader, slot>> /\ UNCHANGED UpBytes
    BY <2>1, SumsUnchanged DEF readSide
  <2> QED
    BY <2>1, <2>2, CompleteUnchanged DEF Live
<1> QED
  BY <1>5, <1>6, <1>7, <1>8, <1>9, <1>10, <1>11, <1>12, <1>13, <1>14, <1>15
     DEF Next, DemuxStep, ReaderStep, ReceiveStep, Environment, ToBackendStep

-----------------------------------------------------------------------------
(* The theorems.                                                           *)

\* Everything above, together.
Inv ==
  /\ Shape /\ Ledgers /\ Endings /\ NothingLostInSession
  /\ UpEnds /\ SlotEnds /\ EofIsComplete

LEMMA InitInv == Init => Inv
<1> SUFFICES ASSUME Init PROVE Inv
  OBVIOUS
<1>1. Shape /\ Ledgers
  BY InitShape, InitLedgers
<1>2. Endings
  BY DEF Init, Endings
<1>3. DownBytes = 0 /\ InboundBytes = 0 /\ UpBytes = 0 /\ SlotBytes = 0 /\ ReadyBytes = 0
  BY BytesEmpty, TotalEmpty
     DEF Init, DownBytes, InboundBytes, UpBytes, SlotBytes, ReadyBytes
<1>4. NothingLostInSession
  BY <1>3, LedgersBySums DEF Init, LedgersInSums
<1>5. Len(<<>>) = 0 /\ \A i \in 1 .. 0 : FALSE
  OBVIOUS
<1>6. up = <<>> /\ slot.buf = <<>> /\ closed = FALSE /\ demux = "run"
      /\ readErr = "none" /\ reader = "reading" /\ read = 0 /\ produced = 0
  BY DEF Init
<1>7. UpEnds /\ SlotEnds
  BY <1>5, <1>6 DEF UpEnds, SlotEnds, EofCloses, HasEof, FinalCloses, HasFinal
<1>8. EofIsComplete
  <2>1. ~HasEof(slot.buf)
    BY <1>5, <1>6 DEF HasEof
  <2> QED
    BY <1>3, <1>6, <2>1 DEF EofIsComplete
<1> QED
  BY <1>1, <1>2, <1>4, <1>7, <1>8 DEF Inv

LEMMA InvStep == Inv /\ [Next]_vars => Inv'
<1> SUFFICES ASSUME Inv, [Next]_vars PROVE Inv'
  OBVIOUS
<1>1. Shape'
  BY ShapeStep DEF Inv
<1>2. Ledgers' /\ Endings' /\ NothingLostInSession' /\ UpEnds' /\ SlotEnds' /\ EofIsComplete'
  BY <1>1, LedgersStep, EndingsStep, NothingLostStep, UpEndsStep, SlotEndsStep, CompleteStep
     DEF Inv
<1> QED
  BY <1>1, <1>2 DEF Inv

\* Read has nothing left to return when it ends with the agent's eof.
LEMMA CompleteEof == Inv => PeerEofIsComplete
<1> SUFFICES ASSUME Inv, reader = "eof", readErr = "peer eof" PROVE read = produced
  BY DEF PeerEofIsComplete
<1>1. read + ReadyBytes = produced /\ readBytes = <<>> /\ read \in Nat
  BY Numbers DEF Inv, EofIsComplete
<1>2. ReadyBytes = 0
  BY <1>1, TotalEmpty DEF ReadyBytes
<1>3. read + 0 = produced
  BY <1>1, <1>2
<1> QED
  BY <1>1, <1>3, PlusZero

\* The credits, the queues, the pumps and the counters of TunnelConn and
\* tunnelSession stay within their types and capacities: Write's credit never
\* exceeds the window, and no more arrives or is read than was written.
THEOREM TypeCorrect == Spec => []TypeOK
<1>1. Inv => TypeOK
  <2> SUFFICES ASSUME Inv PROVE TypeOK
    OBVIOUS
  <2>1. /\ credit \in Nat /\ wrote \in Nat /\ arrived \in Nat /\ produced \in Nat
        /\ read \in Nat /\ toApi.n \in Nat
        /\ DownBytes \in Nat /\ InboundBytes \in Nat /\ UpBytes \in Nat
        /\ SlotBytes \in Nat /\ ReadyBytes \in Nat
        /\ UpAcks \in Nat /\ SlotAcks \in Nat /\ TakenAcks \in Nat
    BY Numbers DEF Inv
  <2>2. /\ arrived + toApi.n + InboundBytes + DownBytes <= wrote
        /\ read + ReadyBytes + SlotBytes + UpBytes <= produced
        /\ credit + wrote + (UpAcks + SlotAcks + TakenAcks) <= Window + arrived
    BY LedgersBySums DEF Inv, Ledgers, LedgersInSums
  <2>3. credit \in 0 .. Window
    BY <2>1, <2>2, ConstantFacts
  <2>4. {wrote, arrived} \subseteq 0 .. MaxDown
    <3>1. wrote \in 0 .. MaxDown
      BY DEF Inv, Shape, WriteShape
    <3>2. arrived <= wrote
      BY <2>1, <2>2
    <3> QED
      BY <2>1, <3>1, <3>2, ConstantFacts
  <2>5. {produced, read} \subseteq 0 .. MaxUp
    <3>1. produced \in 0 .. MaxUp
      BY DEF Inv, Shape, SessionShape
    <3>2. read <= produced
      BY <2>1, <2>2
    <3> QED
      BY <2>1, <3>1, <3>2, ConstantFacts
  <2>6. BackendTypeOK
    BY <2>3 DEF BackendTypeOK, Inv, Shape, ReadShape, WriteShape
  <2> QED
    BY <2>4, <2>5, <2>6 DEF TypeOK, Inv, Shape, WireShape, SessionShape
<1> QED
  BY <1>1, InitInv, InvStep, PTL DEF Spec

\* Write's credit, the bytes it has sent that the apiserver has not got, lost or
\* under way, and the acks on their way back never exceed the window, whatever
\* the frame sizes, the windows and the buffers: the code relies on it when it
\* adds acks to its credit without a bound.
THEOREM CreditWithinWindowHolds == Spec => []CreditWithinWindow
<1>1. Inv => CreditWithinWindow
  BY DEF Inv, Ledgers
<1> QED
  BY <1>1, InitInv, InvStep, PTL DEF Spec

\* While the session runs, what Write reported as sent has reached the apiserver
\* or is in a queue: the full inbound queue loses a frame only with the session.
THEOREM NothingLostInSessionHolds == Spec => []NothingLostInSession
<1>1. Inv => NothingLostInSession
  BY DEF Inv
<1> QED
  BY <1>1, InitInv, InvStep, PTL DEF Spec

\* Read ends with the agent's eof only after it has returned every byte that
\* pumpToBackend took from the conn, though the slot may saturate and close.
THEOREM PeerEofIsCompleteHolds == Spec => []PeerEofIsComplete
<1>1. Inv => PeerEofIsComplete
  BY CompleteEof
<1> QED
  BY <1>1, InitInv, InvStep, PTL DEF Spec

-----------------------------------------------------------------------------
(* TunnelFlow implements TunnelPipe.                                       *)

\* After a step, too, everything summed is a natural number.
SumsAreNumbers ==
  /\ {credit, wrote, arrived, produced, read, toApi.n} \subseteq Nat
  /\ {DownBytes, InboundBytes, UpBytes, SlotBytes, ReadyBytes} \subseteq Nat
  /\ {UpAcks, SlotAcks, TakenAcks} \subseteq Nat

LEMMA InvNumbers == Inv => SumsAreNumbers
BY Numbers DEF Inv, SumsAreNumbers

LEMMA NumbersPrimed == Inv' => SumsAreNumbers'
BY InvNumbers, PTL

LEMMA CompleteEofPrimed == Inv' => PeerEofIsComplete'
BY CompleteEof, PTL

\* A step is one of the pipe's, or a stutter.
PipeStep == Pipe!Next \/ UNCHANGED Pipe!vars

\* Steps that the users of the tunnel do not notice.
LEMMA PipeStutters ==
  ASSUME UNCHANGED <<wrote, arrived, produced, read>>, UNCHANGED toBackend,
         UNCHANGED Verdict
  PROVE  PipeStep
BY DEF PipeStep, Pipe!vars

LEMMA SameVerdict == UNCHANGED <<reader, readErr>> => UNCHANGED Verdict
BY DEF Verdict

LEMMA WithinWindow ==
  ASSUME NEW c \in Nat, NEW w \in Nat, NEW u \in Nat, NEW s \in Nat, NEW k \in Nat,
         NEW m \in Nat, NEW a \in Nat, c + w + (u + s + k) <= m + a
  PROVE  w <= a + m
OBVIOUS

\* What was sent is covered by the credit that it took.
LEMMA WriterPipes ==
  ASSUME Inv, Inv', (\E n \in Sizes : Write(n)) \/ WriterStep
  PROVE  PipeStep
<1>1. UNCHANGED writeOnly
  BY DEF WriterStep, Write, TakeCredit, ReserveFails
<1>2. UNCHANGED <<arrived, produced, read>> /\ UNCHANGED toBackend /\ UNCHANGED Verdict
  BY <1>1, SameVerdict DEF writeOnly, readSide, session
<1>3. ASSUME NEW n \in Sizes, wrote' = wrote + n PROVE PipeStep
  <2>1. credit' + wrote' + (UpAcks' + SlotAcks' + TakenAcks') <= Window + arrived'
    BY LedgersBySums DEF Inv, Ledgers, LedgersInSums
  <2>2. credit' \in Nat /\ wrote' \in Nat /\ arrived' \in Nat /\ UpAcks' \in Nat
        /\ SlotAcks' \in Nat /\ TakenAcks' \in Nat /\ Window \in Nat
    BY NumbersPrimed, ConstantFacts DEF SumsAreNumbers
  <2>3. wrote' <= arrived' + Window
    BY <2>1, <2>2, WithinWindow
  <2>4. Pipe!Send(n)
    BY <1>2, <1>3, <2>3 DEF Pipe!Send
  <2> QED
    BY <2>4 DEF PipeStep, Pipe!Next
<1>4. ASSUME UNCHANGED wrote PROVE PipeStep
  BY <1>2, <1>4, PipeStutters
<1>5. ASSUME NEW have, NEW n \in Sizes, SendFrame(have, n) PROVE PipeStep
  BY <1>3, <1>4, <1>5 DEF SendFrame
<1>6. ASSUME NEW n \in Sizes, Write(n) PROVE PipeStep
  BY <1>4, <1>5, <1>6 DEF Write
<1>7. ASSUME TakeCredit PROVE PipeStep
  <2>1. writer.n \in Sizes
    BY <1>7 DEF TakeCredit, Inv, Shape, WriteShape
  <2> QED
    BY <1>4, <1>5, <1>7, <2>1 DEF TakeCredit
<1>8. ASSUME ReserveFails PROVE PipeStep
  BY <1>4, <1>8 DEF ReserveFails
<1> QED
  BY <1>6, <1>7, <1>8 DEF WriterStep

\* Read returns what pumpToBackend took, and ends completely only with all.
LEMMA ReaderPipes ==
  ASSUME Inv, Inv', ReaderStep
  PROVE  PipeStep
<1>1. ASSUME ReadChunk PROVE PipeStep
  <2>1. /\ UNCHANGED <<wrote, arrived, produced>> /\ UNCHANGED toBackend
        /\ reader = "reading" /\ reader' = "reading" /\ readBytes # <<>>
        /\ read' = read + Head(readBytes)
    BY <1>1 DEF ReadChunk, session
  <2>2. Head(readBytes) \in Sizes
    BY <2>1, HeadFacts DEF Inv, Shape, ReadShape
  <2>3. read' <= produced
    <3>1. read' + ReadyBytes' + SlotBytes' + UpBytes' <= produced'
      BY LedgersBySums DEF Inv, Ledgers, LedgersInSums
    <3>2. read' \in Nat /\ produced' \in Nat /\ ReadyBytes' \in Nat /\ SlotBytes' \in Nat
          /\ UpBytes' \in Nat
      BY NumbersPrimed DEF SumsAreNumbers
    <3> QED
      BY <2>1, <3>1, <3>2
  <2>4. Verdict = "reading" /\ Verdict' = "reading"
    BY <2>1 DEF Verdict
  <2>5. Pipe!Return(Head(readBytes))
    BY <2>1, <2>3, <2>4 DEF Pipe!Return
  <2> QED
    BY <2>2, <2>5 DEF PipeStep, Pipe!Next
<1>2. ASSUME ReadEnds \/ ReadConnClosed PROVE PipeStep
  <2>1. /\ UNCHANGED <<wrote, arrived, produced, read, readErr>> /\ UNCHANGED toBackend
        /\ reader = "reading" /\ reader' \in {"eof", "error"}
    BY <1>2 DEF ReadEnds, ReadConnClosed, session, history
  <2>2. Verdict = "reading"
    BY <2>1 DEF Verdict
  <2>3. CASE reader' = "eof" /\ readErr' = "peer eof"
    <3>1. toBackend.at = "exit" /\ readErr' = "peer eof"
      BY <2>1, <2>3 DEF Inv, EofIsComplete
    <3>2. read = produced
      <4>1. PeerEofIsComplete'
        BY CompleteEofPrimed
      <4> QED
        BY <2>1, <2>3, <4>1 DEF PeerEofIsComplete
    <3>3. Verdict' = "complete"
      BY <2>3 DEF Verdict
    <3>4. Pipe!EndOfSource
      BY <2>1, <2>2, <3>1, <3>2, <3>3 DEF Pipe!EndOfSource
    <3> QED
      BY <3>4 DEF PipeStep, Pipe!Next
  <2>4. CASE ~(reader' = "eof" /\ readErr' = "peer eof")
    <3>1. Verdict' = "short"
      BY <2>1, <2>4 DEF Verdict
    <3>2. Pipe!CutShort
      BY <2>1, <2>2, <3>1 DEF Pipe!CutShort
    <3> QED
      BY <3>2 DEF PipeStep, Pipe!Next
  <2> QED
    BY <2>3, <2>4
<1> QED
  BY <1>1, <1>2 DEF ReaderStep

\* While demuxLoop runs Read has told no end, so what it records is news.
LEMMA DemuxPipes ==
  ASSUME Inv, DemuxStep
  PROVE  PipeStep
<1>1. UNCHANGED <<wrote, arrived, produced, read, reader>> /\ UNCHANGED toBackend
      /\ demux = "run"
  BY DEF DemuxStep, DemuxTake, DemuxSlotClosed, DemuxConnClosed, session, history
<1>2. reader # "eof"
  BY <1>1 DEF Inv, EofIsComplete
<1>3. Verdict' = Verdict
  BY <1>1, <1>2 DEF Verdict
<1> QED
  BY <1>1, <1>3, PipeStutters

\* What the apiserver gets was written.
LEMMA ToApiPipes ==
  ASSUME Inv, Inv', ToApiStep \/ ToApiWrite
  PROVE  PipeStep
<1>1. UNCHANGED <<wrote, produced, read, reader, readErr>> /\ UNCHANGED toBackend
  BY DEF ToApiStep, ToApiTake, ToApiDone, ToApiWriteFails, ToApiWrite, toApiOnly, readSide
<1>2. UNCHANGED Verdict
  BY <1>1, SameVerdict
<1>3. CASE UNCHANGED arrived
  BY <1>1, <1>2, <1>3, PipeStutters
<1>4. CASE ToApiWrite
  <2>1. toApi.n \in Sizes /\ arrived' = arrived + toApi.n
    BY <1>4 DEF ToApiWrite, Inv, Shape, SessionShape
  <2>2. arrived' <= wrote
    <3>1. arrived' + toApi'.n + InboundBytes' + DownBytes' <= wrote'
      BY LedgersBySums DEF Inv, Ledgers, LedgersInSums
    <3>2. arrived' \in Nat /\ toApi'.n \in Nat /\ InboundBytes' \in Nat /\ DownBytes' \in Nat
          /\ wrote' \in Nat
      BY NumbersPrimed DEF SumsAreNumbers
    <3> QED
      BY <1>1, <3>1, <3>2
  <2>3. Pipe!Arrive(toApi.n)
    BY <1>1, <1>2, <2>1, <2>2 DEF Pipe!Arrive
  <2> QED
    BY <2>1, <2>3 DEF PipeStep, Pipe!Next
<1> QED
  BY <1>3, <1>4 DEF ToApiStep, ToApiTake, ToApiDone, ToApiWriteFails

\* pumpToBackend takes bytes until it exits, and does not start again.
LEMMA ToBackendPipes ==
  ASSUME Inv, ToBackendStep \/ \E n \in Sizes : ToBackendRead(n)
  PROVE  PipeStep
<1>1. UNCHANGED <<wrote, arrived, read, reader, readErr>> /\ toBackend.at = "read"
  BY DEF ToBackendStep, ToBackendReadEnds, ToBackendDone, OutOfCredit, ToBackendRead,
         toBackendOnly, readSide
<1>2. UNCHANGED Verdict
  BY <1>1, SameVerdict
<1>3. ASSUME NEW n \in Sizes, ToBackendRead(n) PROVE PipeStep
  <2>1. Pipe!Produce(n)
    BY <1>1, <1>2, <1>3 DEF ToBackendRead, Pipe!Produce
  <2> QED
    BY <2>1 DEF PipeStep, Pipe!Next
<1>4. ASSUME ToBackendStep PROVE PipeStep
  <2>1. UNCHANGED produced /\ toBackend' = [toBackend EXCEPT !.at = "exit"]
    BY <1>4 DEF ToBackendStep, ToBackendReadEnds, ToBackendDone
  <2>2. Pipe!Drain
    BY <1>1, <1>2, <2>1 DEF Pipe!Drain, Inv, Shape, SessionShape, AgentTypeOK
  <2> QED
    BY <2>2 DEF PipeStep, Pipe!Next
<1> QED
  BY <1>3, <1>4

LEMMA NextPipes ==
  ASSUME Inv, Inv', [Next]_vars
  PROVE  PipeStep
<1>1. CASE Watch \/ SessionReturns \/ ReceiveStep \/ Close \/ ApiserverEnds \/ StreamBreaks
           \/ UNCHANGED vars
  <2>1. UNCHANGED <<wrote, arrived, produced, read, reader, readErr>> /\ UNCHANGED toBackend
    BY <1>1 DEF Watch, SessionReturns, ReceiveStep, Deliver, HandleKubeStreamData, AgentClose,
                Close, ApiserverEnds, StreamBreaks, vars, sessOnly, readSide, session, history
  <2> QED
    BY <2>1, SameVerdict, PipeStutters
<1> QED
  BY <1>1, WriterPipes, DemuxPipes, ReaderPipes, ToApiPipes, ToBackendPipes
     DEF Next, Environment

\* A tunnel keeps what TunnelPipe promises its two users, whatever its queues,
\* goroutines and failures do: it invents and repeats no byte, a writer is at
\* most a window ahead, and a reader that is told the peer ended has had it all.
THEOREM PipePromiseKept == Spec => KeepsPipePromise
<1>1. Init => Pipe!Init
  BY DEF Init, Pipe!Init, Verdict
<1>2. Inv /\ Inv' /\ [Next]_vars => [Pipe!Next]_(Pipe!vars)
  BY NextPipes DEF PipeStep
<1> QED
  BY <1>1, <1>2, InitInv, InvStep, PTL DEF Spec, KeepsPipePromise, Pipe!Spec
=============================================================================
