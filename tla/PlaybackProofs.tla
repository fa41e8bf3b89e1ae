--------------------------- MODULE PlaybackProofs ---------------------------
(***************************************************************************)
(* For any tracks, ways to be sought in, sizes of chunks, buffers and       *)
(* silences: the types, the position reported, the frames kept, the silence *)
(* in front, and that a listener hears every frame.                         *)
(***************************************************************************)
EXTENDS PlaybackProperties, IdSequenceLemmas

---------------------------------------------------------------------------
(* Sequences.                                                              *)

(* A part of a sequence, element by element.                               *)
LEMMA PartProperties ==
  ASSUME NEW S, NEW s \in Seq(S), NEW a \in 0..Len(s), NEW b \in a..Len(s)
  PROVE  /\ SubSeq(s, a + 1, b) \in Seq(S)
         /\ Len(SubSeq(s, a + 1, b)) = b - a
         /\ \A j \in 1..(b - a) : SubSeq(s, a + 1, b)[j] = s[j + a]
<1> DEFINE t == SubSeq(s, a + 1, b)
           N == Len(s)
<1>1. /\ N \in Nat /\ a + 1 \in Int /\ a \in 0..N /\ b \in a..N /\ b \in Int
      /\ \A i \in (a + 1)..b : s[i] \in S
  BY LenProperties, ElementOfSeq
<1>2. /\ t \in Seq(S)
      /\ Len(t) = IF a + 1 <= b THEN (b - (a + 1)) + 1 ELSE 0
      /\ \A j \in 1..((b - (a + 1)) + 1) : t[j] = s[(a + 1) + j - 1]
  BY <1>1, SubSeqProperties
<1> HIDE DEF t, N
<1>3. Len(t) = b - a /\ 1..((b - (a + 1)) + 1) = 1..(b - a)
  BY <1>1, <1>2
<1>4. \A j \in 1..(b - a) : (a + 1) + j - 1 = j + a
  BY <1>1
<1>5. \A j \in 1..(b - a) : t[j] = s[j + a]
  BY <1>2, <1>3, <1>4
<1> QED BY <1>2, <1>3, <1>5 DEF t, N

(* s is what a tape T holds after its first d frames.                      *)
Runs(s, T, d) == \A k \in 1..Len(s) : s[k] = T[d + k]

LEMMA RunsEmpty ==
  ASSUME NEW T, NEW d
  PROVE  Runs(<<>>, T, d)
BY EmptySeq DEF Runs

LEMMA RunsPart ==
  ASSUME NEW S, NEW s \in Seq(S), NEW T, NEW d \in Nat,
         NEW a \in 0..Len(s), NEW b \in a..Len(s), Runs(s, T, d)
  PROVE  Runs(SubSeq(s, a + 1, b), T, d + a)
<1> DEFINE t == SubSeq(s, a + 1, b)
<1>1. Len(t) = b - a /\ \A j \in 1..(b - a) : t[j] = s[j + a]
  BY PartProperties
<1>2. Len(s) \in Nat
  BY LenProperties
<1> HIDE DEF t
<1>3. \A j \in 1..(b - a) : j + a \in 1..Len(s) /\ d + (j + a) = (d + a) + j
  BY <1>2
<1>4. \A k \in 1..Len(s) : s[k] = T[d + k]
  BY DEF Runs
<1>5. \A j \in 1..(b - a) : t[j] = T[(d + a) + j]
  BY <1>1, <1>3, <1>4
<1> QED BY <1>1, <1>5 DEF Runs, t

LEMMA RunsJoined ==
  ASSUME NEW S, NEW a \in Seq(S), NEW b \in Seq(S), NEW T, NEW d \in Nat,
         Runs(a, T, d), Runs(b, T, d + Len(a))
  PROVE  Runs(a \o b, T, d)
<1> DEFINE t == a \o b
           m == Len(a)
           n == Len(b)
<1>1. m \in Nat /\ n \in Nat
  BY LenProperties
<1>2. /\ Len(t) = m + n
      /\ \A i \in 1..(m + n) : t[i] = IF i <= m THEN a[i] ELSE b[i - m]
  BY JoinedProperties
<1>3. /\ \A k \in 1..m : a[k] = T[d + k]
      /\ \A k \in 1..n : b[k] = T[(d + m) + k]
  BY DEF Runs
<1> HIDE DEF t, m, n
<1>4. ASSUME NEW i \in 1..(m + n) PROVE t[i] = T[d + i]
  <2>1. CASE i <= m
    BY <1>1, <1>2, <1>3, <2>1
  <2>2. CASE ~(i <= m)
    <3>1. i - m \in 1..n /\ (d + m) + (i - m) = d + i
      BY <1>1, <2>2
    <3> QED BY <1>2, <1>3, <2>2, <3>1
  <2> QED BY <2>1, <2>2
<1> QED BY <1>2, <1>4 DEF Runs, t

LEMMA RunsMoved ==
  ASSUME NEW s, NEW T, NEW d, NEW U, NEW c, Runs(s, T, d),
         \A k \in 1..Len(s) : U[c + k] = T[d + k]
  PROVE  Runs(s, U, c)
BY DEF Runs

(* The line of frames between the engine and the listener: s of silence,   *)
(* then the audio a.                                                       *)
Held(line, s, a) ==
  /\ s \in 0..Len(line)
  /\ a = SubSeq(line, s + 1, Len(line))
  /\ \A k \in 1..s : line[k] = Hush

LEMMA HeldProperties ==
  ASSUME NEW line \in Seq(Frame), NEW s, NEW a, Held(line, s, a)
  PROVE  /\ s \in Nat /\ a \in Seq(Frame) /\ Len(a) \in Nat
         /\ Len(line) = s + Len(a) /\ Len(line) \in Nat
         /\ Less(Len(line), s) = Len(a)
<1>1. s \in 0..Len(line) /\ a = SubSeq(line, s + 1, Len(line)) /\ Len(line) \in Nat
  BY LenProperties DEF Held
<1>2. a \in Seq(Frame) /\ Len(a) = Len(line) - s
  BY <1>1, AfterProperties
<1> QED BY <1>1, <1>2 DEF Less

LEMMA QuietProperties ==
  ASSUME NEW n \in Nat
  PROVE  Quiet(n) \in Seq(Frame) /\ Len(Quiet(n)) = n /\ \A k \in 1..n : Quiet(n)[k] = Hush
<1>1. Hush \in Frame
  BY DEF Hush, Frame
<1> QED BY <1>1 DEF Quiet

LEMMA HeldQuiet ==
  ASSUME NEW n \in Nat
  PROVE  Held(Quiet(n), n, <<>>)
<1>1. Quiet(n) \in Seq(Frame) /\ Len(Quiet(n)) = n /\ \A k \in 1..n : Quiet(n)[k] = Hush
  BY QuietProperties
<1> DEFINE q == Quiet(n)
           t == SubSeq(q, n + 1, Len(q))
<1>2. n \in 0..Len(q) /\ Len(q) - n = 0
  BY <1>1
<1>3. t \in Seq(Frame) /\ Len(t) = 0
  BY <1>1, <1>2, AfterProperties
<1> HIDE DEF t, q
<1>4. t = <<>>
  BY <1>3, EmptySeq
<1> QED BY <1>1, <1>2, <1>4 DEF Held, t, q

LEMMA HeldEmpty == Held(<<>>, 0, <<>>)
<1>1. <<>> \in Seq(Frame) /\ Len(<<>>) = 0
  BY EmptySeq
<1>2. Quiet(0) = <<>>
  BY QuietProperties, EmptySeq
<1> QED BY <1>2, HeldQuiet

LEMMA HeldNothing ==
  ASSUME NEW s, NEW a, Held(<<>>, s, a)
  PROVE  s = 0 /\ a = <<>>
<1>1. <<>> \in Seq(Frame) /\ Len(<<>>) = 0
  BY EmptySeq
<1>2. s = 0
  BY <1>1 DEF Held
<1>3. Len(a) = 0 /\ a \in Seq(Frame)
  <2>1. a \in Seq(Frame) /\ Len(<<>>) = s + Len(a) /\ Len(a) \in Nat
    BY <1>1, HeldProperties
  <2> QED BY <1>1, <1>2, <2>1
<1> QED BY <1>2, <1>3, EmptySeq

LEMMA HeldAppended ==
  ASSUME NEW line \in Seq(Frame), NEW s, NEW a, Held(line, s, a), NEW f \in Seq(Frame)
  PROVE  Held(line \o f, s, a \o f)
<1> DEFINE t == line \o f
           L == Len(line)
           n == Len(f)
           u == SubSeq(t, s + 1, Len(t))
           w == a \o f
<1>1. /\ s \in Nat /\ a \in Seq(Frame) /\ L = s + Len(a) /\ L \in Nat /\ n \in Nat
      /\ Len(a) \in Nat
  BY HeldProperties, LenProperties
<1>2. /\ t \in Seq(Frame) /\ Len(t) = L + n
      /\ \A i \in 1..(L + n) : t[i] = IF i <= L THEN line[i] ELSE f[i - L]
  BY JoinedProperties
<1>3. /\ w \in Seq(Frame) /\ Len(w) = Len(a) + n
      /\ \A i \in 1..(Len(a) + n) : w[i] = IF i <= Len(a) THEN a[i] ELSE f[i - Len(a)]
  BY <1>1, JoinedProperties
<1>4. /\ \A k \in 1..s : line[k] = Hush
      /\ \A j \in 1..Len(a) : a[j] = line[j + s]
  <2>1. a = SubSeq(line, s + 1, L) /\ s \in 0..L
    BY DEF Held
  <2>2. \A j \in 1..(L - s) : a[j] = line[j + s]
    BY <2>1, AfterProperties
  <2>3. L - s = Len(a)
    BY <1>1
  <2> QED BY <2>2, <2>3 DEF Held
<1> HIDE DEF t, L, n, w
<1>5. s \in 0..Len(t) /\ Len(t) - s = Len(a) + n
  BY <1>1, <1>2
<1>6. u \in Seq(Frame) /\ Len(u) = Len(a) + n /\ \A j \in 1..(Len(a) + n) : u[j] = t[j + s]
  BY <1>2, <1>5, AfterProperties
<1> HIDE DEF u
<1>7. ASSUME NEW j \in 1..(Len(a) + n) PROVE u[j] = w[j]
  <2>1. j + s \in 1..(L + n)
    BY <1>1
  <2>2. CASE j <= Len(a)
    <3>1. j + s <= L /\ j \in 1..Len(a)
      BY <1>1, <2>2
    <3> QED BY <1>2, <1>3, <1>4, <1>6, <2>1, <2>2, <3>1
  <2>3. CASE ~(j <= Len(a))
    <3>1. ~(j + s <= L) /\ (j + s) - L = j - Len(a)
      BY <1>1, <2>3
    <3> QED BY <1>2, <1>3, <1>6, <2>1, <2>3, <3>1
  <2> QED BY <2>2, <2>3
<1>8. u = w
  BY <1>3, <1>6, <1>7, SeqEqual
<1>9. \A k \in 1..s : t[k] = Hush
  <2>1. \A k \in 1..s : k \in 1..(L + n) /\ k <= L
    BY <1>1
  <2> QED BY <1>2, <1>4, <2>1
<1> QED BY <1>5, <1>8, <1>9 DEF Held, t, w, u

(* The server plays the first frame of the line.                           *)
LEMMA HeldTail ==
  ASSUME NEW line \in Seq(Frame), NEW s, NEW a, Held(line, s, a), line # <<>>
  PROVE  /\ s > 0 => Head(line) = Hush
         /\ s = 0 => a # <<>> /\ Head(line) = a[1]
         /\ Held(Tail(line), Less(s, 1), IF s = 0 THEN Tail(a) ELSE a)
<1> DEFINE t == Tail(line)
           L == Len(line)
           z == Less(s, 1)
           u == SubSeq(t, z + 1, Len(t))
           w == IF s = 0 THEN Tail(a) ELSE a
<1>1. /\ s \in Nat /\ a \in Seq(Frame) /\ L = s + Len(a) /\ L \in Nat /\ Len(a) \in Nat
  BY HeldProperties
<1>2. /\ t \in Seq(Frame) /\ Len(t) = L - 1 /\ L > 0 /\ Head(line) = line[1]
      /\ \A i \in 1..(L - 1) : t[i] = line[i + 1]
  <2>1. L # 0
    BY EmptySeq
  <2>2. t \in Seq(Frame) /\ Len(t) = L - 1 /\ \A i \in 1..Len(t) : t[i] = line[i + 1]
    BY HeadTailProperties
  <2> QED BY <1>1, <2>1, <2>2
<1>3. /\ \A k \in 1..s : line[k] = Hush
      /\ \A j \in 1..Len(a) : a[j] = line[j + s]
  <2>1. a = SubSeq(line, s + 1, L) /\ s \in 0..L
    BY DEF Held
  <2>2. \A j \in 1..(L - s) : a[j] = line[j + s]
    BY <2>1, AfterProperties
  <2>3. L - s = Len(a)
    BY <1>1
  <2> QED BY <2>2, <2>3 DEF Held
<1> HIDE DEF t, L
<1>4. CASE s = 0
  <2>1. Len(a) > 0 /\ a # <<>> /\ 1 \in 1..Len(a)
    BY <1>1, <1>2, <1>4, EmptySeq
  <2>2. Head(line) = a[1]
    BY <1>2, <1>3, <1>4, <2>1
  <2>3. w = Tail(a) /\ z = 0
    BY <1>4 DEF Less
  <2>4. w \in Seq(Frame) /\ Len(w) = Len(a) - 1 /\ \A i \in 1..(Len(a) - 1) : w[i] = a[i + 1]
    <3>1. /\ Tail(a) \in Seq(Frame) /\ Len(Tail(a)) = Len(a) - 1
          /\ \A i \in 1..Len(Tail(a)) : Tail(a)[i] = a[i + 1]
      BY <1>1, <2>1, HeadTailProperties
    <3> QED BY <2>3, <3>1
  <2>5. z \in 0..Len(t) /\ Len(t) - z = Len(a) - 1
    BY <1>1, <1>2, <1>4, <2>3
  <2> HIDE DEF w, z
  <2>6. u \in Seq(Frame) /\ Len(u) = Len(a) - 1 /\ \A j \in 1..(Len(a) - 1) : u[j] = t[j + z]
    <3>1. u \in Seq(Frame) /\ Len(u) = Len(t) - z /\ \A j \in 1..(Len(t) - z) : u[j] = t[j + z]
      BY <1>2, <2>5, AfterProperties
    <3> QED BY <2>5, <3>1
  <2> HIDE DEF u
  <2>7. ASSUME NEW j \in 1..(Len(a) - 1) PROVE u[j] = w[j]
    <3>1. j + z = j /\ j \in 1..(L - 1) /\ j + 1 \in 1..Len(a) /\ (j + 1) + s = j + 1
      BY <1>1, <1>4, <2>3
    <3> QED BY <1>2, <1>3, <2>4, <2>6, <3>1
  <2>8. u = w
    BY <2>4, <2>6, <2>7, SeqEqual
  <2>9. \A k \in 1..z : t[k] = Hush
    BY <2>3
  <2>10. Held(t, z, w)
    BY <2>5, <2>8, <2>9 DEF Held, u
  <2> QED BY <2>1, <2>2, <2>10, <1>4 DEF t, z, w
<1>5. CASE s > 0
  <2>1. w = a /\ z = s - 1
    BY <1>1, <1>5 DEF Less
  <2>2. Head(line) = Hush
    <3>1. 1 \in 1..s
      BY <1>1, <1>5
    <3> QED BY <3>1, <1>2, <1>3
  <2>3. z \in 0..Len(t) /\ Len(t) - z = Len(a)
    BY <1>1, <1>2, <1>5, <2>1
  <2> HIDE DEF w, z
  <2>4. u \in Seq(Frame) /\ Len(u) = Len(a) /\ \A j \in 1..Len(a) : u[j] = t[j + z]
    <3>1. u \in Seq(Frame) /\ Len(u) = Len(t) - z /\ \A j \in 1..(Len(t) - z) : u[j] = t[j + z]
      BY <1>2, <2>3, AfterProperties
    <3> QED BY <2>3, <3>1
  <2> HIDE DEF u
  <2>5. ASSUME NEW j \in 1..Len(a) PROVE u[j] = w[j]
    <3>1. j + z \in 1..(L - 1) /\ (j + z) + 1 = j + s
      BY <1>1, <1>2, <1>5, <2>1
    <3> QED BY <1>2, <1>3, <2>1, <2>4, <3>1
  <2>6. u = w
    BY <1>1, <2>1, <2>4, <2>5, SeqEqual
  <2>7. \A k \in 1..z : t[k] = Hush
    <3>1. \A k \in 1..z : k \in 1..(L - 1) /\ k + 1 \in 1..s
      BY <1>1, <1>5, <2>1
    <3> QED BY <1>2, <1>3, <3>1
  <2>8. Held(t, z, w)
    BY <2>3, <2>6, <2>7 DEF Held, u
  <2> QED BY <1>1, <1>5, <2>2, <2>8 DEF t, z, w
<1> QED BY <1>1, <1>4, <1>5

(* What is left of the line without silence.                               *)
LEMMA HeldWithout ==
  ASSUME NEW line \in Seq(Frame), NEW s, NEW a, Held(line, s, a),
         \A k \in 1..Len(a) : a[k] # Hush
  PROVE  Without(line, {Hush}) = a
<1>1. /\ s \in Nat /\ a \in Seq(Frame) /\ Len(line) = s + Len(a) /\ Len(a) \in Nat
  BY HeldProperties
<1>2. /\ \A k \in 1..s : line[k] = Hush
      /\ \A j \in 1..Len(a) : a[j] = line[j + s]
  <2>1. a = SubSeq(line, s + 1, Len(line)) /\ s \in 0..Len(line)
    BY DEF Held
  <2>2. \A j \in 1..(Len(line) - s) : a[j] = line[j + s]
    BY <2>1, AfterProperties
  <2>3. Len(line) - s = Len(a)
    BY <1>1
  <2> QED BY <2>2, <2>3 DEF Held
<1>3. /\ 0 \in 0..Len(a) /\ Len(line) = Len(a) + s
      /\ \A j \in 1..Len(a) : a[j] \notin {Hush}
      /\ \A j \in 1..0 : line[j] = a[j]
      /\ \A j \in (0 + 1)..(0 + s) : line[j] \in {Hush}
      /\ \A j \in (0 + 1)..Len(a) : line[j + s] = a[j]
  BY <1>1, <1>2
<1>4. PutInto(a, {Hush}, 0, s, line)
  BY <1>1, <1>3 DEF PutInto
<1> QED BY <1>1, <1>4, WithoutInserted

(* The frames written last, of which the audio a is the end.               *)
Kept(recent, a) == Len(a) <= Len(recent) /\ Keep(recent, Len(a)) = a

LEMMA KeepProperties ==
  ASSUME NEW s \in Seq(Frame), NEW n \in 0..Len(s)
  PROVE  /\ Keep(s, n) = SubSeq(s, (Len(s) - n) + 1, Len(s))
         /\ Keep(s, n) \in Seq(Frame) /\ Len(Keep(s, n)) = n
         /\ \A j \in 1..n : Keep(s, n)[j] = s[j + (Len(s) - n)]
<1> DEFINE N == Len(s)
           k == N - n
<1>1. N \in Nat /\ n \in Nat /\ k \in 0..N /\ N - k = n
  BY LenProperties
<1>2. AtMost(n, N) = n
  BY <1>1 DEF AtMost
<1>3. Keep(s, n) = SubSeq(s, k + 1, N)
  BY <1>2 DEF Keep
<1>4. /\ SubSeq(s, k + 1, N) \in Seq(Frame) /\ Len(SubSeq(s, k + 1, N)) = N - k
      /\ \A j \in 1..(N - k) : SubSeq(s, k + 1, N)[j] = s[j + k]
  BY <1>1, AfterProperties
<1> QED BY <1>1, <1>3, <1>4

LEMMA KeptIs ==
  ASSUME NEW s \in Seq(Frame), NEW a \in Seq(Frame)
  PROVE  Kept(s, a) <=> /\ Len(a) <= Len(s)
                        /\ \A j \in 1..Len(a) : a[j] = s[j + (Len(s) - Len(a))]
<1>1. Len(a) \in Nat /\ Len(s) \in Nat
  BY LenProperties
<1>2. SUFFICES ASSUME Len(a) <= Len(s)
               PROVE  Keep(s, Len(a)) = a <=>
                        \A j \in 1..Len(a) : a[j] = s[j + (Len(s) - Len(a))]
  BY DEF Kept
<1> DEFINE n == Len(a)
           t == Keep(s, n)
<1>3. t \in Seq(Frame) /\ Len(t) = n /\ \A j \in 1..n : t[j] = s[j + (Len(s) - n)]
  BY <1>1, <1>2, KeepProperties
<1> HIDE DEF t
<1>4. (\A j \in 1..n : a[j] = t[j]) => t = a
  BY <1>3, SeqEqual
<1>5. (\A j \in 1..n : a[j] = s[j + (Len(s) - n)]) => \A j \in 1..n : a[j] = t[j]
  BY <1>3
<1>6. t = a => \A j \in 1..n : a[j] = s[j + (Len(s) - n)]
  BY <1>3
<1> QED BY <1>4, <1>5, <1>6 DEF t

LEMMA KeptEmpty ==
  ASSUME NEW s \in Seq(Frame)
  PROVE  Kept(s, <<>>)
<1>1. <<>> \in Seq(Frame) /\ Len(<<>>) = 0 /\ Len(s) \in Nat
  BY EmptySeq, LenProperties
<1>2. Keep(s, 0) \in Seq(Frame) /\ Len(Keep(s, 0)) = 0
  BY <1>1, KeepProperties
<1>3. Keep(s, 0) = <<>>
  BY <1>2, EmptySeq
<1> QED BY <1>1, <1>3 DEF Kept

(* An end of an end is an end: what was heard drops out of it.             *)
LEMMA KeptPart ==
  ASSUME NEW s \in Seq(Frame), NEW a \in Seq(Frame), Kept(s, a), NEW k \in 0..Len(a)
  PROVE  /\ Keep(s, k) = SubSeq(a, (Len(a) - k) + 1, Len(a))
         /\ Kept(s, SubSeq(a, (Len(a) - k) + 1, Len(a)))
<1> DEFINE n == Len(a)
           N == Len(s)
           d == n - k
           u == SubSeq(a, d + 1, n)
           t == Keep(s, k)
<1>1. n \in Nat /\ N \in Nat /\ n <= N /\ k \in 0..n /\ k \in 0..N /\ d \in 0..n /\ n - d = k
  BY LenProperties DEF Kept
<1>2. t \in Seq(Frame) /\ Len(t) = k /\ \A j \in 1..k : t[j] = s[j + (N - k)]
  BY <1>1, KeepProperties
<1>3. u \in Seq(Frame) /\ Len(u) = n - d /\ \A j \in 1..(n - d) : u[j] = a[j + d]
  BY <1>1, AfterProperties
<1>4. \A j \in 1..n : a[j] = s[j + (N - n)]
  BY KeptIs
<1> HIDE DEF t, u, n, N
<1>5. ASSUME NEW j \in 1..k PROVE t[j] = u[j]
  <2>1. j + d \in 1..n /\ (j + d) + (N - n) = j + (N - k) /\ j \in 1..(n - d)
    BY <1>1
  <2> QED BY <1>2, <1>3, <1>4, <2>1
<1>6. t = u
  BY <1>1, <1>2, <1>3, <1>5, SeqEqual
<1>7. Len(u) = k
  BY <1>1, <1>3
<1>8. Kept(s, u)
  BY <1>1, <1>6, <1>7 DEF Kept, t, N
<1> QED BY <1>6, <1>8 DEF t, u, n

LEMMA KeptTail ==
  ASSUME NEW s \in Seq(Frame), NEW a \in Seq(Frame), Kept(s, a), a # <<>>
  PROVE  Kept(s, Tail(a))
<1>1. Len(a) \in Nat /\ Len(a) # 0 /\ Len(s) \in Nat
  BY LenProperties, EmptySeq
<1>2. /\ Tail(a) \in Seq(Frame) /\ Len(Tail(a)) = Len(a) - 1
      /\ \A i \in 1..Len(Tail(a)) : Tail(a)[i] = a[i + 1]
  BY HeadTailProperties
<1>3. Len(a) <= Len(s) /\ \A j \in 1..Len(a) : a[j] = s[j + (Len(s) - Len(a))]
  BY KeptIs
<1> DEFINE t == Tail(a)
<1> HIDE DEF t
<1>4. ASSUME NEW j \in 1..Len(t) PROVE t[j] = s[j + (Len(s) - Len(t))]
  <2>1. j + 1 \in 1..Len(a) /\ (j + 1) + (Len(s) - Len(a)) = j + (Len(s) - Len(t))
    BY <1>1, <1>2 DEF t
  <2> QED BY <2>1, <1>2, <1>3 DEF t
<1>5. Len(t) <= Len(s)
  BY <1>1, <1>2, <1>3 DEF t
<1>6. Kept(s, t)
  BY <1>2, <1>4, <1>5, KeptIs DEF t
<1> QED BY <1>6 DEF t

LEMMA KeptJoined ==
  ASSUME NEW s \in Seq(Frame), NEW a \in Seq(Frame), NEW f \in Seq(Frame), Kept(s, a)
  PROVE  Kept(s \o f, a \o f)
<1> DEFINE N == Len(s)
           n == Len(a)
           m == Len(f)
           t == s \o f
           u == a \o f
<1>1. N \in Nat /\ n \in Nat /\ m \in Nat
  BY LenProperties
<1>2. /\ t \in Seq(Frame) /\ Len(t) = N + m
      /\ \A i \in 1..(N + m) : t[i] = IF i <= N THEN s[i] ELSE f[i - N]
  BY JoinedProperties
<1>3. /\ u \in Seq(Frame) /\ Len(u) = n + m
      /\ \A i \in 1..(n + m) : u[i] = IF i <= n THEN a[i] ELSE f[i - n]
  BY JoinedProperties
<1>4. n <= N /\ \A j \in 1..n : a[j] = s[j + (N - n)]
  BY KeptIs
<1> HIDE DEF N, n, m, t, u
<1>5. ASSUME NEW j \in 1..Len(u) PROVE u[j] = t[j + (Len(t) - Len(u))]
  <2>1. j \in 1..(n + m) /\ Len(t) - Len(u) = N - n /\ j + (N - n) \in 1..(N + m)
    BY <1>1, <1>2, <1>3, <1>4
  <2>2. CASE j <= n
    <3>1. j \in 1..n /\ j + (N - n) <= N
      BY <1>1, <1>4, <2>1, <2>2
    <3> QED BY <3>1, <2>1, <2>2, <1>2, <1>3, <1>4
  <2>3. CASE ~(j <= n)
    <3>1. ~(j + (N - n) <= N) /\ (j + (N - n)) - N = j - n
      BY <1>1, <1>4, <2>1, <2>3
    <3> QED BY <3>1, <2>1, <2>3, <1>2, <1>3
  <2> QED BY <2>2, <2>3
<1>6. Len(u) <= Len(t)
  BY <1>1, <1>2, <1>3, <1>4
<1>7. Kept(t, u)
  BY <1>2, <1>3, <1>5, <1>6, KeptIs
<1> QED BY <1>7 DEF t, u

(* Enough is kept, whatever is cut off.                                    *)
LEMMA RecentKeeps ==
  ASSUME NEW s \in Seq(Frame), NEW a \in Seq(Frame), NEW f \in Seq(Frame), Kept(s, a),
         Len(a) + Len(f) <= KeptFrames
  PROVE  /\ Recent(s, f) \in Seq(Frame) /\ Len(Recent(s, f)) <= 2 * KeptFrames
         /\ Kept(Recent(s, f), a \o f)
<1> DEFINE t == s \o f
           u == a \o f
           K == KeptFrames
<1>1. K \in Nat /\ Len(a) \in Nat /\ Len(f) \in Nat
  BY SMTT(30), PlaybackAssumption, LenProperties DEF KeptFrames
<1>2. t \in Seq(Frame) /\ u \in Seq(Frame) /\ Len(u) = Len(a) + Len(f)
  BY JoinedProperties
<1>3. Kept(t, u)
  BY KeptJoined
<1>4. Recent(s, f) = IF Len(t) > 2 * K THEN Keep(t, K) ELSE t
  BY DEF Recent
<1> HIDE DEF t, u, K
<1>5. Len(t) \in Nat /\ Len(u) \in Nat
  BY <1>2, LenProperties
<1>6. CASE ~(Len(t) > 2 * K)
  BY <1>1, <1>2, <1>3, <1>4, <1>5, <1>6 DEF u, K
<1>7. CASE Len(t) > 2 * K
  <2> DEFINE r == Keep(t, K)
  <2>1. K \in 0..Len(t) /\ Len(u) \in 0..K /\ Len(u) <= K /\ K <= 2 * K
    <3>1. Len(u) <= K
      BY <1>2 DEF K
    <3> QED BY <3>1, <1>1, <1>5, <1>7
  <2>2. r \in Seq(Frame) /\ Len(r) = K /\ \A j \in 1..K : r[j] = t[j + (Len(t) - K)]
    BY <1>2, <2>1, KeepProperties
  <2>3. \A j \in 1..Len(u) : u[j] = t[j + (Len(t) - Len(u))]
    BY <1>2, <1>3, KeptIs
  <2> HIDE DEF r
  <2>4. ASSUME NEW j \in 1..Len(u) PROVE u[j] = r[j + (Len(r) - Len(u))]
    <3>1. j + (K - Len(u)) \in 1..K /\ (j + (K - Len(u))) + (Len(t) - K) = j + (Len(t) - Len(u))
      BY <1>1, <1>5, <2>1
    <3> QED BY <3>1, <2>2, <2>3
  <2>5. Kept(r, u)
    BY <1>2, <2>1, <2>2, <2>4, KeptIs
  <2>6. Recent(s, f) = r
    BY <1>4, <1>7 DEF r
  <2> QED BY <2>1, <2>2, <2>5, <2>6 DEF u, K
<1> QED BY <1>6, <1>7

LEMMA JoinedFrames ==
  ASSUME NEW a \in Seq(Frame), NEW b \in Seq(Frame)
  PROVE  /\ a \o b \in Seq(Frame)
         /\ Len(a \o b) = Len(a) + Len(b)
         /\ \A i \in 1..(Len(a) + Len(b)) : (a \o b)[i] = IF i <= Len(a) THEN a[i] ELSE b[i - Len(a)]
BY JoinedProperties

(* The line when the server draws from the ring, plays a frame, and when    *)
(* frames are written.                                                     *)
LEMMA LinePulled ==
  ASSUME NEW a \in Seq(Frame), NEW b \in Seq(Frame), NEW n \in 0..Len(b)
  PROVE  /\ a \o SubSeq(b, 1, n) \in Seq(Frame) /\ Len(a \o SubSeq(b, 1, n)) = Len(a) + n
         /\ SubSeq(b, n + 1, Len(b)) \in Seq(Frame) /\ Len(SubSeq(b, n + 1, Len(b))) = Len(b) - n
         /\ (a \o SubSeq(b, 1, n)) \o SubSeq(b, n + 1, Len(b)) = a \o b
<1> DEFINE x == SubSeq(b, 1, n)
           y == SubSeq(b, n + 1, Len(b))
           A == Len(a)
           B == Len(b)
           c == a \o x
           t == c \o y
           u == a \o b
<1>1. A \in Nat /\ B \in Nat /\ n \in 0..B
  BY LenProperties
<1>2. x \in Seq(Frame) /\ Len(x) = n /\ \A j \in 1..n : x[j] = b[j]
  <2>1. /\ SubSeq(b, 0 + 1, n) \in Seq(Frame) /\ Len(SubSeq(b, 0 + 1, n)) = n - 0
        /\ \A j \in 1..(n - 0) : SubSeq(b, 0 + 1, n)[j] = b[j + 0]
    BY <1>1, PartProperties
  <2>2. 0 + 1 = 1 /\ n - 0 = n /\ \A j \in 1..n : j + 0 = j
    BY <1>1
  <2> QED BY <2>1, <2>2
<1>3. y \in Seq(Frame) /\ Len(y) = B - n /\ \A j \in 1..(B - n) : y[j] = b[j + n]
  BY AfterProperties
<1> HIDE DEF x, y
<1>4. /\ c \in Seq(Frame) /\ Len(c) = A + n
      /\ \A i \in 1..(A + n) : c[i] = IF i <= A THEN a[i] ELSE x[i - A]
  BY <1>2, JoinedFrames
<1> HIDE DEF c
<1>5. /\ t \in Seq(Frame) /\ Len(t) = (A + n) + (B - n)
      /\ \A i \in 1..((A + n) + (B - n)) : t[i] = IF i <= A + n THEN c[i] ELSE y[i - (A + n)]
  <2>1. /\ t \in Seq(Frame) /\ Len(t) = Len(c) + Len(y)
        /\ \A i \in 1..(Len(c) + Len(y)) : t[i] = IF i <= Len(c) THEN c[i] ELSE y[i - Len(c)]
    BY <1>3, <1>4, JoinedFrames
  <2> QED BY <2>1, <1>3, <1>4
<1>6. /\ u \in Seq(Frame) /\ Len(u) = A + B
      /\ \A i \in 1..(A + B) : u[i] = IF i <= A THEN a[i] ELSE b[i - A]
  BY JoinedFrames
<1> HIDE DEF t, u
<1>7. (A + n) + (B - n) = A + B
  BY <1>1
<1> HIDE DEF A, B
<1>8. ASSUME NEW i \in 1..(A + B) PROVE t[i] = u[i]
  <2>1. CASE i <= A
    <3>1. i <= A + n /\ i \in 1..(A + n)
      BY <1>1, <2>1
    <3> QED BY <3>1, <2>1, <1>4, <1>5, <1>6, <1>7
  <2>2. CASE ~(i <= A) /\ i <= A + n
    <3>1. i \in 1..(A + n) /\ i - A \in 1..n
      BY <1>1, <2>2
    <3> QED BY <3>1, <2>2, <1>2, <1>4, <1>5, <1>6, <1>7
  <2>3. CASE ~(i <= A + n)
    <3>1. ~(i <= A) /\ i - (A + n) \in 1..(B - n) /\ (i - (A + n)) + n = i - A
      BY <1>1, <2>3
    <3> QED BY <3>1, <2>3, <1>3, <1>5, <1>6, <1>7
  <2> QED BY <2>1, <2>2, <2>3
<1>9. t = u
  BY <1>5, <1>6, <1>7, <1>8, SeqEqual
<1> QED BY <1>3, <1>4, <1>9 DEF x, y, c, t, u, A, B

LEMMA LinePlayed ==
  ASSUME NEW a \in Seq(Frame), NEW b \in Seq(Frame), a # <<>>
  PROVE  /\ Tail(a) \in Seq(Frame) /\ Len(Tail(a)) = Len(a) - 1 /\ a \o b # <<>>
         /\ Head(a \o b) = Head(a) /\ Tail(a) \o b = Tail(a \o b)
<1> DEFINE A == Len(a)
           B == Len(b)
           c == Tail(a)
           t == c \o b
           u == a \o b
           v == Tail(u)
<1>1. A \in Nat /\ B \in Nat /\ A # 0
  BY LenProperties, EmptySeq
<1>2. c \in Seq(Frame) /\ Len(c) = A - 1 /\ Head(a) = a[1] /\ \A i \in 1..(A - 1) : c[i] = a[i + 1]
  <2>1. c \in Seq(Frame) /\ Len(c) = A - 1 /\ Head(a) = a[1] /\ \A i \in 1..Len(c) : c[i] = a[i + 1]
    BY HeadTailProperties
  <2> QED BY <2>1
<1> HIDE DEF c
<1>3. /\ u \in Seq(Frame) /\ Len(u) = A + B
      /\ \A i \in 1..(A + B) : u[i] = IF i <= A THEN a[i] ELSE b[i - A]
  BY JoinedFrames
<1>4. u # <<>>
  BY <1>1, <1>3, EmptySeq
<1>5. /\ t \in Seq(Frame) /\ Len(t) = (A - 1) + B
      /\ \A i \in 1..((A - 1) + B) : t[i] = IF i <= A - 1 THEN c[i] ELSE b[i - (A - 1)]
  <2>1. /\ t \in Seq(Frame) /\ Len(t) = Len(c) + B
        /\ \A i \in 1..(Len(c) + B) : t[i] = IF i <= Len(c) THEN c[i] ELSE b[i - Len(c)]
    BY <1>2, JoinedFrames
  <2> QED BY <2>1, <1>2
<1> HIDE DEF t, u
<1>6. v \in Seq(Frame) /\ Len(v) = (A + B) - 1 /\ Head(u) = u[1] /\ \A i \in 1..((A + B) - 1) : v[i] = u[i + 1]
  <2>1. v \in Seq(Frame) /\ Len(v) = Len(u) - 1 /\ Head(u) = u[1] /\ \A i \in 1..Len(v) : v[i] = u[i + 1]
    BY <1>3, <1>4, HeadTailProperties
  <2> QED BY <2>1, <1>3
<1>7. (A - 1) + B = (A + B) - 1
  BY <1>1
<1> HIDE DEF v, A, B
<1>8. ASSUME NEW i \in 1..((A - 1) + B) PROVE t[i] = v[i]
  <2>1. i + 1 \in 1..(A + B) /\ i \in 1..((A + B) - 1)
    BY <1>1
  <2>2. CASE i <= A - 1
    <3>1. i + 1 <= A /\ i \in 1..(A - 1)
      BY <1>1, <2>2
    <3> QED BY <3>1, <2>1, <2>2, <1>2, <1>3, <1>5, <1>6
  <2>3. CASE ~(i <= A - 1)
    <3>1. ~(i + 1 <= A) /\ (i + 1) - A = i - (A - 1)
      BY <1>1, <2>3
    <3> QED BY <3>1, <2>1, <2>3, <1>3, <1>5, <1>6
  <2> QED BY <2>2, <2>3
<1>9. t = v
  BY <1>5, <1>6, <1>7, <1>8, SeqEqual
<1>10. Head(u) = Head(a)
  BY <1>1, <1>2, <1>3, <1>6
<1> QED BY <1>2, <1>4, <1>9, <1>10 DEF c, t, u, v, A

LEMMA LineWritten ==
  ASSUME NEW a \in Seq(Frame), NEW b \in Seq(Frame), NEW f \in Seq(Frame)
  PROVE  /\ b \o f \in Seq(Frame) /\ Len(b \o f) = Len(b) + Len(f)
         /\ a \o (b \o f) = (a \o b) \o f
<1> DEFINE A == Len(a)
           B == Len(b)
           F == Len(f)
           c == b \o f
           t == a \o c
           u == a \o b
           v == u \o f
<1>1. A \in Nat /\ B \in Nat /\ F \in Nat
  BY LenProperties
<1>2. /\ c \in Seq(Frame) /\ Len(c) = B + F
      /\ \A i \in 1..(B + F) : c[i] = IF i <= B THEN b[i] ELSE f[i - B]
  BY JoinedFrames
<1>3. /\ u \in Seq(Frame) /\ Len(u) = A + B
      /\ \A i \in 1..(A + B) : u[i] = IF i <= A THEN a[i] ELSE b[i - A]
  BY JoinedFrames
<1> HIDE DEF c, u
<1>4. /\ t \in Seq(Frame) /\ Len(t) = A + (B + F)
      /\ \A i \in 1..(A + (B + F)) : t[i] = IF i <= A THEN a[i] ELSE c[i - A]
  <2>1. /\ t \in Seq(Frame) /\ Len(t) = A + Len(c)
        /\ \A i \in 1..(A + Len(c)) : t[i] = IF i <= A THEN a[i] ELSE c[i - A]
    BY <1>2, JoinedFrames
  <2> QED BY <2>1, <1>2
<1>5. /\ v \in Seq(Frame) /\ Len(v) = (A + B) + F
      /\ \A i \in 1..((A + B) + F) : v[i] = IF i <= A + B THEN u[i] ELSE f[i - (A + B)]
  <2>1. /\ v \in Seq(Frame) /\ Len(v) = Len(u) + F
        /\ \A i \in 1..(Len(u) + F) : v[i] = IF i <= Len(u) THEN u[i] ELSE f[i - Len(u)]
    BY <1>3, JoinedFrames
  <2> QED BY <2>1, <1>3
<1> HIDE DEF t, v, A, B, F
<1>6. A + (B + F) = (A + B) + F
  BY <1>1
<1>7. ASSUME NEW i \in 1..(A + (B + F)) PROVE t[i] = v[i]
  <2>1. CASE i <= A
    <3>1. i <= A + B /\ i \in 1..(A + B)
      BY <1>1, <2>1
    <3> QED BY <3>1, <2>1, <1>3, <1>4, <1>5, <1>6
  <2>2. CASE ~(i <= A) /\ i <= A + B
    <3>1. i \in 1..(A + B) /\ i - A \in 1..(B + F) /\ i - A <= B
      BY <1>1, <2>2
    <3> QED BY <3>1, <2>2, <1>2, <1>3, <1>4, <1>5, <1>6
  <2>3. CASE ~(i <= A + B)
    <3>1. ~(i <= A) /\ i - A \in 1..(B + F) /\ ~(i - A <= B) /\ (i - A) - B = i - (A + B)
      BY <1>1, <2>3
    <3> QED BY <3>1, <2>3, <1>2, <1>4, <1>5, <1>6
  <2> QED BY <2>1, <2>2, <2>3
<1>8. t = v
  BY <1>4, <1>5, <1>6, <1>7, SeqEqual
<1> QED BY <1>2, <1>8 DEF c, t, u, v, B, F

LEMMA LineAlone ==
  ASSUME NEW a \in Seq(Frame)
  PROVE  <<>> \o a = a /\ Len(<<>>) = 0 /\ <<>> \in Seq(Frame)
<1>1. <<>> \in Seq(Frame) /\ Len(<<>>) = 0
  BY EmptySeq
<1>2. Len(a) \in Nat
  BY LenProperties
<1>3. /\ <<>> \o a \in Seq(Frame) /\ Len(<<>> \o a) = 0 + Len(a)
      /\ \A i \in 1..(0 + Len(a)) : (<<>> \o a)[i] = IF i <= 0 THEN <<>>[i] ELSE a[i - 0]
  BY <1>1, JoinedFrames
<1>4. \A i \in 1..Len(a) : ~(i <= 0) /\ i - 0 = i
  BY <1>2
<1>5. 0 + Len(a) = Len(a)
  BY <1>2
<1> DEFINE t == <<>> \o a
<1> HIDE DEF t
<1>6. t \in Seq(Frame) /\ Len(t) = Len(a) /\ \A i \in 1..Len(a) : t[i] = a[i]
  BY <1>3, <1>4, <1>5 DEF t
<1>7. t = a
  BY <1>6, SeqEqual
<1> QED BY <1>1, <1>7 DEF t

---------------------------------------------------------------------------
(* The inductive invariant.                                                *)

States == {"Stopped", "Loading", "Playing", "Paused", "Seeking"}
OnTrack == {"Playing", "Paused", "Seeking"}

PlayingType ==
  [at : Nat, source : BOOLEAN, next : Nat, skip : Nat, pending : Seq(Frame),
   recent : Seq(Frame), written : Nat, base : Nat, leadIn : Nat, done : BOOLEAN,
   sinkPaused : BOOLEAN]
EngineType ==
  [state : States, busy : {"no", "decoding", "writing", "draining"}, sink : BOOLEAN,
   loading : Nat, playing : PlayingType, outgoing : [at : Nat, end : Nat],
   pauseWhenReady : BOOLEAN]
OutputType ==
  [ring : Seq(Frame), server : Seq(Frame), corked : BOOLEAN, dry : 0..Dropped,
   silent : Nat, needsSilence : BOOLEAN, starved : BOOLEAN, gone : {"no", "said", "unsaid"}]
Gone == {"no", "said", "unsaid"}
DownloadType == [avail : Nat, ended : {"no", "error"}]
ListenerType == [at : Places, position : Nat, jumps : Nat, lost : Nat]

Line(o) == o.server \o o.ring
Audio(o) == SubSeq(Line(o), o.silent + 1, Len(Line(o)))

(* Frames of tracks, none of silence.                                      *)
Real(s) == \A k \in 1..Len(s) : s[k][1] \in Places

SoundBase(p, o) ==
  /\ Held(Line(o), o.silent, Audio(o))
  /\ Len(Audio(o)) <= p.written
  /\ o.silent > 0 => Len(Audio(o)) = p.written
  /\ Kept(p.recent, Audio(o))
  /\ Len(p.recent) <= 2 * KeptFrames
  /\ Real(p.recent) /\ Real(p.pending)

TrackBase(e) ==
  /\ e.state \in OnTrack => e.playing.at \in Places
  /\ e.state \notin OnTrack => e.playing = NoTrack /\ e.outgoing = NoOutgoing
  /\ e.outgoing # NoOutgoing => e.outgoing.at \in Places
  /\ e.state = "Loading" => e.loading \in Places
  /\ e.state = "Playing" => e.sink
  /\ e.state = "Seeking" => e.sink \/ e.pauseWhenReady

OutputGood(sink, o) ==
  /\ Len(o.ring) <= Capacity \/ Len(o.ring) <= Silence
  /\ Len(o.server) <= Target
  /\ ~sink => o.server = <<>> /\ o.ring = <<>>
  /\ o.needsSilence => o.server = <<>> /\ o.ring = <<>>
  /\ sink /\ ~o.starved => o.needsSilence \/ o.dry <= o.silent

BusyGood(e, o) ==
  /\ e.busy # "no" => e.state = "Playing"
  /\ e.busy = "writing" => e.playing.pending # <<>> /\ ~e.playing.done /\ ~o.needsSilence
  /\ e.busy = "decoding" => e.playing.pending = <<>> /\ ~e.playing.done
  /\ e.busy = "draining" => e.playing.done /\ e.outgoing = NoOutgoing

(* What holds whatever the thread is busy with.                            *)
Base(e, d, o) ==
  /\ e \in EngineType /\ d \in DownloadType /\ o \in OutputType
  /\ SoundBase(e.playing, o) /\ TrackBase(e) /\ OutputGood(e.sink, o)
  /\ o.needsSilence \/ ~e.sink => e.playing.written = 0

InvBase ==
  /\ Base(engine, download, output)
  /\ BusyGood(engine, output)
  /\ listener \in ListenerType
  /\ spent \in [commands : Nat, failures : Nat]

---------------------------------------------------------------------------
(* Constants and records.                                                  *)

LEMMA Sizes ==
  /\ Len(Length) \in Nat \ {0} /\ Places = 1..Len(Length)
  /\ \A i \in Places : Length[i] \in Nat \ {0}
  /\ Segment \in Nat \ {0} /\ Ahead \in Nat \ {0} /\ Chunk \in Nat \ {0}
  /\ Period \in Nat \ {0} /\ Capacity \in Nat \ {0} /\ Target \in Nat \ {0}
  /\ Silence \in Nat /\ Dropped \in Nat /\ MaxCommands \in Nat /\ MaxFailures \in Nat
  /\ Period <= Capacity /\ Dropped <= Silence
  /\ KeptFrames = Capacity + Target
BY PlaybackAssumption, LenProperties, ElementOfSeq DEF Places, KeptFrames

---------------------------------------------------------------------------
(* What happens to the output.                                             *)

LEMMA AudioProperties ==
  ASSUME NEW o \in OutputType, Held(Line(o), o.silent, Audio(o))
  PROVE  /\ Line(o) \in Seq(Frame) /\ Audio(o) \in Seq(Frame) /\ Len(Audio(o)) \in Nat
         /\ Len(Line(o)) = Len(o.server) + Len(o.ring)
         /\ Len(Line(o)) = o.silent + Len(Audio(o)) /\ o.silent \in Nat
         /\ Len(o.ring) \in Nat /\ Len(o.server) \in Nat
         /\ Delay(o) = Len(Audio(o))
<1>1. o.server \in Seq(Frame) /\ o.ring \in Seq(Frame)
  BY DEF OutputType
<1>2. Line(o) \in Seq(Frame) /\ Len(Line(o)) = Len(o.server) + Len(o.ring)
  BY <1>1, JoinedFrames DEF Line
<1>3. /\ o.silent \in Nat /\ Audio(o) \in Seq(Frame) /\ Len(Audio(o)) \in Nat
      /\ Len(Line(o)) = o.silent + Len(Audio(o))
      /\ Less(Len(Line(o)), o.silent) = Len(Audio(o))
  BY <1>2, HeldProperties
<1>4. Len(o.ring) \in Nat /\ Len(o.server) \in Nat
  BY <1>1, LenProperties
<1>5. Len(o.ring) + Len(o.server) = Len(Line(o))
  <2>1. \A m, n \in Nat : m + n = n + m
    OBVIOUS
  <2> QED BY <1>2, <1>4, <2>1
<1>6. Delay(o) = Len(Audio(o))
  BY <1>3, <1>5 DEF Delay
<1> QED BY <1>2, <1>3, <1>4, <1>6

LEMMA AudioIs ==
  ASSUME NEW o, NEW a, Held(Line(o), o.silent, a)
  PROVE  Audio(o) = a /\ Held(Line(o), o.silent, Audio(o))
BY DEF Held, Audio

LEMMA OpenedOutput ==
  /\ Opened \in OutputType /\ Opened.needsSilence = FALSE
  /\ Held(Line(Opened), Opened.silent, Audio(Opened)) /\ Audio(Opened) = <<>>
  /\ OutputGood(TRUE, Opened)
<1> DEFINE q == Quiet(Silence)
<1>1. q \in Seq(Frame) /\ Len(q) = Silence /\ Silence \in Nat /\ Held(q, Silence, <<>>)
  BY QuietProperties, HeldQuiet, Sizes
<1>2. <<>> \in Seq(Frame) /\ Len(<<>>) = 0 /\ <<>> \o q = q
  BY <1>1, LineAlone
<1> HIDE DEF q
<1>3. Opened = [ring |-> q, server |-> <<>>, corked |-> FALSE, dry |-> Dropped, silent |-> Silence,
                needsSilence |-> FALSE, starved |-> FALSE, gone |-> "no"]
  BY DEF Opened, q
<1>4. /\ Opened.ring = q /\ Opened.server = <<>> /\ Opened.dry = Dropped /\ Opened.silent = Silence
      /\ Opened.needsSilence = FALSE /\ Opened.starved = FALSE
  BY <1>3
<1>5. Line(Opened) = q
  BY <1>2, <1>4 DEF Line
<1>6. Opened \in OutputType
  BY <1>1, <1>2, <1>3, Sizes DEF OutputType
<1>7. OutputGood(TRUE, Opened)
  BY <1>1, <1>2, <1>4, Sizes DEF OutputGood
<1> QED BY <1>1, <1>4, <1>5, <1>6, <1>7, AudioIs

LEMMA EmptyLine ==
  ASSUME NEW o, o.server = <<>>, o.ring = <<>>, o.silent = 0
  PROVE  Held(Line(o), o.silent, Audio(o)) /\ Audio(o) = <<>>
<1>1. <<>> \o <<>> = <<>>
  BY LineAlone
<1>2. Held(Line(o), o.silent, <<>>)
  BY <1>1, HeldEmpty DEF Line
<1> QED BY <1>2, AudioIs

LEMMA ClosedOutput ==
  /\ Closed \in OutputType
  /\ Held(Line(Closed), Closed.silent, Audio(Closed)) /\ Audio(Closed) = <<>>
  /\ OutputGood(FALSE, Closed)
<1>1. Opened \in OutputType /\ Opened.needsSilence = FALSE /\ Opened.server = <<>>
  BY OpenedOutput DEF Opened
<1>2. <<>> \in Seq(Frame) /\ Len(<<>>) = 0
  BY EmptySeq
<1>3. /\ Closed \in OutputType /\ Closed.ring = <<>> /\ Closed.server = <<>>
      /\ Closed.silent = 0 /\ Closed.needsSilence = FALSE
  BY <1>1, <1>2 DEF Closed, OutputType
<1>4. OutputGood(FALSE, Closed)
  BY <1>2, <1>3, Sizes DEF OutputGood
<1> QED BY <1>3, <1>4, EmptyLine

LEMMA FlushedOutput ==
  ASSUME NEW o \in OutputType, NEW sink \in BOOLEAN
  PROVE  /\ Flushed(o) \in OutputType
         /\ Held(Line(Flushed(o)), Flushed(o).silent, Audio(Flushed(o))) /\ Audio(Flushed(o)) = <<>>
         /\ OutputGood(sink, Flushed(o))
<1>1. <<>> \in Seq(Frame) /\ Len(<<>>) = 0
  BY EmptySeq
<1>2. /\ Flushed(o) \in OutputType /\ Flushed(o).ring = <<>> /\ Flushed(o).server = <<>>
      /\ Flushed(o).silent = 0 /\ Flushed(o).needsSilence = TRUE
  <2>1. Dropped \in 0..Dropped
    BY Sizes
  <2> QED BY <1>1, <2>1 DEF Flushed, OutputType
<1>3. OutputGood(sink, Flushed(o))
  BY <1>1, <1>2, Sizes DEF OutputGood
<1> QED BY <1>2, <1>3, EmptyLine

(* The silence goes behind nothing.                                        *)
LEMMA SilencedOutput ==
  ASSUME NEW o \in OutputType, Held(Line(o), o.silent, Audio(o)), OutputGood(TRUE, o)
  PROVE  /\ AddSilence(o) \in OutputType /\ AddSilence(o).needsSilence = FALSE
         /\ Held(Line(AddSilence(o)), AddSilence(o).silent, Audio(AddSilence(o)))
         /\ Audio(AddSilence(o)) = Audio(o)
         /\ OutputGood(TRUE, AddSilence(o))
         /\ AddSilence(o).silent > 0 => o.silent > 0 \/ o.needsSilence
         /\ AddSilence(o).gone = o.gone
<1> DEFINE q == Quiet(Silence)
           n == AddSilence(o)
<1>1. q \in Seq(Frame) /\ Len(q) = Silence /\ Silence \in Nat /\ Held(q, Silence, <<>>)
  BY QuietProperties, HeldQuiet, Sizes
<1>2. <<>> \in Seq(Frame) /\ Len(<<>>) = 0 /\ <<>> \o q = q
  BY <1>1, LineAlone
<1>3. CASE ~o.needsSilence
  <2>1. n = o
    BY <1>3 DEF AddSilence
  <2>2. o.needsSilence = FALSE
    BY <1>3 DEF OutputType
  <2> QED BY <2>1, <2>2
<1>4. CASE o.needsSilence
  <2> HIDE DEF q
  <2>1. o.server = <<>> /\ o.ring = <<>>
    BY <1>4 DEF OutputGood
  <2>2. n = [o EXCEPT !.ring = <<>> \o q, !.silent = Len(<<>>) + Len(<<>>) + Silence,
                      !.needsSilence = FALSE, !.starved = FALSE]
    BY <1>4, <2>1 DEF AddSilence, q
  <2>3. n = [o EXCEPT !.ring = q, !.silent = Silence, !.needsSilence = FALSE, !.starved = FALSE]
    <3>1. Len(<<>>) + Len(<<>>) + Silence = Silence
      BY <1>1, <1>2
    <3> QED BY <3>1, <1>2, <2>2
  <2> HIDE DEF n
  <2>4. /\ n \in OutputType /\ n.ring = q /\ n.server = <<>> /\ n.silent = Silence
        /\ n.needsSilence = FALSE /\ n.dry \in 0..Dropped /\ n.gone = o.gone
    BY <1>1, <2>1, <2>3 DEF OutputType
  <2>5. Line(n) = q
    BY <1>2, <2>4 DEF Line
  <2>6. Audio(n) = <<>> /\ Held(Line(n), n.silent, Audio(n))
    BY <1>1, <2>4, <2>5, AudioIs
  <2>7. Audio(o) = <<>>
    <3>1. Line(o) = <<>>
      BY <2>1, LineAlone DEF Line
    <3> QED BY <3>1, HeldNothing
  <2>8. n.dry <= n.silent
    BY <2>4, Sizes
  <2>9. OutputGood(TRUE, n)
    BY <1>1, <1>2, <2>4, <2>8, Sizes DEF OutputGood
  <2> QED BY <1>4, <2>4, <2>6, <2>7, <2>9 DEF n
<1> QED BY <1>3, <1>4

(* What says nothing of frames.                                            *)
LEMMA SameLine ==
  ASSUME NEW o \in OutputType, NEW n \in OutputType, n.ring = o.ring, n.server = o.server,
         n.silent = o.silent, Held(Line(o), o.silent, Audio(o))
  PROVE  Audio(n) = Audio(o) /\ Held(Line(n), n.silent, Audio(n)) /\ Line(n) = Line(o)
BY DEF Line, Audio

LEMMA PulledOutput ==
  ASSUME NEW o \in OutputType, NEW sink \in BOOLEAN, Held(Line(o), o.silent, Audio(o)),
         OutputGood(sink, o), o.ring # <<>>,
         NEW n \in 0..Len(o.ring), Len(o.server) + n <= Target,
         NEW new, new = [o EXCEPT !.ring = SubSeq(o.ring, n + 1, Len(o.ring)),
                                  !.server = o.server \o SubSeq(o.ring, 1, n)]
  PROVE  /\ new \in OutputType
         /\ Held(Line(new), new.silent, Audio(new)) /\ Audio(new) = Audio(o)
         /\ OutputGood(sink, new)
         /\ new.silent = o.silent /\ new.needsSilence = o.needsSilence
<1> DEFINE r == SubSeq(o.ring, n + 1, Len(o.ring))
           t == o.server \o SubSeq(o.ring, 1, n)
<1>1. /\ o.ring \in Seq(Frame) /\ o.server \in Seq(Frame)
      /\ Len(o.ring) \in Nat /\ Len(o.server) \in Nat
  BY LenProperties DEF OutputType
<1>2. n \in Nat
  BY <1>1
<1>3. /\ t \in Seq(Frame) /\ Len(t) = Len(o.server) + n
      /\ r \in Seq(Frame) /\ Len(r) = Len(o.ring) - n
      /\ t \o r = o.server \o o.ring
  BY <1>1, LinePulled
<1> HIDE DEF r, t
<1>4. new = [o EXCEPT !.ring = r, !.server = t]
  BY DEF r, t
<1>5. /\ new \in OutputType /\ new.ring = r /\ new.server = t /\ new.silent = o.silent
      /\ new.needsSilence = o.needsSilence /\ new.dry = o.dry /\ new.starved = o.starved
  BY <1>3, <1>4 DEF OutputType
<1>6. Line(new) = Line(o)
  BY <1>3, <1>5 DEF Line
<1>7. Audio(new) = Audio(o) /\ Held(Line(new), new.silent, Audio(new))
  BY <1>5, <1>6 DEF Audio
<1>8. sink /\ ~o.needsSilence
  BY DEF OutputGood
<1>9. OutputGood(sink, new)
  <2>1. Len(new.ring) <= Capacity \/ Len(new.ring) <= Silence
    <3>1. Len(o.ring) <= Capacity \/ Len(o.ring) <= Silence
      BY DEF OutputGood
    <3>2. Len(new.ring) = Len(o.ring) - n /\ Capacity \in Nat /\ Silence \in Nat
      BY <1>3, <1>5, Sizes
    <3> QED BY <3>1, <3>2, <1>1, <1>2
  <2>2. Len(new.server) <= Target
    BY <1>3, <1>5
  <2>3. ~new.starved => new.dry <= new.silent
    BY <1>5, <1>8 DEF OutputGood
  <2> QED BY <1>5, <1>8, <2>1, <2>2, <2>3 DEF OutputGood
<1> QED BY <1>5, <1>7, <1>9

LEMMA PlayedOutput ==
  ASSUME NEW o \in OutputType, NEW sink \in BOOLEAN, Held(Line(o), o.silent, Audio(o)),
         OutputGood(sink, o), o.server # <<>>,
         NEW new, new = [o EXCEPT !.server = Tail(o.server), !.silent = Less(o.silent, 1),
                                  !.dry = Less(o.dry, 1)]
  PROVE  /\ new \in OutputType
         /\ Held(Line(new), new.silent, Audio(new))
         /\ Audio(new) = IF o.silent = 0 THEN Tail(Audio(o)) ELSE Audio(o)
         /\ o.silent = 0 => Audio(o) # <<>> /\ Head(o.server) = Audio(o)[1]
         /\ o.silent > 0 => Head(o.server) = Hush
         /\ OutputGood(sink, new)
         /\ new.silent = Less(o.silent, 1) /\ new.needsSilence = o.needsSilence
         /\ sink /\ ~o.needsSilence
<1>1. /\ o.ring \in Seq(Frame) /\ o.server \in Seq(Frame)
      /\ Len(o.ring) \in Nat /\ Len(o.server) \in Nat /\ o.silent \in Nat /\ o.dry \in 0..Dropped
  BY LenProperties DEF OutputType
<1> DEFINE t == Tail(o.server)
           z == Less(o.silent, 1)
           d == Less(o.dry, 1)
<1>2. /\ t \in Seq(Frame) /\ Len(t) = Len(o.server) - 1 /\ Line(o) # <<>>
      /\ Head(Line(o)) = Head(o.server) /\ t \o o.ring = Tail(Line(o))
  BY <1>1, LinePlayed DEF Line
<1>3. z \in Nat /\ d \in 0..Dropped /\ (o.dry <= o.silent => d <= z)
  <2>1. \A m, n \in Nat : Less(m, 1) \in Nat /\ Less(m, 1) <= m /\ (m <= n => Less(m, 1) <= Less(n, 1))
    BY DEF Less
  <2>2. Dropped \in Nat /\ o.dry \in Nat /\ o.dry <= Dropped /\ o.silent \in Nat
    BY <1>1, Sizes
  <2> HIDE DEF z, d
  <2>3. z \in Nat /\ d \in Nat /\ d <= o.dry /\ (o.dry <= o.silent => d <= z)
    BY <2>1, <2>2 DEF z, d
  <2> QED BY <2>2, <2>3
<1> HIDE DEF t, z, d
<1>4. new = [o EXCEPT !.server = t, !.silent = z, !.dry = d]
  BY DEF t, z, d
<1>5. /\ new \in OutputType /\ new.ring = o.ring /\ new.server = t /\ new.silent = z
      /\ new.needsSilence = o.needsSilence /\ new.dry = d /\ new.starved = o.starved
  BY <1>2, <1>3, <1>4 DEF OutputType
<1>6. Line(new) = Tail(Line(o))
  BY <1>2, <1>5 DEF Line
<1>7. Line(o) \in Seq(Frame)
  BY AudioProperties
<1>8. /\ o.silent > 0 => Head(Line(o)) = Hush
      /\ o.silent = 0 => Audio(o) # <<>> /\ Head(Line(o)) = Audio(o)[1]
      /\ Held(Tail(Line(o)), Less(o.silent, 1), IF o.silent = 0 THEN Tail(Audio(o)) ELSE Audio(o))
  BY <1>2, <1>7, HeldTail
<1>9. /\ Audio(new) = IF o.silent = 0 THEN Tail(Audio(o)) ELSE Audio(o)
      /\ Held(Line(new), new.silent, Audio(new))
  BY <1>5, <1>6, <1>8, AudioIs DEF z
<1>10. sink /\ ~o.needsSilence
  BY DEF OutputGood
<1>11. OutputGood(sink, new)
  <2>1. Len(new.server) <= Target
    <3>1. Len(o.server) <= Target
      BY DEF OutputGood
    <3> QED BY SMTT(30), <3>1, <1>1, <1>2, <1>5, Sizes
  <2>2. ~new.starved => new.dry <= new.silent
    <3>1. ~o.starved => o.dry <= o.silent
      BY <1>10 DEF OutputGood
    <3> QED BY <3>1, <1>3, <1>5
  <2> QED BY <1>5, <1>10, <2>1, <2>2 DEF OutputGood
<1> QED BY <1>2, <1>5, <1>8, <1>9, <1>10, <1>11 DEF z

LEMMA WrittenOutput ==
  ASSUME NEW o \in OutputType, Held(Line(o), o.silent, Audio(o)),
         OutputGood(TRUE, o), ~o.needsSilence, NEW f \in Seq(Frame), Room(o, Len(f)),
         NEW new, new = [o EXCEPT !.ring = o.ring \o f]
  PROVE  /\ new \in OutputType
         /\ Held(Line(new), new.silent, Audio(new)) /\ Audio(new) = Audio(o) \o f
         /\ Len(Audio(o)) + Len(f) <= KeptFrames
         /\ OutputGood(TRUE, new)
         /\ new.silent = o.silent /\ new.needsSilence = FALSE
<1>1. /\ o.ring \in Seq(Frame) /\ o.server \in Seq(Frame)
      /\ Len(o.ring) \in Nat /\ Len(o.server) \in Nat /\ o.silent \in Nat /\ Len(f) \in Nat
      /\ o.needsSilence = FALSE
  BY LenProperties DEF OutputType
<1> DEFINE r == o.ring \o f
<1>2. r \in Seq(Frame) /\ Len(r) = Len(o.ring) + Len(f) /\ o.server \o r = Line(o) \o f
  BY <1>1, LineWritten DEF Line
<1>3. Len(r) <= Capacity
  BY <1>1, <1>2 DEF Room
<1> HIDE DEF r
<1>4. new = [o EXCEPT !.ring = r]
  BY DEF r
<1>5. /\ new \in OutputType /\ new.ring = r /\ new.server = o.server /\ new.silent = o.silent
      /\ new.needsSilence = FALSE /\ new.dry = o.dry /\ new.starved = o.starved
  BY <1>1, <1>2, <1>4 DEF OutputType
<1>6. Line(new) = Line(o) \o f
  BY <1>2, <1>5 DEF Line
<1>7. Line(o) \in Seq(Frame) /\ Len(Audio(o)) <= Len(o.server) + Len(o.ring)
  <2>1. /\ Line(o) \in Seq(Frame) /\ Len(Line(o)) = Len(o.server) + Len(o.ring)
        /\ Len(Line(o)) = o.silent + Len(Audio(o)) /\ Len(Audio(o)) \in Nat
    BY AudioProperties
  <2>2. \A m, n \in Nat : n <= m + n
    OBVIOUS
  <2>3. Len(Audio(o)) <= o.silent + Len(Audio(o))
    BY <1>1, <2>1, <2>2
  <2> QED BY <2>1, <2>3
<1>8. Audio(new) = Audio(o) \o f /\ Held(Line(new), new.silent, Audio(new))
  <2>1. Held(Line(o) \o f, o.silent, Audio(o) \o f)
    BY <1>7, HeldAppended
  <2> QED BY <2>1, <1>5, <1>6, AudioIs
<1>9. Len(Audio(o)) + Len(f) <= KeptFrames
  <2>1. Len(o.server) <= Target /\ Len(Audio(o)) \in Nat
    BY AudioProperties DEF OutputGood
  <2>2. \A a, b, c, d, t, m \in Nat : a <= b + c /\ b <= t /\ c + d <= m => a + d <= m + t
    OBVIOUS
  <2>3. Target \in Nat /\ Capacity \in Nat /\ KeptFrames = Capacity + Target
    BY Sizes
  <2>4. Len(o.ring) + Len(f) <= Capacity
    BY <1>2, <1>3
  <2> QED BY <2>1, <2>2, <2>3, <2>4, <1>1, <1>7
<1>10. OutputGood(TRUE, new)
  BY <1>3, <1>5 DEF OutputGood
<1> QED BY <1>5, <1>8, <1>9, <1>10

---------------------------------------------------------------------------
(* What happens to the engine.                                             *)

LEMMA RealFrames ==
  ASSUME NEW i \in Places, NEW from \in Nat, NEW to \in Nat
  PROVE  /\ Frames(i, from, to) \in Seq(Frame) /\ Len(Frames(i, from, to)) = Less(to, from)
         /\ \A k \in 1..Less(to, from) : Frames(i, from, to)[k] = <<i, from + k - 1>>
         /\ Real(Frames(i, from, to))
<1> DEFINE n == Less(to, from)
           t == Frames(i, from, to)
<1>1. n \in Nat
  BY DEF Less
<1>2. i \in Nat
  BY Sizes
<1> HIDE DEF n
<1>3. \A k \in 1..n : <<i, from + k - 1>> \in Frame
  <2>1. \A k \in 1..n : from + k - 1 \in Nat
    BY <1>1
  <2> QED BY <1>2, <2>1 DEF Frame
<1>4. t = [k \in 1..n |-> <<i, from + k - 1>>]
  BY DEF Frames, n
<1> HIDE DEF t
<1> DEFINE g(k) == <<i, from + k - 1>>
<1>5. t \in Seq(Frame) /\ Len(t) = n /\ \A k \in 1..n : t[k] = g(k)
  <2>1. t = [k \in 1..n |-> g(k)] /\ \A k \in 1..n : g(k) \in Frame
    BY <1>3, <1>4
  <2> HIDE DEF g
  <2> QED BY <1>1, <2>1
<1>6. Real(t)
  BY <1>5 DEF Real
<1> QED BY <1>5, <1>6 DEF n, t

LEMMA RealJoined ==
  ASSUME NEW a \in Seq(Frame), NEW b \in Seq(Frame), Real(a), Real(b)
  PROVE  a \o b \in Seq(Frame) /\ Real(a \o b)
<1> DEFINE t == a \o b
<1>1. Len(a) \in Nat /\ Len(b) \in Nat
  BY LenProperties
<1>2. /\ t \in Seq(Frame) /\ Len(t) = Len(a) + Len(b)
      /\ \A i \in 1..(Len(a) + Len(b)) : t[i] = IF i <= Len(a) THEN a[i] ELSE b[i - Len(a)]
  BY JoinedFrames
<1> HIDE DEF t
<1>3. ASSUME NEW i \in 1..(Len(a) + Len(b)) PROVE t[i][1] \in Places
  <2>1. CASE i <= Len(a)
    <3>1. i \in 1..Len(a)
      BY <1>1, <2>1
    <3> QED BY <3>1, <2>1, <1>2 DEF Real
  <2>2. CASE ~(i <= Len(a))
    <3>1. i - Len(a) \in 1..Len(b)
      BY <1>1, <2>2
    <3> QED BY <3>1, <2>2, <1>2 DEF Real
  <2> QED BY <2>1, <2>2
<1> QED BY <1>2, <1>3 DEF Real, t

LEMMA RealPart ==
  ASSUME NEW s \in Seq(Frame), Real(s), NEW a \in 0..Len(s), NEW b \in a..Len(s)
  PROVE  /\ SubSeq(s, a + 1, b) \in Seq(Frame) /\ Len(SubSeq(s, a + 1, b)) = b - a
         /\ Real(SubSeq(s, a + 1, b))
<1> DEFINE t == SubSeq(s, a + 1, b)
<1>1. t \in Seq(Frame) /\ Len(t) = b - a /\ \A j \in 1..(b - a) : t[j] = s[j + a]
  BY PartProperties
<1>2. Len(s) \in Nat
  BY LenProperties
<1> HIDE DEF t
<1>3. \A j \in 1..(b - a) : j + a \in 1..Len(s)
  BY <1>2
<1>4. Real(t)
  BY <1>1, <1>3 DEF Real
<1> QED BY <1>1, <1>4 DEF t

LEMMA RealEmpty == <<>> \in Seq(Frame) /\ Len(<<>>) = 0 /\ Real(<<>>)
<1>1. <<>> \in Seq(Frame) /\ Len(<<>>) = 0
  BY EmptySeq
<1> QED BY <1>1 DEF Real

LEMMA RealKept ==
  ASSUME NEW s \in Seq(Frame), NEW a \in Seq(Frame), Real(s), Kept(s, a)
  PROVE  Real(a) /\ Len(a) <= Len(s)
<1>1. Len(a) \in Nat /\ Len(s) \in Nat
  BY LenProperties
<1>2. Len(a) <= Len(s) /\ \A j \in 1..Len(a) : a[j] = s[j + (Len(s) - Len(a))]
  BY KeptIs
<1>3. \A j \in 1..Len(a) : j + (Len(s) - Len(a)) \in 1..Len(s)
  BY <1>1, <1>2
<1> QED BY <1>2, <1>3 DEF Real

LEMMA RealKeep ==
  ASSUME NEW s \in Seq(Frame), Real(s), NEW n \in 0..Len(s)
  PROVE  Keep(s, n) \in Seq(Frame) /\ Len(Keep(s, n)) = n /\ Real(Keep(s, n))
<1>1. Keep(s, n) \in Seq(Frame) /\ Len(Keep(s, n)) = n /\ \A j \in 1..n : Keep(s, n)[j] = s[j + (Len(s) - n)]
  BY KeepProperties
<1>2. Len(s) \in Nat
  BY LenProperties
<1> DEFINE t == Keep(s, n)
<1> HIDE DEF t
<1>3. \A j \in 1..n : j + (Len(s) - n) \in 1..Len(s)
  BY <1>2
<1>4. t \in Seq(Frame) /\ Len(t) = n /\ \A j \in 1..n : t[j] = s[j + (Len(s) - n)]
  BY <1>1 DEF t
<1>5. Real(t)
  BY <1>3, <1>4 DEF Real
<1> QED BY <1>4, <1>5 DEF t

LEMMA RealRecent ==
  ASSUME NEW s \in Seq(Frame), NEW f \in Seq(Frame), Real(s), Real(f)
  PROVE  Real(Recent(s, f))
<1> DEFINE t == s \o f
           K == KeptFrames
<1>1. t \in Seq(Frame) /\ Real(t)
  BY RealJoined
<1>2. Recent(s, f) = IF Len(t) > 2 * K THEN Keep(t, K) ELSE t
  BY DEF Recent
<1> HIDE DEF t, K
<1>3. CASE ~(Len(t) > 2 * K)
  BY <1>1, <1>2, <1>3
<1>4. CASE Len(t) > 2 * K
  <2>1. K \in 0..Len(t)
    <3>1. K \in Nat /\ Len(t) \in Nat
      BY <1>1, LenProperties, Sizes DEF K
    <3> QED BY <3>1, <1>4
  <2>2. Real(Keep(t, K))
    BY <1>1, <2>1, RealKeep
  <2> QED BY <1>2, <1>4, <2>2
<1> QED BY <1>3, <1>4

LEMMA NothingPlaying ==
  /\ NoTrack \in PlayingType /\ NoTrack.pending = <<>> /\ NoTrack.recent = <<>>
  /\ NoTrack.written = 0 /\ NoTrack.done = FALSE
  /\ NoOutgoing \in [at : Nat, end : Nat]
BY RealEmpty DEF NoTrack, NoOutgoing, PlayingType

(* With nothing written since the output was opened or flushed.            *)
LEMMA FreshSound ==
  ASSUME NEW p \in PlayingType, NEW o, p.written = 0, Real(p.pending), Real(p.recent),
         Len(p.recent) <= 2 * KeptFrames,
         Held(Line(o), o.silent, Audio(o)), Audio(o) = <<>>
  PROVE  SoundBase(p, o)
<1>1. p.recent \in Seq(Frame) /\ Len(<<>>) = 0
  BY RealEmpty DEF PlayingType
<1>2. Kept(p.recent, <<>>)
  BY <1>1, KeptEmpty
<1> QED BY <1>1, <1>2 DEF SoundBase

LEMMA StoppedBase ==
  ASSUME NEW e \in EngineType, NEW d \in DownloadType
  PROVE  /\ Base(Stopped(e), d, Closed) /\ BusyGood(Stopped(e), Closed)
         /\ Stopped(e).state = "Stopped" /\ Stopped(e).sink = FALSE
         /\ Stopped(e).playing = NoTrack /\ Stopped(e).busy = "no"
         /\ Stopped(e).outgoing = NoOutgoing
<1> DEFINE f == Stopped(e)
<1>1. /\ f \in EngineType /\ f.state = "Stopped" /\ f.busy = "no" /\ f.sink = FALSE
      /\ f.playing = NoTrack /\ f.outgoing = NoOutgoing
  BY NothingPlaying DEF Stopped, EngineType, States
<1> HIDE DEF f
<1>2. SoundBase(f.playing, Closed)
  <2>1. 0 <= 2 * KeptFrames
    BY Sizes
  <2> QED BY <1>1, <2>1, NothingPlaying, RealEmpty, ClosedOutput, FreshSound
<1>3. TrackBase(f)
  BY <1>1 DEF TrackBase, OnTrack
<1>4. Base(f, d, Closed)
  BY <1>1, <1>2, <1>3, ClosedOutput, NothingPlaying DEF Base
<1>5. BusyGood(f, Closed)
  BY <1>1 DEF BusyGood
<1> QED BY <1>1, <1>4, <1>5 DEF f

LEMMA LoadAfterBase ==
  ASSUME NEW e \in EngineType, NEW d \in DownloadType, NEW i \in Places, NEW o \in OutputType,
         Held(Line(o), o.silent, Audio(o)), Audio(o) = <<>>, OutputGood(LoadAfter(e, i).sink, o)
  PROVE  /\ Base(LoadAfter(e, i), d, o) /\ BusyGood(LoadAfter(e, i), o)
         /\ LoadAfter(e, i).playing = NoTrack /\ LoadAfter(e, i).busy = "no"
         /\ LoadAfter(e, i).state = IF i < Len(Length) THEN "Loading" ELSE "Stopped"
         /\ i < Len(Length) => LoadAfter(e, i).loading = i + 1
<1> DEFINE f == LoadAfter(e, i)
<1>1. /\ f \in EngineType /\ f.busy = "no" /\ f.playing = NoTrack /\ f.outgoing = NoOutgoing
      /\ f.state = IF i < Len(Length) THEN "Loading" ELSE "Stopped"
      /\ i < Len(Length) => f.loading = i + 1 /\ i + 1 \in Places
  <2>1. CASE i < Len(Length)
    <3>1. i + 1 \in Places /\ i + 1 \in Nat
      BY <2>1, Sizes
    <3>2. f = [e EXCEPT !.state = "Loading", !.busy = "no", !.loading = i + 1,
                        !.playing = NoTrack, !.outgoing = NoOutgoing]
      BY <2>1 DEF LoadAfter
    <3> HIDE DEF f
    <3> QED BY <2>1, <3>1, <3>2, NothingPlaying DEF EngineType, States
  <2>2. CASE ~(i < Len(Length))
    <3>1. f = Stopped(e)
      BY <2>2 DEF LoadAfter
    <3>2. Stopped(e) \in EngineType
      BY StoppedBase DEF Base
    <3> HIDE DEF f
    <3> QED BY <2>2, <3>1, <3>2, StoppedBase
  <2> QED BY <2>1, <2>2
<1>2. OutputGood(f.sink, o)
  OBVIOUS
<1> HIDE DEF f
<1>3. SoundBase(f.playing, o)
  <2>1. 0 <= 2 * KeptFrames
    BY Sizes
  <2> QED BY <1>1, <2>1, NothingPlaying, RealEmpty, FreshSound
<1>4. TrackBase(f)
  BY <1>1 DEF TrackBase, OnTrack
<1>5. Base(f, d, o)
  BY <1>1, <1>2, <1>3, <1>4, NothingPlaying DEF Base
<1>6. BusyGood(f, o)
  BY <1>1 DEF BusyGood
<1> QED BY <1>1, <1>5, <1>6 DEF f

LEMMA CrossedBase ==
  ASSUME NEW e, NEW d, NEW o, NEW queued, Base(e, d, o)
  PROVE  /\ Base(Crossed(e, queued), d, o)
         /\ BusyGood(e, o) => BusyGood(Crossed(e, queued), o)
         /\ Crossed(e, queued).state = e.state /\ Crossed(e, queued).busy = e.busy
         /\ Crossed(e, queued).sink = e.sink /\ Crossed(e, queued).playing = e.playing
         /\ Crossed(e, queued).outgoing \in {e.outgoing, NoOutgoing}
<1> DEFINE f == Crossed(e, queued)
<1>1. CASE f = e
  BY <1>1
<1>2. CASE f = [e EXCEPT !.outgoing = NoOutgoing]
  <2>1. e \in EngineType
    BY DEF Base
  <2> HIDE DEF f
  <2>2. /\ f \in EngineType /\ f.state = e.state /\ f.busy = e.busy /\ f.sink = e.sink
        /\ f.loading = e.loading /\ f.playing = e.playing /\ f.outgoing = NoOutgoing
        /\ f.pauseWhenReady = e.pauseWhenReady
    BY <1>2, <2>1, NothingPlaying DEF EngineType
  <2>3. TrackBase(f)
    BY <2>2 DEF Base, TrackBase
  <2>4. Base(f, d, o)
    BY <2>2, <2>3 DEF Base
  <2>5. BusyGood(e, o) => BusyGood(f, o)
    BY <2>2 DEF BusyGood
  <2> QED BY <2>2, <2>4, <2>5 DEF f
<1> QED BY <1>1, <1>2 DEF Crossed

LEMMA FreshBase ==
  ASSUME NEW e \in EngineType, NEW d \in DownloadType, NEW o \in OutputType,
         e.playing.written = 0, Real(e.playing.pending), Real(e.playing.recent),
         Len(e.playing.recent) <= 2 * KeptFrames, TrackBase(e),
         Held(Line(o), o.silent, Audio(o)), Audio(o) = <<>>, OutputGood(e.sink, o)
  PROVE  Base(e, d, o)
<1>1. e.playing \in PlayingType
  BY DEF EngineType
<1>2. SoundBase(e.playing, o)
  BY <1>1, FreshSound
<1> QED BY <1>2 DEF Base

(* What was written and not heard goes in front of what is pending.        *)
LEMMA AsideBase ==
  ASSUME NEW e, NEW d, NEW o, NEW queued \in Nat, Base(e, d, o), e.state \in OnTrack
  PROVE  /\ SetAside(e, queued) \in EngineType
         /\ SetAside(e, queued).state = "Paused" /\ SetAside(e, queued).busy = "no"
         /\ SetAside(e, queued).sink = FALSE
         /\ SetAside(e, queued).playing.written = 0
         /\ Real(SetAside(e, queued).playing.pending)
         /\ SetAside(e, queued).playing.recent = <<>>
         /\ SetAside(e, queued).playing.at \in Places
         /\ SetAside(e, queued).outgoing # NoOutgoing => SetAside(e, queued).outgoing.at \in Places
         /\ TrackBase(SetAside(e, queued))
<1> DEFINE c == Crossed(e, queued)
           p == c.playing
           keep == AtMost(AtMost(queued, Len(p.recent)), p.written)
           heard == p.written - keep
           new == Keep(p.recent, keep) \o p.pending
           f == SetAside(e, queued)
<1>1. Base(c, d, o) /\ c.state \in OnTrack
  BY CrossedBase
<1> HIDE DEF c
<1>2. /\ c \in EngineType /\ p \in PlayingType
      /\ p.recent \in Seq(Frame) /\ p.pending \in Seq(Frame) /\ p.written \in Nat
      /\ p.base \in Nat /\ p.leadIn \in Nat /\ Real(p.recent) /\ Real(p.pending)
      /\ p.at \in Places
      /\ c.outgoing # NoOutgoing => c.outgoing.at \in Places
  BY <1>1 DEF Base, SoundBase, TrackBase, EngineType, PlayingType
<1>3. keep \in 0..Len(p.recent) /\ heard \in Nat
  <2>1. Len(p.recent) \in Nat
    BY <1>2, LenProperties
  <2>2. \A l, w \in Nat : /\ AtMost(AtMost(queued, l), w) \in 0..l
                          /\ w - AtMost(AtMost(queued, l), w) \in Nat
    BY DEF AtMost
  <2> QED BY <1>2, <2>1, <2>2
<1>4. new \in Seq(Frame) /\ Real(new)
  <2>1. Keep(p.recent, keep) \in Seq(Frame) /\ Real(Keep(p.recent, keep))
    BY <1>2, <1>3, RealKeep
  <2> QED BY <1>2, <2>1, RealJoined
<1> DEFINE aside == [p EXCEPT !.pending = new, !.recent = <<>>, !.written = 0, !.sinkPaused = FALSE]
           q == IF c.outgoing # NoOutgoing
                  THEN [aside EXCEPT !.leadIn = Less(aside.leadIn, heard)]
                  ELSE [aside EXCEPT !.base = aside.base + Less(heard, p.leadIn), !.leadIn = 0]
<1>5. f = [c EXCEPT !.busy = "no", !.sink = FALSE, !.state = "Paused", !.playing = q]
  BY DEF SetAside, c
<1> HIDE DEF keep, heard, new, p, f
<1>6. /\ q \in PlayingType /\ q.written = 0 /\ q.pending = new /\ q.recent = <<>> /\ q.at = p.at
  <2>1. \A k, m, n \in Nat : Less(m, n) \in Nat /\ k + Less(m, n) \in Nat
    BY DEF Less
  <2>2. /\ aside \in PlayingType /\ aside.written = 0 /\ aside.pending = new /\ aside.recent = <<>>
        /\ aside.at = p.at /\ aside.leadIn \in Nat /\ aside.base \in Nat
    BY <1>2, <1>4, RealEmpty DEF PlayingType
  <2> HIDE DEF aside
  <2>3. CASE c.outgoing # NoOutgoing
    <3>1. Less(aside.leadIn, heard) \in Nat
      BY <1>3, <2>1, <2>2
    <3> QED BY <2>2, <2>3, <3>1 DEF PlayingType
  <2>4. CASE ~(c.outgoing # NoOutgoing)
    <3>1. aside.base + Less(heard, p.leadIn) \in Nat
      BY <1>2, <1>3, <2>1, <2>2
    <3> QED BY <2>2, <2>4, <3>1 DEF PlayingType
  <2> QED BY <2>3, <2>4
<1> HIDE DEF q
<1>7. /\ f \in EngineType /\ f.state = "Paused" /\ f.busy = "no" /\ f.sink = FALSE
      /\ f.playing = q /\ f.outgoing = c.outgoing
  BY <1>2, <1>5, <1>6 DEF EngineType, States
<1>8. TrackBase(f)
  BY <1>2, <1>6, <1>7 DEF TrackBase, OnTrack
<1> QED BY <1>2, <1>4, <1>6, <1>7, <1>8 DEF f, p

LEMMA HandedOverBase ==
  ASSUME NEW e, NEW d, NEW o, NEW n \in DownloadType, Base(e, d, o), e.state = "Playing",
         e.playing.at < Len(Length)
  PROVE  /\ Base(HandedOver(e), n, o) /\ BusyGood(HandedOver(e), o)
         /\ HandedOver(e).state = "Playing" /\ HandedOver(e).busy = "no"
<1> DEFINE p == e.playing
           first == AtMost(Chunk, Length[p.at + 1])
           new == Frames(p.at + 1, 0, first)
           end == p.base + Less(p.written, p.leadIn)
           f == HandedOver(e)
<1>1. /\ e \in EngineType /\ p \in PlayingType /\ p.at \in Places /\ p.at \in Nat
      /\ p.recent \in Seq(Frame) /\ p.written \in Nat /\ p.base \in Nat /\ p.leadIn \in Nat
  BY DEF Base, TrackBase, OnTrack, EngineType, PlayingType
<1>2. p.at + 1 \in Places /\ p.at + 1 \in Nat
  BY SMTT(30), <1>1, Sizes
<1>3. first \in Nat
  <2>1. Chunk \in Nat /\ Length[p.at + 1] \in Nat
    BY <1>2, Sizes
  <2> QED BY <2>1 DEF AtMost
<1>4. new \in Seq(Frame) /\ Real(new)
  BY <1>2, <1>3, RealFrames
<1>5. end \in Nat
  <2>1. \A x, y, z \in Nat : z + Less(x, y) \in Nat
    BY DEF Less
  <2> QED BY <1>1, <2>1
<1> DEFINE q == [Started(p.at + 1) EXCEPT !.next = first, !.pending = new, !.recent = p.recent,
                                          !.sinkPaused = p.sinkPaused, !.written = p.written,
                                          !.leadIn = p.written]
<1>6. f = [e EXCEPT !.busy = "no", !.outgoing = [at |-> p.at, end |-> end], !.playing = q]
  BY DEF HandedOver
<1> HIDE DEF p, first, new, end, f
<1>7. /\ q \in PlayingType /\ q.written = p.written /\ q.recent = p.recent /\ q.pending = new
      /\ q.at = p.at + 1
  BY <1>1, <1>2, <1>3, <1>4, NothingPlaying DEF Started, NoTrack, PlayingType
<1> HIDE DEF q
<1>8. /\ f \in EngineType /\ f.state = "Playing" /\ f.busy = "no" /\ f.sink = e.sink
      /\ f.playing = q /\ f.outgoing.at = p.at
  BY <1>1, <1>5, <1>6, <1>7 DEF EngineType
<1>9. SoundBase(q, o)
  BY <1>4, <1>7 DEF Base, SoundBase, p
<1>10. TrackBase(f)
  BY <1>1, <1>2, <1>7, <1>8 DEF Base, TrackBase, OnTrack
<1>11. Base(f, n, o)
  BY <1>7, <1>8, <1>9, <1>10 DEF Base, p
<1>12. BusyGood(f, o)
  BY <1>8 DEF BusyGood
<1> QED BY <1>8, <1>11, <1>12 DEF f

LEMMA ListenerMoved ==
  ASSUME listener \in ListenerType, NEW i \in Places, NEW n \in Nat
  PROVE  /\ Jumped(i, n) \in ListenerType
         /\ [listener EXCEPT !.at = i, !.position = n] \in ListenerType
         /\ [listener EXCEPT !.at = i, !.position = n, !.lost = @ + 1] \in ListenerType
<1> USE DEF ListenerType
<1>1. listener.jumps + 1 \in Nat /\ listener.lost + 1 \in Nat
  OBVIOUS
<1> QED BY <1>1 DEF Jumped

LEMMA DownloadingType ==
  ASSUME NEW i \in Places, NEW start \in Nat
  PROVE  Downloading(i, start) \in DownloadType /\ From(start) \in DownloadType
<1>1. Length[i] \in Nat
  BY Sizes
<1>2. \A n \in Nat : From(n) \in DownloadType
  BY DEF From, DownloadType
<1> QED BY <1>1, <1>2 DEF Downloading

---------------------------------------------------------------------------
(* Every step preserves the invariant.                                     *)

LEMMA InvBaseInit == Init => InvBase
<1> SUFFICES ASSUME Init PROVE InvBase
  OBVIOUS
<1>1. /\ engine \in EngineType /\ engine.state = "Loading" /\ engine.busy = "no"
      /\ engine.sink = FALSE /\ engine.loading = 1 /\ engine.playing = NoTrack
      /\ engine.outgoing = NoOutgoing
  BY NothingPlaying DEF Init, EngineType, States
<1>2. 1 \in Places /\ 0 <= 2 * KeptFrames
  BY Sizes
<1>3. TrackBase(engine)
  BY <1>1, <1>2 DEF TrackBase, OnTrack
<1>4. download \in DownloadType /\ output = Closed
  BY DEF Init, From, DownloadType
<1>5. Base(engine, download, output)
  BY <1>1, <1>2, <1>3, <1>4, ClosedOutput, FreshBase, NothingPlaying, RealEmpty
<1>6. BusyGood(engine, output)
  BY <1>1 DEF BusyGood
<1>7. listener \in ListenerType /\ spent \in [commands : Nat, failures : Nat]
  BY <1>2 DEF Init, ListenerType
<1> QED BY <1>5, <1>6, <1>7 DEF InvBase

LEMMA PulledSound ==
  ASSUME InvBase, Pull
  PROVE  /\ output' \in OutputType
         /\ Held(Line(output'), output'.silent, Audio(output')) /\ Audio(output') = Audio(output)
         /\ OutputGood(engine.sink, output')
         /\ output'.silent = output.silent /\ output'.needsSilence = output.needsSilence
         /\ engine' = engine /\ download' = download /\ listener' = listener /\ spent' = spent
<1> DEFINE n == AtMost(Len(output.ring), Target - Len(output.server))
<1>1. /\ output \in OutputType /\ Held(Line(output), output.silent, Audio(output))
      /\ OutputGood(engine.sink, output) /\ engine.sink \in BOOLEAN
  BY DEF InvBase, Base, SoundBase, EngineType
<1>2. n \in 0..Len(output.ring) /\ Len(output.server) + n <= Target
  <2>1. Len(output.ring) \in Nat /\ Len(output.server) \in Nat /\ Len(output.server) < Target
        /\ Target \in Nat
    BY <1>1, AudioProperties, Sizes DEF Pull
  <2>2. \A r, s, t \in Nat : s < t => AtMost(r, t - s) \in 0..r /\ s + AtMost(r, t - s) <= t
    BY DEF AtMost
  <2> QED BY <2>1, <2>2
<1>3. /\ output' = [output EXCEPT !.ring = SubSeq(output.ring, n + 1, Len(output.ring)),
                                  !.server = output.server \o SubSeq(output.ring, 1, n)]
      /\ output.ring # <<>>
      /\ engine' = engine /\ download' = download /\ listener' = listener /\ spent' = spent
  BY DEF Pull
<1> HIDE DEF n
<1>4. /\ output' \in OutputType
      /\ Held(Line(output'), output'.silent, Audio(output')) /\ Audio(output') = Audio(output)
      /\ OutputGood(engine.sink, output')
      /\ output'.silent = output.silent /\ output'.needsSilence = output.needsSilence
  BY ZenonT(40), <1>1, <1>2, <1>3, PulledOutput
<1> QED BY <1>3, <1>4

LEMMA PullBase ==
  ASSUME InvBase, Pull
  PROVE  InvBase'
<1>1. SoundBase(engine.playing, output')
  BY PulledSound DEF InvBase, Base, SoundBase
<1>2. Base(engine, download, output') /\ BusyGood(engine, output')
  BY <1>1, PulledSound DEF InvBase, Base, BusyGood
<1> QED BY <1>2, PulledSound DEF InvBase

LEMMA PlayBase ==
  ASSUME InvBase, Play
  PROVE  InvBase'
<1> DEFINE frame == Head(output.server)
           p == engine.playing
           a == Audio(output)
<1>1. /\ output \in OutputType /\ Held(Line(output), output.silent, a)
      /\ OutputGood(engine.sink, output) /\ engine.sink \in BOOLEAN /\ p \in PlayingType
      /\ p.recent \in Seq(Frame) /\ Real(p.recent) /\ Kept(p.recent, a)
      /\ Len(a) <= p.written /\ p.written \in Nat
  BY DEF InvBase, Base, SoundBase, EngineType, PlayingType
<1>2. /\ output' = [output EXCEPT !.server = Tail(output.server), !.silent = Less(output.silent, 1),
                                  !.dry = Less(output.dry, 1)]
      /\ output.server # <<>>
      /\ engine' = engine /\ download' = download /\ spent' = spent
  BY DEF Play
<1>3. /\ output' \in OutputType
      /\ Held(Line(output'), output'.silent, Audio(output'))
      /\ Audio(output') = IF output.silent = 0 THEN Tail(a) ELSE a
      /\ output.silent = 0 => a # <<>> /\ frame = a[1]
      /\ output.silent > 0 => frame = Hush
      /\ OutputGood(engine.sink, output')
      /\ output'.silent = Less(output.silent, 1) /\ output'.needsSilence = output.needsSilence
  BY <1>1, <1>2, PlayedOutput
<1>4. a \in Seq(Frame) /\ Len(a) \in Nat /\ output.silent \in Nat
  BY <1>1, AudioProperties
<1>5. Real(a)
  BY <1>1, <1>4, RealKept
<1>6. SoundBase(p, output')
  <2>1. CASE output.silent = 0
    <3>1. Tail(a) \in Seq(Frame) /\ Len(Tail(a)) = Len(a) - 1 /\ Kept(p.recent, Tail(a))
      BY <1>1, <1>3, <1>4, <2>1, KeptTail, HeadTailProperties
    <3>2. Len(Tail(a)) <= p.written
      BY <1>1, <1>4, <3>1
    <3>3. output'.silent = 0 /\ Audio(output') = Tail(a)
      BY <1>3, <2>1 DEF Less
    <3> QED BY <1>3, <3>1, <3>2, <3>3 DEF InvBase, Base, SoundBase
  <2>2. CASE output.silent > 0
    <3>1. Audio(output') = a
      BY <1>3, <1>4, <2>2
    <3> HIDE DEF a
    <3>2. Len(a) = p.written
      BY <2>2 DEF InvBase, Base, SoundBase, a
    <3> QED BY <1>1, <1>3, <3>1, <3>2 DEF InvBase, Base, SoundBase
  <2> QED BY <1>4, <2>1, <2>2
<1>7. Base(engine, download, output') /\ BusyGood(engine, output')
  BY <1>3, <1>6 DEF InvBase, Base, BusyGood
<1>8. listener' \in ListenerType
  <2>1. CASE frame = Hush
    BY <2>1 DEF Play, InvBase
  <2>2. CASE frame # Hush
    <3>1. output.silent = 0 /\ frame = a[1] /\ a # <<>>
      BY <1>3, <1>4, <2>2
    <3>2. 1 \in 1..Len(a)
      BY <1>4, <3>1, EmptySeq
    <3>3. frame[1] \in Places
      BY <1>5, <3>1, <3>2 DEF Real
    <3>4. frame \in Frame
      BY <1>4, <3>1, <3>2, ElementOfSeq
    <3>5. frame[2] + 1 \in Nat
      BY <3>4 DEF Frame
    <3> HIDE DEF frame
    <3>6. listener' \in {Jumped(frame[1], frame[2] + 1),
                         [listener EXCEPT !.at = frame[1], !.position = frame[2] + 1]}
      BY <2>2 DEF Play, frame
    <3>7. listener \in ListenerType
      BY DEF InvBase
    <3> QED BY <3>3, <3>5, <3>6, <3>7, ListenerMoved
  <2> QED BY <2>1, <2>2
<1> QED BY <1>2, <1>7, <1>8 DEF InvBase

LEMMA ServerBase ==
  ASSUME InvBase, RunDry \/ GoAway
  PROVE  InvBase'
<1>1. /\ output \in OutputType /\ Held(Line(output), output.silent, Audio(output))
      /\ OutputGood(engine.sink, output) /\ output.needsSilence \in BOOLEAN
  BY DEF InvBase, Base, SoundBase, OutputType
<1>2. /\ output' \in OutputType
      /\ output'.ring = output.ring /\ output'.server = output.server /\ output'.silent = output.silent
      /\ output'.needsSilence = output.needsSilence
  <2>1. CASE RunDry
    <3>1. Dropped \in 0..Dropped
      BY Sizes
    <3> QED BY <1>1, <2>1, <3>1 DEF RunDry, OutputType
  <2>2. CASE GoAway
    <3>1. PICK how \in {"said", "unsaid"} : output' = [output EXCEPT !.gone = how]
      BY <2>2 DEF GoAway
    <3> QED BY <1>1, <3>1 DEF OutputType
  <2> QED BY <2>1, <2>2
<1>3. OutputGood(engine.sink, output')
  <2>1. CASE RunDry
    <3>1. ~output'.starved => output.needsSilence
      BY <1>1, <2>1 DEF RunDry, OutputType
    <3> QED BY <1>1, <1>2, <3>1 DEF OutputGood
  <2>2. CASE GoAway
    <3>1. output'.starved = output.starved /\ output'.dry = output.dry
      BY <1>1, <2>2 DEF GoAway, OutputType
    <3> QED BY <1>1, <1>2, <3>1 DEF OutputGood
  <2> QED BY <2>1, <2>2
<1>4. Audio(output') = Audio(output) /\ Held(Line(output'), output'.silent, Audio(output'))
  BY <1>1, <1>2, SameLine
<1>5. SoundBase(engine.playing, output')
  BY <1>2, <1>4 DEF InvBase, Base, SoundBase
<1>6. Base(engine, download, output') /\ BusyGood(engine, output')
  BY <1>2, <1>3, <1>5 DEF InvBase, Base, BusyGood
<1>7. engine' = engine /\ download' = download /\ listener' = listener
  BY DEF RunDry, GoAway
<1>8. spent' \in [commands : Nat, failures : Nat]
  BY DEF RunDry, GoAway, InvBase
<1> QED BY <1>6, <1>7, <1>8 DEF InvBase

LEMMA FetchBase ==
  ASSUME InvBase, Fetch
  PROVE  InvBase'
<1>1. engine' = engine /\ output' = output /\ listener' = listener
  BY DEF Fetch
<1>2. spent' \in [commands : Nat, failures : Nat]
  BY DEF Fetch, InvBase
<1>3. download' \in DownloadType
  <2>1. download \in DownloadType
    BY DEF InvBase, Base
  <2>2. engine.playing.at \in Places
    BY NothingPlaying DEF InvBase, Base, TrackBase, Fetch, NoTrack
  <2>3. AtMost((download.avail \div Segment + 1) * Segment, Length[engine.playing.at]) \in Nat
    <3>1. download.avail \div Segment \in Nat
      <4>1. \A x \in Nat, y \in Nat \ {0} : x \div y \in Nat
        OBVIOUS
      <4> QED BY <2>1, <4>1, Sizes DEF DownloadType
    <3>2. (download.avail \div Segment + 1) * Segment \in Nat
      <4>1. \A x, y \in Nat : (x + 1) * y \in Nat
        OBVIOUS
      <4> QED BY <3>1, <4>1, Sizes
    <3>3. Length[engine.playing.at] \in Nat
      BY <2>2, Sizes
    <3> QED BY <3>2, <3>3 DEF AtMost
  <2> QED BY <2>1, <2>3 DEF Fetch, DownloadType
<1> QED BY <1>1, <1>2, <1>3 DEF InvBase, Base

LEMMA CorkedBase ==
  ASSUME NEW e, NEW d, NEW o, NEW b \in BOOLEAN, NEW n, n = [o EXCEPT !.corked = b], Base(e, d, o)
  PROVE  /\ Base(e, d, n)
         /\ BusyGood(e, o) => BusyGood(e, n)
<1>1. o \in OutputType /\ Held(Line(o), o.silent, Audio(o)) /\ OutputGood(e.sink, o)
  BY DEF Base, SoundBase
<1>2. /\ n \in OutputType /\ n.ring = o.ring /\ n.server = o.server /\ n.silent = o.silent
      /\ n.needsSilence = o.needsSilence /\ n.dry = o.dry /\ n.starved = o.starved
  BY <1>1 DEF OutputType
<1>3. Audio(n) = Audio(o) /\ Held(Line(n), n.silent, Audio(n))
  BY <1>1, <1>2, SameLine
<1>4. OutputGood(e.sink, n)
  BY <1>1, <1>2 DEF OutputGood
<1>5. SoundBase(e.playing, n)
  BY <1>2, <1>3 DEF Base, SoundBase
<1>6. Base(e, d, n)
  BY <1>2, <1>4, <1>5 DEF Base
<1>7. BusyGood(e, o) => BusyGood(e, n)
  BY <1>2 DEF BusyGood
<1> QED BY <1>6, <1>7

LEMMA BusyBase ==
  ASSUME NEW e, NEW d, NEW o, NEW b \in {"no", "decoding", "writing", "draining"},
         NEW f, f = [e EXCEPT !.busy = b], Base(e, d, o)
  PROVE  /\ Base(f, d, o)
         /\ f.state = e.state /\ f.busy = b /\ f.sink = e.sink /\ f.playing = e.playing
         /\ f.outgoing = e.outgoing /\ f.loading = e.loading
<1>1. e \in EngineType
  BY DEF Base
<1>2. /\ f \in EngineType
      /\ f.state = e.state /\ f.busy = b /\ f.sink = e.sink /\ f.playing = e.playing
      /\ f.outgoing = e.outgoing /\ f.loading = e.loading /\ f.pauseWhenReady = e.pauseWhenReady
  BY <1>1 DEF EngineType
<1>3. TrackBase(f)
  BY <1>2 DEF Base, TrackBase
<1>4. Base(f, d, o)
  BY <1>2, <1>3 DEF Base
<1> QED BY <1>2, <1>4

(* The silence goes in before the frames of a write.                       *)
LEMMA WritingBase ==
  ASSUME NEW e, NEW d, NEW o, Base(e, d, o), e.state = "Playing",
         e.playing.pending # <<>>, ~e.playing.done
  PROVE  Base(Writing(e), d, AddSilence(o)) /\ BusyGood(Writing(e), AddSilence(o))
<1> DEFINE n == AddSilence(o)
           f == Writing(e)
           a == Audio(o)
<1>1. /\ Base(f, d, o) /\ f.state = e.state /\ f.busy = "writing" /\ f.sink = e.sink
      /\ f.playing = e.playing
  BY BusyBase DEF Writing
<1>2. e.sink = TRUE /\ e \in EngineType /\ e.playing \in PlayingType /\ e.playing.written \in Nat
  BY DEF Base, TrackBase, EngineType, PlayingType
<1>3. /\ o \in OutputType /\ Held(Line(o), o.silent, a) /\ OutputGood(TRUE, o)
      /\ Len(a) <= e.playing.written
      /\ o.silent > 0 => Len(a) = e.playing.written
      /\ o.needsSilence => e.playing.written = 0
  BY <1>2 DEF Base, SoundBase
<1>4. /\ n \in OutputType /\ n.needsSilence = FALSE
      /\ Held(Line(n), n.silent, Audio(n)) /\ Audio(n) = a /\ OutputGood(TRUE, n)
      /\ n.silent > 0 => o.silent > 0 \/ o.needsSilence
  BY <1>3, SilencedOutput
<1>5. Len(a) \in Nat
  BY <1>3, AudioProperties
<1> HIDE DEF n, f, a
<1>6. n.silent > 0 => Len(a) = e.playing.written
  BY <1>2, <1>3, <1>4, <1>5
<1>7. SoundBase(f.playing, n)
  BY <1>1, <1>4, <1>6 DEF Base, SoundBase, a
<1>8. f \in EngineType /\ d \in DownloadType /\ TrackBase(f)
  BY <1>1 DEF Base
<1>9. Base(f, d, n)
  BY <1>1, <1>2, <1>4, <1>7, <1>8 DEF Base
<1>10. BusyGood(f, n)
  BY <1>1, <1>4 DEF BusyGood
<1> QED BY <1>9, <1>10 DEF f, n

LEMMA SourceFinishedBase ==
  ASSUME NEW e, Base(e, download, output), e.state = "Playing", e.playing.done,
         listener \in ListenerType, SourceFinished(e)
  PROVE  /\ Base(engine', download', output') /\ BusyGood(engine', output')
         /\ listener' \in ListenerType
<1>1. e \in EngineType /\ e.playing \in PlayingType /\ e.playing.at \in Places /\ e.playing.done = TRUE
  BY DEF Base, TrackBase, OnTrack, EngineType, PlayingType
<1>2. CASE engine' = [e EXCEPT !.busy = "no"] /\ UNCHANGED <<download, output, listener>>
  <2>1. /\ engine' = [e EXCEPT !.busy = "no"] /\ download' = download /\ output' = output
        /\ listener' = listener
    BY <1>2
  <2>2. Base(engine', download, output) /\ engine'.busy = "no"
    BY <2>1, BusyBase
  <2> QED BY <2>1, <2>2 DEF BusyGood
<1>3. CASE e.outgoing = NoOutgoing /\ TrackEnds(e)
  <2>1. listener' \in ListenerType
    <3>1. Length[e.playing.at] \in Nat
      BY <1>1, Sizes
    <3>2. \/ listener' = listener
          \/ listener' = [listener EXCEPT !.at = e.playing.at, !.position = Length[e.playing.at],
                                          !.lost = @ + 1]
      BY <1>3 DEF TrackEnds
    <3> QED BY <1>1, <3>1, <3>2, ListenerMoved
  <2>2. ASSUME e.playing.at < Len(Length),
               engine' = Crossed(HandedOver(e), Delay(output)),
               download' = Downloading(e.playing.at + 1, AtMost(Chunk, Length[e.playing.at + 1])),
               output' = output
        PROVE  Base(engine', download', output') /\ BusyGood(engine', output')
    <3>1. e.playing.at + 1 \in Places
      BY <1>1, <2>2, Sizes
    <3>2. AtMost(Chunk, Length[e.playing.at + 1]) \in Nat
      BY <3>1, Sizes DEF AtMost
    <3>3. download' \in DownloadType
      BY <2>2, <3>1, <3>2, DownloadingType
    <3>4. Base(HandedOver(e), download', output) /\ BusyGood(HandedOver(e), output)
      BY <2>2, <3>3, HandedOverBase
    <3> QED BY <2>2, <3>4, CrossedBase
  <2>3. ASSUME engine' = [e EXCEPT !.busy = "draining"],
               output' = [output EXCEPT !.corked = FALSE], download' = download
        PROVE  Base(engine', download', output') /\ BusyGood(engine', output')
    <3>1. /\ Base(engine', download, output)
          /\ engine'.state = e.state /\ engine'.busy = "draining" /\ engine'.playing = e.playing
          /\ engine'.outgoing = e.outgoing
      BY <2>3, BusyBase
    <3>2. Base(engine', download, output')
      BY <2>3, <3>1, CorkedBase
    <3>3. BusyGood(engine', output')
      BY <1>1, <1>3, <3>1 DEF BusyGood
    <3> QED BY <2>3, <3>2, <3>3
  <2> QED BY <1>3, <2>1, <2>2, <2>3 DEF TrackEnds
<1> QED BY <1>2, <1>3 DEF SourceFinished, WaitForNext

LEMMA PlayStepBase ==
  ASSUME InvBase, PlayStep
  PROVE  InvBase'
<1> DEFINE e == Crossed(engine, Delay(output))
<1>1. Base(engine, download, output) /\ engine.busy = "no" /\ engine.state = "Playing"
  BY DEF InvBase, PlayStep, Free
<1>2. Base(e, download, output) /\ e.state = "Playing" /\ e.busy = "no"
  BY <1>1, CrossedBase
<1>3. /\ spent' = spent
      /\ \/ e.playing.done /\ SourceFinished(e)
         \/ /\ ~e.playing.done /\ e.playing.pending = <<>> /\ engine' = [e EXCEPT !.busy = "decoding"]
            /\ download' = download /\ output' = output /\ listener' = listener
         \/ /\ ~e.playing.done /\ e.playing.pending # <<>> /\ engine' = Writing(e)
            /\ output' = AddSilence(output) /\ download' = download /\ listener' = listener
  BY DEF PlayStep
<1> HIDE DEF e
<1>4. listener \in ListenerType /\ spent \in [commands : Nat, failures : Nat]
  BY DEF InvBase
<1>5. CASE e.playing.done /\ SourceFinished(e)
  BY <1>2, <1>3, <1>4, <1>5, SourceFinishedBase DEF InvBase
<1>6. CASE /\ ~e.playing.done /\ e.playing.pending = <<>> /\ engine' = [e EXCEPT !.busy = "decoding"]
           /\ download' = download /\ output' = output /\ listener' = listener
  <2>1. /\ Base(engine', download, output)
        /\ engine'.state = e.state /\ engine'.busy = "decoding" /\ engine'.playing = e.playing
    BY <1>2, <1>6, BusyBase
  <2>2. BusyGood(engine', output')
    BY <1>2, <1>6, <2>1 DEF BusyGood
  <2> QED BY <1>3, <1>4, <1>6, <2>1, <2>2 DEF InvBase
<1>7. CASE /\ ~e.playing.done /\ e.playing.pending # <<>> /\ engine' = Writing(e)
           /\ output' = AddSilence(output) /\ download' = download /\ listener' = listener
  BY <1>2, <1>3, <1>4, <1>7, WritingBase DEF InvBase
<1> QED BY <1>3, <1>5, <1>6, <1>7

AfterDecoding(e, to, skip, frames) ==
  [e EXCEPT !.playing.next = to, !.playing.skip = skip, !.playing.pending = frames]

LEMMA DecodedBase ==
  ASSUME Base(engine, download, output), engine.state = "Playing",
         NEW to \in Nat, NEW skip \in Nat, NEW frames \in Seq(Frame), Real(frames)
  PROVE  /\ Base(AfterDecoding(engine, to, skip, frames), download, output)
         /\ AfterDecoding(engine, to, skip, frames).state = "Playing"
         /\ AfterDecoding(engine, to, skip, frames).busy = engine.busy
         /\ AfterDecoding(engine, to, skip, frames).playing.pending = frames
         /\ AfterDecoding(engine, to, skip, frames).playing.done = engine.playing.done
<1> DEFINE f == AfterDecoding(engine, to, skip, frames)
<1>1. engine \in EngineType
  BY DEF Base
<1>2. /\ f \in EngineType /\ f.state = engine.state /\ f.busy = engine.busy /\ f.sink = engine.sink
      /\ f.loading = engine.loading /\ f.outgoing = engine.outgoing
      /\ f.playing.written = engine.playing.written /\ f.playing.recent = engine.playing.recent
      /\ f.playing.pending = frames /\ f.playing.at = engine.playing.at
      /\ f.playing.done = engine.playing.done
  BY <1>1 DEF AfterDecoding, EngineType, PlayingType
<1> HIDE DEF f
<1>3. SoundBase(f.playing, output)
  BY <1>2 DEF Base, SoundBase
<1>4. TrackBase(f)
  BY <1>2 DEF Base, TrackBase, OnTrack
<1>5. Base(f, download, output)
  BY <1>2, <1>3, <1>4 DEF Base
<1> QED BY <1>2, <1>5 DEF f

LEMMA FinishedBase ==
  ASSUME Base(engine, download, output), engine.state = "Playing",
         NEW f, f = [engine EXCEPT !.playing.done = TRUE]
  PROVE  /\ Base(f, download, output) /\ f.state = "Playing" /\ f.playing.done
<1>1. engine \in EngineType
  BY DEF Base
<1>2. /\ f \in EngineType /\ f.state = engine.state /\ f.sink = engine.sink
      /\ f.loading = engine.loading /\ f.outgoing = engine.outgoing
      /\ f.playing.written = engine.playing.written /\ f.playing.recent = engine.playing.recent
      /\ f.playing.pending = engine.playing.pending /\ f.playing.at = engine.playing.at
      /\ f.playing.done = TRUE
  BY <1>1 DEF EngineType, PlayingType
<1>3. SoundBase(f.playing, output)
  BY <1>2 DEF Base, SoundBase
<1>4. TrackBase(f)
  BY <1>2 DEF Base, TrackBase, OnTrack
<1>5. Base(f, download, output)
  BY <1>2, <1>3, <1>4 DEF Base
<1> QED BY <1>2, <1>5

LEMMA DecodeBase ==
  ASSUME InvBase, Decode
  PROVE  InvBase'
<1> DEFINE p == engine.playing
           to == AtMost(p.next + Chunk, download.avail)
           kept == AtMost(p.next + p.skip, to)
           skip == Less(p.skip, to - p.next)
           frames == Frames(p.at, kept, to)
           decoded == [engine EXCEPT !.playing.next = to, !.playing.skip = skip,
                                     !.playing.pending = frames]
<1>1. /\ Base(engine, download, output) /\ engine.busy = "decoding" /\ engine.state = "Playing"
      /\ p.pending = <<>> /\ ~p.done
      /\ engine \in EngineType /\ p \in PlayingType /\ p.at \in Places
      /\ download \in DownloadType
  BY DEF InvBase, Decode, Base, BusyGood, TrackBase, OnTrack, EngineType
<1>2. listener \in ListenerType /\ spent \in [commands : Nat, failures : Nat] /\ spent' = spent
  BY DEF InvBase, Decode
<1>3. \/ /\ p.next < download.avail /\ engine' = decoded
         /\ kept = to /\ download' = download /\ output' = output /\ listener' = listener
      \/ /\ p.next < download.avail /\ kept < to /\ engine' = Writing(decoded)
         /\ output' = AddSilence(output) /\ download' = download /\ listener' = listener
      \/ SourceFinished([engine EXCEPT !.playing.done = TRUE])
      \/ StopPlaying /\ download' = download /\ listener' = listener
  BY DEF Decode
<1>4. ASSUME p.next < download.avail
      PROVE  /\ to \in Nat /\ kept \in Nat /\ skip \in Nat /\ frames \in Seq(Frame) /\ Real(frames)
             /\ Len(frames) = Less(to, kept)
  <2>1. p.next \in Nat /\ p.skip \in Nat /\ download.avail \in Nat /\ Chunk \in Nat
    BY <1>1, Sizes DEF PlayingType, DownloadType
  <2>2. \A n, c, v, s \in Nat :
          n < v => /\ AtMost(n + c, v) \in Nat /\ AtMost(n + c, v) - n \in Nat
                   /\ AtMost(n + s, AtMost(n + c, v)) \in Nat
    BY DEF AtMost
  <2>3. to \in Nat /\ to - p.next \in Nat /\ kept \in Nat
    BY <1>4, <2>1, <2>2
  <2> HIDE DEF to, kept
  <2>4. skip \in Nat
    BY <2>1, <2>3 DEF Less
  <2> QED BY <1>1, <2>3, <2>4, RealFrames
<1> HIDE DEF to, kept, skip, frames
<1>5. ASSUME p.next < download.avail
      PROVE  /\ Base(decoded, download, output) /\ decoded.state = "Playing"
             /\ decoded.busy = engine.busy /\ decoded.playing.pending = frames
             /\ decoded.playing.done = p.done
  <2>1. decoded = AfterDecoding(engine, to, skip, frames)
    BY DEF AfterDecoding
  <2> HIDE DEF decoded
  <2> QED BY <1>1, <1>4, <1>5, <2>1, DecodedBase
<1> HIDE DEF decoded
<1>6. CASE /\ p.next < download.avail /\ engine' = decoded
           /\ kept = to /\ download' = download /\ output' = output /\ listener' = listener
  <2>1. frames = <<>>
    <3>1. Len(frames) = 0
      BY <1>4, <1>6 DEF Less
    <3> QED BY <1>4, <1>6, <3>1, EmptySeq
  <2>2. BusyGood(decoded, output)
    BY <1>1, <1>5, <1>6, <2>1 DEF BusyGood
  <2> QED BY <1>2, <1>5, <1>6, <2>2 DEF InvBase
<1>7. CASE /\ p.next < download.avail /\ kept < to /\ engine' = Writing(decoded)
           /\ output' = AddSilence(output) /\ download' = download /\ listener' = listener
  <2>1. frames # <<>>
    <3>1. Len(frames) # 0
      BY <1>4, <1>7 DEF Less
    <3> QED BY <1>4, <1>7, <3>1, EmptySeq
  <2>2. Base(Writing(decoded), download, AddSilence(output)) /\ BusyGood(Writing(decoded), AddSilence(output))
    BY <1>1, <1>5, <1>7, <2>1, WritingBase
  <2> QED BY <1>2, <1>7, <2>2 DEF InvBase
<1>8. CASE SourceFinished([engine EXCEPT !.playing.done = TRUE])
  <2> DEFINE f == [engine EXCEPT !.playing.done = TRUE]
  <2>1. Base(f, download, output) /\ f.state = "Playing" /\ f.playing.done
    BY <1>1, FinishedBase
  <2>2. SourceFinished(f)
    BY <1>8
  <2> HIDE DEF f
  <2> QED BY <1>2, <2>1, <2>2, SourceFinishedBase DEF InvBase
<1>9. CASE StopPlaying /\ download' = download /\ listener' = listener
  BY <1>1, <1>2, <1>9, StoppedBase DEF InvBase, StopPlaying
<1> QED BY <1>3, <1>6, <1>7, <1>8, <1>9

LEMMA ToWriteProperties ==
  ASSUME NEW e \in EngineType, Real(e.playing.pending)
  PROVE  /\ ToWrite(e) \in Seq(Frame) /\ Real(ToWrite(e))
         /\ ToWrite(e) = SubSeq(e.playing.pending, 1, Len(ToWrite(e)))
         /\ Len(ToWrite(e)) \in 0..Len(e.playing.pending) /\ Len(ToWrite(e)) <= Period
         /\ e.outgoing # NoOutgoing /\ e.playing.written < e.playing.leadIn
              => e.playing.written + Len(ToWrite(e)) <= e.playing.leadIn
<1> DEFINE p == e.playing
           most == IF e.outgoing # NoOutgoing /\ p.written < p.leadIn
                     THEN p.leadIn - p.written ELSE Period
           n == AtMost(AtMost(Period, most), Len(p.pending))
<1>1. p.pending \in Seq(Frame) /\ p.written \in Nat /\ p.leadIn \in Nat /\ Period \in Nat
  BY Sizes DEF EngineType, PlayingType
<1>2. Len(p.pending) \in Nat
  BY <1>1, LenProperties
<1>3. ToWrite(e) = SubSeq(p.pending, 1, n)
  BY DEF ToWrite
<1>4. most \in Nat
  BY <1>1
<1>5. /\ n \in 0..Len(p.pending) /\ n <= Period /\ n <= most
  <2> HIDE DEF most
  <2>1. \A x, y, z \in Nat : /\ AtMost(AtMost(x, y), z) \in 0..z /\ AtMost(AtMost(x, y), z) <= x
                             /\ AtMost(AtMost(x, y), z) <= y
    BY DEF AtMost
  <2> QED BY <1>1, <1>2, <1>4, <2>1
<1>6. e.outgoing # NoOutgoing /\ p.written < p.leadIn => p.written + most <= p.leadIn
  BY <1>1
<1> HIDE DEF most, n
<1>7. /\ SubSeq(p.pending, 0 + 1, n) \in Seq(Frame) /\ Len(SubSeq(p.pending, 0 + 1, n)) = n - 0
      /\ Real(SubSeq(p.pending, 0 + 1, n))
  <2>1. 0 \in 0..Len(p.pending)
    BY <1>2
  <2> QED BY <1>1, <1>5, <2>1, RealPart
<1>8. 0 + 1 = 1 /\ n - 0 = n /\ n \in Nat
  BY <1>2, <1>5
<1>9. ToWrite(e) \in Seq(Frame) /\ Real(ToWrite(e)) /\ Len(ToWrite(e)) = n
  BY <1>3, <1>7, <1>8
<1>10. e.outgoing # NoOutgoing /\ p.written < p.leadIn => p.written + n <= p.leadIn
  BY <1>1, <1>4, <1>5, <1>6, <1>8
<1> QED BY <1>3, <1>5, <1>9, <1>10

LEMMA WriteBase ==
  ASSUME InvBase, Write
  PROVE  InvBase'
<1> DEFINE p == engine.playing
           f == ToWrite(engine)
           n == Len(f)
           rest == SubSeq(p.pending, n + 1, Len(p.pending))
           a == Audio(output)
<1>1. /\ Base(engine, download, output) /\ engine.busy = "writing" /\ engine.state = "Playing"
      /\ ~output.needsSilence /\ engine \in EngineType /\ p \in PlayingType /\ engine.sink
      /\ p.pending \in Seq(Frame) /\ p.recent \in Seq(Frame) /\ p.written \in Nat
      /\ Real(p.pending) /\ Real(p.recent) /\ Kept(p.recent, a) /\ Len(a) <= p.written
      /\ output.silent > 0 => Len(a) = p.written
      /\ output \in OutputType /\ Held(Line(output), output.silent, a)
      /\ OutputGood(engine.sink, output)
  BY DEF InvBase, Write, Base, SoundBase, BusyGood, TrackBase, EngineType, PlayingType
<1>2. /\ f \in Seq(Frame) /\ Real(f) /\ n \in 0..Len(p.pending)
  BY <1>1, ToWriteProperties
<1>3. n \in Nat /\ Len(p.pending) \in Nat /\ a \in Seq(Frame) /\ Len(a) \in Nat
  BY <1>1, <1>2, LenProperties, AudioProperties
<1>4. rest \in Seq(Frame) /\ Real(rest)
  <2>1. Len(p.pending) \in n..Len(p.pending)
    BY <1>2, <1>3
  <2> HIDE DEF n
  <2> QED BY <1>1, <1>2, <2>1, RealPart
<1>5. /\ Room(output, n) /\ output' = [output EXCEPT !.ring = output.ring \o f]
      /\ engine' = [engine EXCEPT !.busy = "no", !.playing.pending = rest,
                                  !.playing.recent = Recent(p.recent, f),
                                  !.playing.written = p.written + n]
      /\ download' = download /\ listener' = listener /\ spent' = spent
  BY DEF Write
<1>6. OutputGood(TRUE, output)
  <2>1. engine.sink = TRUE
    BY <1>1 DEF EngineType
  <2> QED BY <1>1, <2>1
<1> HIDE DEF f, rest
<1>7. /\ output' \in OutputType
      /\ Held(Line(output'), output'.silent, Audio(output')) /\ Audio(output') = a \o f
      /\ Len(a) + n <= KeptFrames
      /\ OutputGood(TRUE, output')
      /\ output'.silent = output.silent /\ output'.needsSilence = FALSE
  BY <1>1, <1>2, <1>5, <1>6, WrittenOutput
<1>8. /\ Recent(p.recent, f) \in Seq(Frame) /\ Len(Recent(p.recent, f)) <= 2 * KeptFrames
      /\ Kept(Recent(p.recent, f), a \o f) /\ Real(Recent(p.recent, f))
  BY <1>1, <1>2, <1>3, <1>7, RecentKeeps, RealRecent
<1>9. Len(a \o f) = Len(a) + n
  BY <1>2, <1>3, JoinedFrames
<1>10. p.written + n \in Nat
  BY <1>1, <1>3
<1> DEFINE r == Recent(p.recent, f)
           w == p.written + n
<1> HIDE DEF r, w
<1>11. /\ engine' \in EngineType /\ engine'.state = engine.state /\ engine'.busy = "no"
       /\ engine'.sink = engine.sink /\ engine'.loading = engine.loading
       /\ engine'.outgoing = engine.outgoing
       /\ engine'.playing.pending = rest /\ engine'.playing.recent = r
       /\ engine'.playing.written = w /\ engine'.playing.at = p.at
  <2>1. engine' = [engine EXCEPT !.busy = "no", !.playing.pending = rest,
                                 !.playing.recent = r, !.playing.written = w]
    BY <1>5 DEF r, w
  <2>2. r \in Seq(Frame) /\ w \in Nat
    BY <1>8, <1>10 DEF r, w
  <2> QED BY <1>1, <1>4, <2>1, <2>2 DEF EngineType, PlayingType
<1>12. SoundBase(engine'.playing, output')
  <2>1. Len(a \o f) <= w /\ (output.silent > 0 => Len(a \o f) = w)
    <3>1. \A x, y, z \in Nat : x <= y => x + z <= y + z
      OBVIOUS
    <3>2. Len(a) + n <= p.written + n
      BY <1>1, <1>3, <3>1
    <3> QED BY <1>1, <1>9, <3>2 DEF w
  <2> QED BY <1>4, <1>7, <1>8, <1>11, <2>1 DEF SoundBase, r
<1>13. TrackBase(engine')
  BY <1>1, <1>11 DEF Base, TrackBase, OnTrack
<1>14. Base(engine', download, output')
  BY <1>1, <1>7, <1>11, <1>12, <1>13 DEF Base
<1>15. BusyGood(engine', output')
  BY <1>11 DEF BusyGood
<1> QED BY <1>5, <1>14, <1>15 DEF InvBase

LEMMA QueuedType ==
  ASSUME Base(engine, download, output)
  PROVE  Queued \subseteq Nat
<1>1. output \in OutputType /\ Held(Line(output), output.silent, Audio(output))
  BY DEF Base, SoundBase
<1>2. Delay(output) \in Nat /\ Len(output.ring) \in Nat
  BY <1>1, AudioProperties
<1> QED BY <1>2 DEF Queued

LEMMA PositionType ==
  ASSUME NEW e \in EngineType, NEW queued \in Nat
  PROVE  Position(e, queued) \in Nat /\ Heard(e, queued) \in Nat
<1>1. \A m, n \in Nat : Less(m, n) \in Nat
  BY DEF Less
<1>2. /\ e.playing.written \in Nat /\ e.playing.leadIn \in Nat /\ e.playing.base \in Nat
      /\ e.outgoing.end \in Nat
  BY DEF EngineType, PlayingType
<1>3. Heard(e, queued) \in Nat
  BY <1>1, <1>2 DEF Heard
<1>4. /\ Less(e.outgoing.end, Less(e.playing.leadIn, Heard(e, queued))) \in Nat
      /\ Less(Heard(e, queued), e.playing.leadIn) \in Nat
  BY <1>1, <1>2, <1>3
<1> QED BY <1>2, <1>3, <1>4 DEF Position

LEMMA AsideListener ==
  ASSUME listener \in ListenerType, NEW e \in EngineType, Aside(e), e.playing.at \in Places,
         e.outgoing # NoOutgoing => e.outgoing.at \in Places
  PROVE  listener' \in ListenerType
<1>1. Position(e, 0) \in Nat
  BY PositionType
<1>2. Resumes(e).at \in Places /\ Resumes(e).position \in Nat
  BY <1>1 DEF Resumes
<1>3. Jumped(Resumes(e).at, Resumes(e).position) \in ListenerType
  BY <1>2, ListenerMoved
<1> QED BY <1>3 DEF Aside

LEMMA OutputLostBase ==
  ASSUME InvBase, OutputLost
  PROVE  InvBase'
<1>1. Base(engine, download, output) /\ engine.state \in OnTrack /\ listener \in ListenerType
  BY DEF InvBase, OutputLost, BusyGood, OnTrack
<1>2. PICK queued \in Queued : engine' = SetAside(engine, queued) /\ Aside(SetAside(engine, queued))
  BY DEF OutputLost
<1>3. queued \in Nat
  BY <1>1, <1>2, QueuedType
<1> DEFINE f == SetAside(engine, queued)
<1>4. /\ f \in EngineType /\ f.state = "Paused" /\ f.busy = "no" /\ f.sink = FALSE
      /\ f.playing.written = 0 /\ Real(f.playing.pending) /\ f.playing.recent = <<>>
      /\ f.playing.at \in Places /\ (f.outgoing # NoOutgoing => f.outgoing.at \in Places)
      /\ TrackBase(f)
  BY <1>1, <1>3, AsideBase
<1> HIDE DEF f
<1>5. download \in DownloadType /\ 0 <= 2 * KeptFrames
  BY <1>1, Sizes DEF Base
<1>6. Base(f, download, Closed)
  BY <1>4, <1>5, RealEmpty, ClosedOutput, FreshBase
<1>7. BusyGood(f, Closed)
  BY <1>4 DEF BusyGood
<1>8. listener' \in ListenerType
  BY <1>1, <1>2, <1>4, AsideListener DEF f
<1>9. engine' = f /\ output' = Closed /\ download' = download /\ spent' = spent
  BY <1>2 DEF OutputLost, f
<1> QED BY <1>6, <1>7, <1>8, <1>9 DEF InvBase

LEMMA LoadAfterSink ==
  ASSUME NEW e \in EngineType, NEW i
  PROVE  LoadAfter(e, i).sink \in {FALSE, e.sink} /\ LoadAfter(e, i).sink \in BOOLEAN
<1>1. e.sink \in BOOLEAN /\ Stopped(e).sink = FALSE
  BY NothingPlaying DEF EngineType, Stopped
<1>2. CASE i < Len(Length)
  <2>1. LoadAfter(e, i) = [e EXCEPT !.state = "Loading", !.busy = "no", !.loading = i + 1,
                                    !.playing = NoTrack, !.outgoing = NoOutgoing]
    BY <1>2 DEF LoadAfter
  <2>2. LoadAfter(e, i).sink = e.sink
    BY <2>1 DEF EngineType
  <2> QED BY <1>1, <2>2
<1>3. CASE ~(i < Len(Length))
  BY <1>1, <1>3 DEF LoadAfter
<1> QED BY <1>2, <1>3

LEMMA DrainedBase ==
  ASSUME InvBase, Drained
  PROVE  InvBase'
<1>1. /\ Base(engine, download, output) /\ engine.state \in OnTrack /\ engine \in EngineType
      /\ output \in OutputType /\ Held(Line(output), output.silent, Audio(output))
      /\ OutputGood(engine.sink, output) /\ engine.playing.at \in Places
      /\ download \in DownloadType
  BY DEF InvBase, Drained, BusyGood, OnTrack, Base, SoundBase, TrackBase
<1>2. /\ download' = download /\ listener' = listener /\ spent' = spent
      /\ \/ StopPlaying
         \/ /\ output.ring = <<>> /\ output.server = <<>>
            /\ engine' = LoadAfter(engine, engine.playing.at)
            /\ output' = IF engine'.sink THEN [output EXCEPT !.needsSilence = TRUE] ELSE Closed
  BY DEF Drained
<1>3. CASE StopPlaying
  BY <1>1, <1>2, <1>3, StoppedBase DEF InvBase, StopPlaying
<1>4. CASE /\ output.ring = <<>> /\ output.server = <<>>
           /\ engine' = LoadAfter(engine, engine.playing.at)
           /\ output' = IF engine'.sink THEN [output EXCEPT !.needsSilence = TRUE] ELSE Closed
  <2>1. engine'.sink \in BOOLEAN
    BY <1>1, <1>4, LoadAfterSink
  <2>2. CASE engine'.sink
    <3>1. /\ output' \in OutputType /\ output'.ring = <<>> /\ output'.server = <<>>
          /\ output'.silent = output.silent /\ output'.needsSilence = TRUE
      BY <1>1, <1>4, <2>2 DEF OutputType
    <3>2. Audio(output') = Audio(output) /\ Held(Line(output'), output'.silent, Audio(output'))
      BY <1>1, <1>4, <3>1, SameLine
    <3>3. Line(output') = <<>>
      BY <3>1, LineAlone, EmptySeq DEF Line
    <3>4. Audio(output') = <<>>
      BY <3>2, <3>3, HeldNothing
    <3>5. OutputGood(engine'.sink, output')
      <4>1. 0 <= Capacity /\ 0 <= Target
        BY Sizes
      <4> QED BY <2>2, <3>1, <4>1, RealEmpty DEF OutputGood
    <3> QED BY <1>1, <1>2, <1>4, <3>1, <3>2, <3>4, <3>5, LoadAfterBase DEF InvBase
  <2>3. CASE engine'.sink = FALSE
    <3>1. output' = Closed
      BY <1>4, <2>3
    <3>2. /\ output' \in OutputType /\ Held(Line(output'), output'.silent, Audio(output'))
          /\ Audio(output') = <<>> /\ OutputGood(engine'.sink, output')
      BY <2>3, <3>1, ClosedOutput
    <3> QED BY <1>1, <1>2, <1>4, <3>2, LoadAfterBase DEF InvBase
  <2> QED BY <2>1, <2>2, <2>3
<1> QED BY <1>2, <1>3, <1>4

LEMMA LoadedBase ==
  ASSUME InvBase, Loaded
  PROVE  InvBase'
<1> DEFINE p == Started(engine.loading)
<1>1. /\ Base(engine, download, output) /\ engine.state = "Loading" /\ engine \in EngineType
      /\ engine.busy = "no" /\ engine.loading \in Places /\ engine.loading \in Nat
      /\ engine.playing = NoTrack /\ engine.outgoing = NoOutgoing
      /\ output \in OutputType /\ Held(Line(output), output.silent, Audio(output))
      /\ Len(Audio(output)) <= engine.playing.written
      /\ OutputGood(engine.sink, output) /\ engine.sink \in BOOLEAN
  BY DEF InvBase, Loaded, BusyGood, OnTrack, Base, SoundBase, TrackBase, EngineType
<1>2. /\ engine' = [engine EXCEPT !.state = "Playing", !.playing = p, !.loading = 0, !.sink = TRUE]
      /\ output' = IF engine.sink THEN output ELSE Opened
      /\ download' = Downloading(engine.loading, 0) /\ listener' = listener /\ spent' = spent
  BY DEF Loaded
<1>3. /\ p \in PlayingType /\ p.written = 0 /\ p.pending = <<>> /\ p.recent = <<>>
      /\ p.at = engine.loading
  BY <1>1, NothingPlaying DEF Started, NoTrack, PlayingType
<1> HIDE DEF p
<1>4. /\ engine' \in EngineType /\ engine'.state = "Playing" /\ engine'.busy = "no"
      /\ engine'.playing = p /\ engine'.sink = TRUE /\ engine'.outgoing = NoOutgoing
  BY <1>1, <1>2, <1>3 DEF EngineType, States
<1>5. TrackBase(engine')
  BY <1>1, <1>3, <1>4 DEF TrackBase, OnTrack
<1>6. /\ output' \in OutputType /\ Held(Line(output'), output'.silent, Audio(output'))
      /\ Audio(output') = <<>> /\ OutputGood(TRUE, output')
  <2>1. CASE engine.sink = TRUE
    <3>1. Len(Audio(output)) = 0 /\ Audio(output) \in Seq(Frame)
      <4>1. Len(Audio(output)) \in Nat /\ Audio(output) \in Seq(Frame)
        BY <1>1, AudioProperties
      <4> QED BY <4>1, <1>1, NothingPlaying
    <3> QED BY <1>1, <1>2, <2>1, <3>1, EmptySeq
  <2>2. CASE engine.sink = FALSE
    BY <1>2, <2>2, OpenedOutput
  <2> QED BY <1>1, <2>1, <2>2
<1>7. download' \in DownloadType /\ 0 <= 2 * KeptFrames
  <2>1. Downloading(engine.loading, 0) \in DownloadType
    BY <1>1, DownloadingType
  <2> QED BY <1>2, <2>1, Sizes
<1>8. Base(engine', download', output')
  BY <1>3, <1>4, <1>5, <1>6, <1>7, RealEmpty, FreshBase
<1>9. BusyGood(engine', output')
  BY <1>4 DEF BusyGood
<1> QED BY <1>2, <1>8, <1>9 DEF InvBase

LEMMA AskedSpent ==
  ASSUME InvBase, Asked
  PROVE  spent' \in [commands : Nat, failures : Nat] /\ engine.busy = "no"
BY DEF InvBase, Asked, Free

(* A track that is paused or goes on, with its frames as they are.         *)
LEMMA GoesOnBase ==
  ASSUME InvBase, engine.busy = "no", engine.state \in OnTrack,
         NEW state \in {"Playing", "Paused"}, NEW sink \in BOOLEAN, NEW paused \in BOOLEAN,
         state = "Playing" => sink,
         NEW o \in OutputType, NEW f,
         f = [engine EXCEPT !.state = state, !.sink = sink, !.playing.sinkPaused = paused],
         \/ engine.sink = sink /\ o = output
         \/ engine.sink = FALSE /\ sink = TRUE /\ o = Opened
  PROVE  Base(f, download, o) /\ BusyGood(f, o)
<1>1. engine \in EngineType /\ Base(engine, download, output)
  BY DEF InvBase, Base
<1>2. /\ f \in EngineType /\ f.state = state /\ f.busy = "no" /\ f.sink = sink
      /\ f.outgoing = engine.outgoing /\ f.playing.written = engine.playing.written
      /\ f.playing.recent = engine.playing.recent /\ f.playing.pending = engine.playing.pending
      /\ f.playing.at = engine.playing.at
  BY <1>1 DEF EngineType, PlayingType, States
<1>3. TrackBase(f)
  BY <1>1, <1>2 DEF Base, TrackBase, OnTrack
<1>4. BusyGood(f, o)
  BY <1>2 DEF BusyGood
<1>5. CASE engine.sink = sink /\ o = output
  <2>1. SoundBase(f.playing, o)
    BY <1>1, <1>2, <1>5 DEF Base, SoundBase
  <2> QED BY <1>1, <1>2, <1>3, <1>4, <1>5, <2>1 DEF Base
<1>6. CASE engine.sink = FALSE /\ sink = TRUE /\ o = Opened
  <2>1. /\ f.playing.written = 0 /\ Real(f.playing.pending) /\ Real(f.playing.recent)
        /\ Len(f.playing.recent) <= 2 * KeptFrames /\ download \in DownloadType
    BY <1>1, <1>2, <1>6 DEF Base, SoundBase
  <2> QED BY <1>2, <1>3, <1>4, <1>6, <2>1, OpenedOutput, FreshBase
<1> QED BY <1>5, <1>6

LEMMA PauseBase ==
  ASSUME InvBase, Pause
  PROVE  InvBase'
<1>1. spent' \in [commands : Nat, failures : Nat] /\ engine.busy = "no"
  BY AskedSpent DEF Pause
<1>2. /\ engine.state = "Playing" /\ engine \in EngineType /\ engine.sink \in BOOLEAN
      /\ engine.sink /\ output \in OutputType /\ download \in DownloadType
      /\ listener \in ListenerType
  BY DEF Pause, InvBase, Base, TrackBase, EngineType
<1>3. /\ download' = download /\ listener' = listener
      /\ \/ StopPlaying
         \/ /\ engine' = [engine EXCEPT !.state = "Paused", !.playing.sinkPaused = TRUE]
            /\ output' = [output EXCEPT !.corked = TRUE]
  BY DEF Pause, Cork
<1>4. CASE StopPlaying
  BY <1>1, <1>2, <1>3, <1>4, StoppedBase DEF InvBase, StopPlaying
<1>5. CASE /\ engine' = [engine EXCEPT !.state = "Paused", !.playing.sinkPaused = TRUE]
           /\ output' = [output EXCEPT !.corked = TRUE]
  <2>1. engine' = [engine EXCEPT !.state = "Paused", !.sink = engine.sink, !.playing.sinkPaused = TRUE]
    BY <1>2, <1>5 DEF EngineType, PlayingType
  <2>2. Base(engine', download, output) /\ BusyGood(engine', output)
    BY <1>1, <1>2, <2>1, GoesOnBase DEF OnTrack
  <2>3. Base(engine', download, output') /\ BusyGood(engine', output')
    BY <1>5, <2>2, CorkedBase
  <2> QED BY <1>1, <1>2, <1>3, <2>3 DEF InvBase
<1> QED BY <1>3, <1>4, <1>5

LEMMA ResumeBase ==
  ASSUME InvBase, Resume
  PROVE  InvBase'
<1>1. /\ engine.state = "Paused" /\ engine.busy = "no" /\ engine \in EngineType
      /\ engine.sink \in BOOLEAN /\ output \in OutputType /\ download \in DownloadType
      /\ listener \in ListenerType /\ spent \in [commands : Nat, failures : Nat]
  BY DEF Resume, Free, InvBase, Base, EngineType
<1>2. /\ download' = download /\ listener' = listener /\ spent' = spent
      /\ \/ StopPlaying
         \/ /\ engine' = [engine EXCEPT !.state = "Playing", !.sink = TRUE,
                                        !.playing.sinkPaused = FALSE]
            /\ output' = IF ~engine.sink THEN Opened
                         ELSE IF engine.playing.sinkPaused
                           THEN [output EXCEPT !.corked = FALSE] ELSE output
  BY DEF Resume
<1>3. CASE StopPlaying
  BY <1>1, <1>2, <1>3, StoppedBase DEF InvBase, StopPlaying
<1>4. CASE /\ engine' = [engine EXCEPT !.state = "Playing", !.sink = TRUE,
                                       !.playing.sinkPaused = FALSE]
           /\ output' = IF ~engine.sink THEN Opened
                        ELSE IF engine.playing.sinkPaused
                          THEN [output EXCEPT !.corked = FALSE] ELSE output
  <2>1. CASE engine.sink = FALSE
    <3>1. output' = Opened
      BY <1>4, <2>1
    <3>2. Base(engine', download, output') /\ BusyGood(engine', output')
      BY <1>1, <1>4, <2>1, <3>1, OpenedOutput, GoesOnBase DEF OnTrack
    <3> QED BY <1>1, <1>2, <3>2 DEF InvBase
  <2>2. CASE engine.sink = TRUE
    <3>1. Base(engine', download, output) /\ BusyGood(engine', output)
      BY <1>1, <1>4, <2>2, GoesOnBase DEF OnTrack
    <3>2. Base(engine', download, output') /\ BusyGood(engine', output')
      BY <1>4, <2>2, <3>1, CorkedBase
    <3> QED BY <1>1, <1>2, <3>2 DEF InvBase
  <2> QED BY <1>1, <2>1, <2>2
<1> QED BY <1>2, <1>3, <1>4

LEMMA HandOverOutputBase ==
  ASSUME InvBase, HandOverOutput
  PROVE  InvBase'
<1>1. spent' \in [commands : Nat, failures : Nat] /\ engine.busy = "no"
  BY AskedSpent DEF HandOverOutput
<1>2. /\ Base(engine, download, output) /\ engine \in EngineType /\ engine.state \in OnTrack
      /\ download \in DownloadType /\ listener \in ListenerType /\ download' = download
  BY DEF InvBase, Base, HandOverOutput, OnTrack
<1>3. CASE StopPlaying /\ listener' = listener
  BY <1>1, <1>2, <1>3, StoppedBase DEF InvBase, StopPlaying
<1>4. ASSUME NEW queued \in Queued, NEW reopens \in BOOLEAN,
             engine' = [SetAside(engine, queued) EXCEPT !.sink = reopens,
                          !.state = IF reopens THEN "Playing" ELSE "Paused"],
             output' = IF reopens THEN Opened ELSE Closed,
             Aside(SetAside(engine, queued))
      PROVE  InvBase'
  <2> DEFINE f == SetAside(engine, queued)
  <2>1. queued \in Nat
    BY <1>2, QueuedType
  <2>2. /\ f \in EngineType /\ f.state = "Paused" /\ f.busy = "no" /\ f.sink = FALSE
        /\ f.playing.written = 0 /\ Real(f.playing.pending) /\ f.playing.recent = <<>>
        /\ f.playing.at \in Places /\ (f.outgoing # NoOutgoing => f.outgoing.at \in Places)
    BY <1>2, <2>1, AsideBase
  <2>3. listener' \in ListenerType
    BY <1>2, <1>4, <2>2, AsideListener
  <2> HIDE DEF f
  <2>4. /\ engine' \in EngineType /\ engine'.state = (IF reopens THEN "Playing" ELSE "Paused")
        /\ engine'.busy = "no" /\ engine'.sink = reopens /\ engine'.playing = f.playing
        /\ engine'.outgoing = f.outgoing
    <3>1. engine' = [f EXCEPT !.sink = reopens, !.state = IF reopens THEN "Playing" ELSE "Paused"]
      BY <1>4 DEF f
    <3> QED BY <2>2, <3>1 DEF EngineType, States
  <2>5. TrackBase(engine')
    BY <2>2, <2>4 DEF TrackBase, OnTrack
  <2>6. /\ output' \in OutputType /\ Held(Line(output'), output'.silent, Audio(output'))
        /\ Audio(output') = <<>> /\ OutputGood(engine'.sink, output')
    <3>1. CASE reopens = TRUE
      BY <1>4, <2>4, <3>1, OpenedOutput
    <3>2. CASE reopens = FALSE
      BY <1>4, <2>4, <3>2, ClosedOutput
    <3> QED BY <3>1, <3>2
  <2>7. 0 <= 2 * KeptFrames
    BY Sizes
  <2>8. Base(engine', download, output')
    BY <1>2, <2>2, <2>4, <2>5, <2>6, <2>7, RealEmpty, FreshBase
  <2>9. BusyGood(engine', output')
    BY <2>4 DEF BusyGood
  <2> QED BY <1>1, <1>2, <2>3, <2>8, <2>9 DEF InvBase
<1>5. CASE \E queued \in Queued, switch \in BOOLEAN :
             LET aside == SetAside(engine, queued)
                 reopens == switch /\ engine.state = "Playing"
             IN /\ engine' = [aside EXCEPT !.sink = reopens,
                                !.state = IF reopens THEN "Playing" ELSE "Paused"]
                /\ output' = IF reopens THEN Opened ELSE Closed
                /\ Aside(aside)
  BY <1>4, <1>5
<1> QED BY <1>3, <1>5 DEF HandOverOutput

(* A seek: what the sink holds is thrown away.                             *)
LEMMA FlushedSink ==
  ASSUME Base(engine, download, output), FlushSink
  PROVE  /\ output' \in OutputType /\ Held(Line(output'), output'.silent, Audio(output'))
         /\ Audio(output') = <<>> /\ OutputGood(engine.sink, output')
<1>1. /\ output \in OutputType /\ Held(Line(output), output.silent, Audio(output))
      /\ OutputGood(engine.sink, output) /\ engine.sink \in BOOLEAN
  BY DEF Base, SoundBase, EngineType
<1>2. CASE engine.sink = TRUE
  BY <1>1, <1>2, FlushedOutput DEF FlushSink
<1>3. CASE engine.sink = FALSE
  <2>1. output' = output
    BY <1>3 DEF FlushSink
  <2>2. Line(output) = <<>>
    BY <1>1, <1>3, LineAlone, EmptySeq DEF OutputGood, Line
  <2>3. Audio(output) = <<>>
    BY <1>1, <2>2, HeldNothing
  <2> QED BY <1>1, <2>1, <2>3
<1> QED BY <1>1, <1>2, <1>3

LEMMA RebasedType ==
  ASSUME NEW p \in PlayingType, NEW position \in Nat
  PROVE  /\ Rebased(p, position) \in PlayingType
         /\ Rebased(p, position).written = 0 /\ Rebased(p, position).pending = <<>>
         /\ Rebased(p, position).recent = <<>> /\ Rebased(p, position).at = p.at
         /\ Rebased(p, position).skip = p.skip
BY RealEmpty DEF Rebased, PlayingType

LEMMA SoughtBase ==
  ASSUME InvBase, FlushSink, NEW e \in EngineType, NEW d \in DownloadType,
         e.busy = "no", e.sink = engine.sink, e.state \in OnTrack,
         \/ e.state = engine.state /\ e.pauseWhenReady = engine.pauseWhenReady
         \/ e.state = "Seeking" /\ (engine.sink \/ e.pauseWhenReady),
         e.playing.written = 0, e.playing.pending = <<>>, e.playing.recent = <<>>,
         e.playing.at \in Places, e.outgoing # NoOutgoing => e.outgoing.at \in Places
  PROVE  Base(e, d, output') /\ BusyGood(e, output')
<1>1. /\ output' \in OutputType /\ Held(Line(output'), output'.silent, Audio(output'))
      /\ Audio(output') = <<>> /\ OutputGood(e.sink, output')
  BY FlushedSink DEF InvBase
<1>2. /\ engine.state = "Playing" => engine.sink
      /\ engine.state = "Seeking" => engine.sink \/ engine.pauseWhenReady
  BY DEF InvBase, Base, TrackBase
<1>3. TrackBase(e)
  BY <1>2 DEF TrackBase, OnTrack
<1>4. 0 <= 2 * KeptFrames
  BY Sizes
<1>5. Base(e, d, output')
  BY <1>1, <1>3, <1>4, RealEmpty, FreshBase
<1>6. BusyGood(e, output')
  BY DEF BusyGood
<1> QED BY <1>5, <1>6

SeekGuard ==
  /\ InvBase /\ engine.busy = "no" /\ engine.state \in OnTrack
  /\ spent' \in [commands : Nat, failures : Nat]

LEMMA SeekFacts ==
  ASSUME SeekGuard
  PROVE  /\ Base(engine, download, output) /\ engine \in EngineType
         /\ engine.playing \in PlayingType /\ engine.playing.at \in Places
         /\ engine.outgoing # NoOutgoing => engine.outgoing.at \in Places
         /\ engine.sink \in BOOLEAN /\ listener \in ListenerType /\ download \in DownloadType
BY DEF SeekGuard, InvBase, Base, TrackBase, EngineType

LEMMA SeekInPlaceBase ==
  ASSUME SeekGuard, NEW target \in Nat, SeekInPlace(target)
  PROVE  InvBase'
<1> DEFINE p == [Rebased(engine.playing, target) EXCEPT !.next = target, !.skip = 0]
<1>1. p \in PlayingType /\ p.written = 0 /\ p.pending = <<>> /\ p.recent = <<>>
      /\ p.at = engine.playing.at
  BY SeekFacts, RebasedType DEF PlayingType
<1>2. /\ engine' = [engine EXCEPT !.playing = p] /\ FlushSink
      /\ listener' = Jumped(engine.playing.at, target) /\ download' = download
  BY DEF SeekInPlace
<1> HIDE DEF p
<1>3. /\ engine' \in EngineType /\ engine'.state = engine.state /\ engine'.busy = "no"
      /\ engine'.sink = engine.sink /\ engine'.playing = p /\ engine'.outgoing = engine.outgoing
      /\ engine'.pauseWhenReady = engine.pauseWhenReady
  BY <1>1, <1>2, SeekFacts DEF EngineType, SeekGuard
<1>4. Base(engine', download, output') /\ BusyGood(engine', output')
  BY <1>1, <1>2, <1>3, SeekFacts, SoughtBase DEF SeekGuard
<1>5. listener' \in ListenerType
  BY <1>2, SeekFacts, ListenerMoved
<1> QED BY <1>2, <1>4, <1>5 DEF InvBase, SeekGuard

LEMMA SeekForwardOnlyBase ==
  ASSUME SeekGuard, NEW target \in Nat, SeekForwardOnly(target)
  PROVE  InvBase'
<1> DEFINE until == DecodedUntil(engine.playing)
           skip == engine.playing.skip + target - until
           p == [Rebased(engine.playing, target) EXCEPT !.skip = skip]
<1>1. CASE target < until
  BY <1>1 DEF SeekForwardOnly, SeekGuard, InvBase
<1>2. CASE ~(target < until)
  <2>1. until \in Nat /\ engine.playing.skip \in Nat
    <3>1. /\ engine.playing.base \in Nat /\ engine.playing.written \in Nat
          /\ engine.playing.skip \in Nat /\ engine.playing.pending \in Seq(Frame)
      BY SeekFacts DEF PlayingType
    <3>2. Len(engine.playing.pending) \in Nat
      BY <3>1, LenProperties
    <3>3. \A x, y, z \in Nat : x + y + z \in Nat
      OBVIOUS
    <3> QED BY <3>1, <3>2, <3>3 DEF DecodedUntil
  <2>2. Rebased(engine.playing, target).skip = engine.playing.skip
    BY SeekFacts, RebasedType
  <2>3. /\ engine' = [engine EXCEPT !.playing = p] /\ FlushSink
        /\ listener' = Jumped(engine.playing.at, target) /\ download' = download
    <3>1. ~(target < DecodedUntil(engine.playing))
      BY <1>2
    <3> HIDE DEF until
    <3>2. FlushSink /\ listener' = Jumped(engine.playing.at, target) /\ download' = download
      BY <3>1 DEF SeekForwardOnly, until
    <3>3. engine' = [engine EXCEPT !.playing = [Rebased(engine.playing, target) EXCEPT
                            !.skip = Rebased(engine.playing, target).skip + target - until]]
      BY <3>1 DEF SeekForwardOnly, until
    <3> QED BY <2>2, <3>2, <3>3
  <2>4. skip \in Nat
    <3> HIDE DEF until
    <3> QED BY <1>2, <2>1
  <2> HIDE DEF skip
  <2>5. p \in PlayingType /\ p.written = 0 /\ p.pending = <<>> /\ p.recent = <<>>
        /\ p.at = engine.playing.at
    BY <2>4, SeekFacts, RebasedType DEF PlayingType
  <2> HIDE DEF p
  <2>6. /\ engine' \in EngineType /\ engine'.state = engine.state /\ engine'.busy = "no"
        /\ engine'.sink = engine.sink /\ engine'.playing = p /\ engine'.outgoing = engine.outgoing
        /\ engine'.pauseWhenReady = engine.pauseWhenReady
    BY <2>3, <2>5, SeekFacts DEF EngineType, SeekGuard
  <2>7. Base(engine', download, output') /\ BusyGood(engine', output')
    BY <2>3, <2>5, <2>6, SeekFacts, SoughtBase DEF SeekGuard
  <2>8. listener' \in ListenerType
    BY <2>3, SeekFacts, ListenerMoved
  <2> QED BY <2>3, <2>7, <2>8 DEF InvBase, SeekGuard
<1> QED BY <1>1, <1>2

LEMMA SeekReopenBase ==
  ASSUME SeekGuard, NEW at \in Places, NEW target \in Nat, SeekReopen(at, target)
  PROVE  InvBase'
<1> DEFINE m == [engine EXCEPT !.playing.at = at]
           p == [Rebased(m.playing, target) EXCEPT !.source = FALSE]
           waits == m.state = "Paused" \/ (m.state = "Seeking" /\ m.pauseWhenReady)
<1>1. at \in Nat
  BY Sizes
<1>2. /\ m \in EngineType /\ m.playing \in PlayingType /\ m.playing.at = at
      /\ m.state = engine.state /\ m.busy = engine.busy /\ m.sink = engine.sink
      /\ m.pauseWhenReady = engine.pauseWhenReady
  BY <1>1, SeekFacts DEF EngineType, PlayingType
<1>3. /\ engine' = [m EXCEPT !.state = "Seeking", !.outgoing = NoOutgoing,
                             !.pauseWhenReady = waits, !.playing = p]
      /\ FlushSink /\ listener' = Jumped(at, target) /\ download' = From(0)
  BY DEF SeekReopen, Reopening
<1> HIDE DEF m
<1>4. p \in PlayingType /\ p.written = 0 /\ p.pending = <<>> /\ p.recent = <<>> /\ p.at = at
  BY <1>2, RebasedType DEF PlayingType
<1>5. waits \in BOOLEAN /\ (engine.sink \/ waits)
  BY <1>2, SeekFacts DEF SeekGuard, OnTrack, Base, TrackBase
<1> HIDE DEF p, waits
<1>6. /\ engine' \in EngineType /\ engine'.state = "Seeking" /\ engine'.busy = "no"
      /\ engine'.sink = engine.sink /\ engine'.playing = p /\ engine'.outgoing = NoOutgoing
      /\ engine'.pauseWhenReady = waits
  BY <1>2, <1>3, <1>4, <1>5, NothingPlaying DEF EngineType, States, SeekGuard
<1>7. download' \in DownloadType
  BY <1>3 DEF From, DownloadType
<1>8. Base(engine', download', output') /\ BusyGood(engine', output')
  BY <1>3, <1>4, <1>5, <1>6, <1>7, SoughtBase DEF SeekGuard, OnTrack
<1>9. listener' \in ListenerType
  BY <1>3, SeekFacts, ListenerMoved
<1> QED BY <1>8, <1>9 DEF InvBase, SeekGuard

LEMMA SeekPastTheEndBase ==
  ASSUME SeekGuard, NEW at \in Places, SeekPastTheEnd(at)
  PROVE  InvBase'
<1>1. /\ engine' = LoadAfter(engine, at) /\ download' = download
      /\ output' = IF ~engine'.sink THEN Closed ELSE Flushed(output)
      /\ listener' = IF at < Len(Length) THEN Jumped(at + 1, 0) ELSE listener
  BY DEF SeekPastTheEnd
<1>2. engine'.sink \in BOOLEAN /\ output \in OutputType
  BY <1>1, SeekFacts, LoadAfterSink DEF Base
<1>3. /\ output' \in OutputType /\ Held(Line(output'), output'.silent, Audio(output'))
      /\ Audio(output') = <<>> /\ OutputGood(engine'.sink, output')
  <2>1. CASE engine'.sink = TRUE
    BY <1>1, <1>2, <2>1, FlushedOutput
  <2>2. CASE engine'.sink = FALSE
    BY <1>1, <2>2, ClosedOutput
  <2> QED BY <1>2, <2>1, <2>2
<1>4. Base(engine', download, output') /\ BusyGood(engine', output')
  BY <1>1, <1>3, SeekFacts, LoadAfterBase
<1>5. listener' \in ListenerType
  <2>1. at < Len(Length) => at + 1 \in Places
    BY Sizes
  <2>2. at < Len(Length) => Jumped(at + 1, 0) \in ListenerType
    BY <2>1, SeekFacts, ListenerMoved
  <2> QED BY <1>1, <2>2, SeekFacts
<1> QED BY <1>1, <1>4, <1>5 DEF InvBase, SeekGuard

LEMMA SeekBase ==
  ASSUME InvBase, Seek
  PROVE  InvBase'
<1> DEFINE at == IF engine.outgoing # NoOutgoing THEN engine.outgoing.at ELSE engine.playing.at
<1>1. SeekGuard
  BY AskedSpent DEF Seek, SeekGuard, OnTrack
<1>2. at \in Places
  BY <1>1, SeekFacts
<1>3. PICK target \in 0..Length[at] :
        \/ SeekPastTheEnd(at)
        \/ SeekReopen(at, target)
        \/ SeekInPlace(target)
        \/ SeekForwardOnly(target)
  BY DEF Seek
<1>4. target \in Nat
  <2>1. Length[at] \in Nat
    BY <1>2, Sizes
  <2> QED BY <1>3, <2>1
<1> HIDE DEF at
<1> QED BY <1>1, <1>2, <1>3, <1>4, SeekPastTheEndBase, SeekReopenBase, SeekInPlaceBase,
           SeekForwardOnlyBase

LEMMA SegmentHolds ==
  ASSUME NEW position \in Nat
  PROVE  /\ SegmentStart(position) \in Nat /\ position - SegmentStart(position) \in Nat
         /\ SegmentStart(position) <= position
<1>1. Segment \in Nat \ {0}
  BY Sizes
<1>2. \A x \in Nat, y \in Nat \ {0} : (x \div y) * y \in Nat /\ (x \div y) * y <= x
  OBVIOUS
<1>3. SegmentStart(position) \in Nat /\ SegmentStart(position) <= position
  BY <1>1, <1>2 DEF SegmentStart
<1> QED BY <1>3

LEMMA SeekReadyBase ==
  ASSUME InvBase, SeekReady
  PROVE  InvBase'
<1> DEFINE start == SegmentStart(engine.playing.base)
           skip == engine.playing.base - start
           state == IF engine.pauseWhenReady THEN "Paused" ELSE "Playing"
<1>1. /\ Base(engine, download, output) /\ engine.state = "Seeking" /\ engine \in EngineType
      /\ engine.busy = "no" /\ engine.playing \in PlayingType /\ engine.playing.at \in Places
      /\ engine.playing.base \in Nat
  BY DEF InvBase, SeekReady, BusyGood, OnTrack, Base, TrackBase, EngineType, PlayingType
<1>2. start \in Nat /\ skip \in Nat
  BY <1>1, SegmentHolds
<1>3. /\ engine' = [engine EXCEPT !.state = state, !.pauseWhenReady = FALSE,
                                  !.playing.source = TRUE, !.playing.next = start,
                                  !.playing.skip = skip]
      /\ download' = Downloading(engine.playing.at, start)
      /\ output' = output /\ listener' = listener /\ spent' = spent
  BY DEF SeekReady
<1> HIDE DEF start, skip
<1>4. /\ engine' \in EngineType /\ engine'.state = state /\ engine'.busy = "no"
      /\ engine'.sink = engine.sink /\ engine'.outgoing = engine.outgoing
      /\ engine'.playing.at = engine.playing.at /\ engine'.playing.written = engine.playing.written
      /\ engine'.playing.recent = engine.playing.recent
      /\ engine'.playing.pending = engine.playing.pending
  BY <1>1, <1>2, <1>3 DEF EngineType, PlayingType, States
<1>5. /\ SoundBase(engine'.playing, output) /\ OutputGood(engine'.sink, output)
      /\ output.needsSilence \/ ~engine'.sink => engine'.playing.written = 0
  BY <1>1, <1>4 DEF Base, SoundBase
<1>6. TrackBase(engine')
  <2>1. engine'.state = "Playing" => engine'.sink
    BY <1>1, <1>4 DEF Base, TrackBase
  <2> QED BY <1>1, <1>4, <2>1 DEF Base, TrackBase, OnTrack
<1>7. download' \in DownloadType
  BY <1>1, <1>2, <1>3, DownloadingType
<1>8. Base(engine', download', output') /\ BusyGood(engine', output')
  BY <1>1, <1>3, <1>4, <1>5, <1>6, <1>7 DEF Base, BusyGood
<1> QED BY <1>3, <1>8 DEF InvBase

LEMMA InvBaseStep == InvBase /\ [Next]_vars => InvBase'
<1> SUFFICES ASSUME InvBase, [Next]_vars PROVE InvBase'
  OBVIOUS
<1>1. CASE UNCHANGED vars
  BY <1>1 DEF vars, InvBase
<1>2. CASE Next
  BY <1>2, FetchBase, PlayStepBase, DecodeBase, WriteBase, OutputLostBase, DrainedBase, LoadedBase,
     PullBase, PlayBase, ServerBase, PauseBase, ResumeBase, HandOverOutputBase, SeekBase,
     SeekReadyBase DEF Next
<1> QED BY <1>1, <1>2

LEMMA AlwaysInvBase == Spec => []InvBase
<1>1. Init => InvBase
  BY InvBaseInit
<1>2. InvBase /\ [Next]_vars => InvBase'
  BY InvBaseStep
<1> QED BY <1>1, <1>2, PTL DEF Spec

(* "Silence goes in first so that it is what gets dropped": for any sizes  *)
(* of the silence and of what the server drops, as long as the one covers  *)
(* the other.                                                              *)
THEOREM WhatIsDroppedIsSilence == Spec => []SilenceComesFirst
<1>1. InvBase => SilenceComesFirst
  <2> SUFFICES ASSUME InvBase, ~output.starved, output.gone = "no",
                      NEW k \in 1..AtMost(output.dry, Len(output.server \o output.ring))
               PROVE  (output.server \o output.ring)[k] = Hush
    BY DEF SilenceComesFirst
  <2>1. /\ output \in OutputType /\ Held(Line(output), output.silent, Audio(output))
        /\ OutputGood(engine.sink, output) /\ output.dry \in Nat
    <3>1. output \in OutputType /\ Dropped \in Nat
      BY Sizes DEF InvBase, Base
    <3> QED BY <3>1 DEF InvBase, Base, SoundBase, OutputType
  <2>2. Len(Line(output)) \in Nat /\ output.silent \in Nat
    <3>1. /\ Len(Line(output)) = output.silent + Len(Audio(output)) /\ output.silent \in Nat
          /\ Len(Audio(output)) \in Nat
      BY <2>1, AudioProperties
    <3> QED BY <3>1
  <2>3. k \in Nat /\ 1 <= k /\ k <= output.dry /\ k <= Len(Line(output))
    <3>1. \A x, y \in Nat : \A z \in 1..AtMost(x, y) : z \in Nat /\ 1 <= z /\ z <= x /\ z <= y
      BY DEF AtMost
    <3>2. k \in 1..AtMost(output.dry, Len(Line(output)))
      BY DEF Line
    <3> QED BY <2>1, <2>2, <3>1, <3>2
  <2>4. Line(output) # <<>>
    BY <2>2, <2>3, EmptySeq
  <2>5. engine.sink /\ ~output.needsSilence
    BY <2>1, <2>4, LineAlone, EmptySeq DEF OutputGood, Line
  <2>6. output.dry <= output.silent
    BY <2>1, <2>5 DEF OutputGood
  <2>7. k \in 1..output.silent
    BY <2>1, <2>2, <2>3, <2>6
  <2> QED BY <2>1, <2>7 DEF Held, Line
<1> QED BY <1>1, AlwaysInvBase, PTL

(* "The engine keeps enough to replay all of it": whatever the sizes of    *)
(* the buffers, what was written and not heard is the end of what is kept. *)
THEOREM WhatIsUnheardIsKept == Spec => []UnheardIsKept
<1>1. InvBase => UnheardIsKept
  <2> SUFFICES ASSUME InvBase
               PROVE  LET unheard == Without(output.server \o output.ring, {Hush})
                      IN Keep(engine.playing.recent, Len(unheard)) = unheard
    BY DEF UnheardIsKept
  <2> DEFINE a == Audio(output)
             recent == engine.playing.recent
  <2>1. /\ output \in OutputType /\ Held(Line(output), output.silent, a)
        /\ recent \in Seq(Frame) /\ Real(recent) /\ Kept(recent, a)
    BY DEF InvBase, Base, SoundBase, EngineType, PlayingType
  <2>2. Line(output) \in Seq(Frame) /\ a \in Seq(Frame)
    BY <2>1, AudioProperties
  <2>3. Real(a)
    BY <2>1, <2>2, RealKept
  <2>4. \A k \in 1..Len(a) : a[k] # Hush
    <3>1. Hush[1] \notin Places
      BY Sizes DEF Hush
    <3> QED BY <2>3, <3>1 DEF Real
  <2> HIDE DEF a
  <2>5. Without(Line(output), {Hush}) = a
    BY <2>1, <2>2, <2>4, HeldWithout
  <2>6. Keep(recent, Len(a)) = a
    BY <2>1 DEF Kept
  <2> QED BY <2>5, <2>6 DEF Line
<1> QED BY <1>1, AlwaysInvBase, PTL

---------------------------------------------------------------------------
(* What a listener hears.                                                  *)

(* seek_forward_only does not count the end of the track before, so what   *)
(* follows is about behaviours in which it never has to: a stream that can *)
(* only go forward, of a track joined without a gap, is not sought in.     *)
Miscounts ==
  /\ Seek
  /\ engine.outgoing = NoOutgoing /\ engine.playing.leadIn # 0
  /\ SeekMode[engine.playing.at] = "ForwardOnly"
  /\ \E target \in Nat :
       ~(target < DecodedUntil(engine.playing)) /\ SeekForwardOnly(target)

(* The frames as they are written, counted from the last time the output   *)
(* was opened or flushed: the end of the track before, then the track.     *)
FrameAt(p, out, j) ==
  IF out # NoOutgoing /\ j <= p.leadIn THEN <<out.at, (out.end + j) - (p.leadIn + 1)>>
  ELSE <<p.at, (p.base + j) - (p.leadIn + 1)>>
Tape(p, out) == [j \in Nat |-> FrameAt(p, out, j)]

(* How the counts fit, with n frames written and not heard.                *)
CountsGood(p, out, n) ==
  /\ p.source => /\ p.next + p.skip <= Length[p.at]
                 /\ p.next + p.skip + p.leadIn = p.base + p.written + Len(p.pending)
  /\ ~p.source => /\ p.pending = <<>> /\ p.written = 0 /\ p.leadIn = 0
                  /\ p.base < Length[p.at] /\ ~p.done /\ out = NoOutgoing
  /\ out # NoOutgoing =>
       /\ p.at = out.at + 1 /\ out.end = Length[out.at] /\ p.base = 0
       /\ p.leadIn + n <= out.end + p.written
  /\ out = NoOutgoing => p.leadIn + n <= p.written
  /\ p.at = 1 => p.leadIn = 0
  /\ p.done => p.source /\ p.next = Length[p.at]
  /\ p.done /\ p.pending # <<>> => p.written = 0

(* What was written and not heard, a, and what is decoded and not written, *)
(* is the tape.                                                            *)
TapeGood(p, out, a) ==
  /\ Runs(a, Tape(p, out), p.written - Len(a))
  /\ Runs(p.pending, Tape(p, out), p.written)
  /\ CountsGood(p, out, Len(a))

Good(e, d, a) ==
  /\ e.state \in OnTrack => TapeGood(e.playing, e.outgoing, a)
  /\ e.state \in {"Playing", "Paused"} => e.playing.source /\ d.avail <= Length[e.playing.at]
  /\ e.state = "Seeking" => ~e.playing.source

(* The listener is at a place of a track, maybe as the end of the one      *)
(* before it.                                                              *)
IsAt(l, at, position) ==
  \/ l.at = at /\ l.position = position
  \/ position = 0 /\ at = l.at + 1 /\ l.position = Length[l.at]

(* Where the listener is who has heard h of the frames written.            *)
HearsAt(p, out, h, l) ==
  IF out # NoOutgoing /\ h <= p.leadIn THEN IsAt(l, out.at, (out.end + h) - p.leadIn)
  ELSE IsAt(l, p.at, (p.base + h) - p.leadIn)

(* At the end of a track whose last frames are lost.                       *)
GivesUp(e) == e.busy = "draining" /\ e.playing.pending # <<>>
LosesEnd(e, l) ==
  /\ l.at = e.playing.at /\ l.position = Length[e.playing.at] /\ l.lost > 0

Follows(e, a, l) ==
  /\ l.position <= Length[l.at]
  /\ GivesUp(e) => LosesEnd(e, l)
  /\ ~GivesUp(e) /\ e.state \in OnTrack =>
       HearsAt(e.playing, e.outgoing, e.playing.written - Len(a), l)
  /\ e.state = "Loading" => IsAt(l, e.loading, 0)

Fits(e, d, a, l) == Good(e, d, a) /\ Follows(e, a, l)

Inv == InvBase /\ Fits(engine, download, Audio(output), listener)

(* How a listener may get from l to m.                                     *)
HearsOn(l, m) == l.at = m.at /\ l.position < Length[l.at] /\ m.position = l.position + 1
HearsTheNext(l, m) ==
  l.position = Length[l.at] /\ l.at < Len(Length) /\ m.at = l.at + 1 /\ m.position = 1
Leaps(l, m) == m.at \in (l.at - 1 .. l.at + 2) \cap Places /\ m.position \in 0..Length[m.at]
Listens(l, m) ==
  \/ m = l
  \/ m.jumps + m.lost = l.jumps + l.lost /\ (HearsOn(l, m) \/ HearsTheNext(l, m))
  \/ m.jumps + m.lost = l.jumps + l.lost + 1 /\ Leaps(l, m)

(* What every step does.                                                   *)
GoesOn ==
  /\ Fits(engine', download', Audio(output'), listener')
  /\ Listens(listener, listener')

---------------------------------------------------------------------------
(* The tape.                                                               *)

SameTape(T, c, U, d, n) == \A k \in 1..n : T[c + k] = U[d + k]

LEMMA RunsAs ==
  ASSUME NEW s, NEW T, NEW c, NEW U, NEW d, Runs(s, U, d), SameTape(T, c, U, d, Len(s))
  PROVE  Runs(s, T, c)
BY DEF Runs, SameTape

LEMMA TapeAt ==
  ASSUME NEW p, NEW out, NEW j \in Nat
  PROVE  Tape(p, out)[j] = FrameAt(p, out, j)
BY DEF Tape

LEMMA TapeUnmoved ==
  ASSUME NEW p, NEW q, NEW out, q.at = p.at, q.base = p.base, q.leadIn = p.leadIn
  PROVE  Tape(q, out) = Tape(p, out)
BY DEF Tape, FrameAt

(* Past the track before.                                                  *)
LEMMA TapeCrossed ==
  ASSUME NEW p \in PlayingType, NEW out, NEW c \in Nat, p.leadIn <= c, NEW n \in Nat
  PROVE  SameTape(Tape(p, NoOutgoing), c, Tape(p, out), c, n)
<1> SUFFICES ASSUME NEW k \in 1..n
             PROVE  Tape(p, NoOutgoing)[c + k] = Tape(p, out)[c + k]
  BY DEF SameTape
<1>1. k \in Nat /\ p.leadIn \in Nat /\ ~(c + k <= p.leadIn)
  BY DEF PlayingType
<1>2. FrameAt(p, NoOutgoing, c + k) = FrameAt(p, out, c + k) /\ c + k \in Nat
  BY <1>1 DEF FrameAt
<1> QED BY <1>2, TapeAt

(* Written again: what was heard is not on the tape any more.              *)
LEMMA TapeAside ==
  ASSUME NEW p \in PlayingType, NEW out \in [at : Nat, end : Nat], NEW h \in Nat,
         NEW q \in PlayingType, q.at = p.at,
         out # NoOutgoing => h <= p.leadIn /\ q.leadIn = p.leadIn - h /\ q.base = p.base,
         out = NoOutgoing => p.leadIn <= h /\ q.leadIn = 0 /\ q.base = p.base + (h - p.leadIn),
         out # NoOutgoing => p.base = 0,
         NEW c \in Nat, NEW n \in Nat
  PROVE  SameTape(Tape(q, out), c, Tape(p, out), h + c, n)
<1> SUFFICES ASSUME NEW k \in 1..n
             PROVE  Tape(q, out)[c + k] = Tape(p, out)[(h + c) + k]
  BY DEF SameTape
<1>1. /\ k \in Nat /\ p.leadIn \in Nat /\ q.leadIn \in Nat /\ p.base \in Nat /\ q.base \in Nat
      /\ p.at \in Nat /\ h + c \in Nat /\ out.end \in Nat
  BY DEF PlayingType
<1>2. CASE out # NoOutgoing
  <2>1. c + k <= q.leadIn <=> (h + c) + k <= p.leadIn
    BY <1>1, <1>2
  <2>2. (out.end + (c + k)) - (q.leadIn + 1) = (out.end + ((h + c) + k)) - (p.leadIn + 1)
    BY <1>1, <1>2
  <2>3. (q.base + (c + k)) - (q.leadIn + 1) = (p.base + ((h + c) + k)) - (p.leadIn + 1)
    BY <1>1, <1>2
  <2>4. FrameAt(q, out, c + k) = FrameAt(p, out, (h + c) + k)
    BY <1>2, <2>1, <2>2, <2>3 DEF FrameAt
  <2>5. c + k \in Nat /\ (h + c) + k \in Nat
    BY <1>1
  <2> QED BY <2>4, <2>5, TapeAt
<1>3. CASE out = NoOutgoing
  <2>1. (q.base + (c + k)) - (q.leadIn + 1) = (p.base + ((h + c) + k)) - (p.leadIn + 1)
    BY <1>1, <1>3
  <2>2. FrameAt(q, out, c + k) = FrameAt(p, out, (h + c) + k)
    BY <1>3, <2>1 DEF FrameAt
  <2>5. c + k \in Nat /\ (h + c) + k \in Nat
    BY <1>1
  <2> QED BY <2>2, <2>5, TapeAt
<1> QED BY <1>2, <1>3

(* What is decoded goes on where the tape ends.                            *)
LEMMA TapeDecoded ==
  ASSUME NEW p \in PlayingType, NEW out, NEW kept \in Nat, NEW to \in Nat, p.at \in Places,
         p.leadIn <= p.written, kept + p.leadIn = p.base + p.written
  PROVE  Runs(Frames(p.at, kept, to), Tape(p, out), p.written)
<1> DEFINE t == Frames(p.at, kept, to)
           n == Less(to, kept)
<1>1. Len(t) = n /\ \A k \in 1..n : t[k] = <<p.at, kept + k - 1>>
  BY RealFrames
<1>2. n \in Nat /\ p.leadIn \in Nat /\ p.written \in Nat /\ p.base \in Nat
  BY DEF Less, PlayingType
<1> HIDE DEF t, n
<1>3. ASSUME NEW k \in 1..n PROVE t[k] = Tape(p, out)[p.written + k]
  <2>1. k \in Nat /\ ~(p.written + k <= p.leadIn)
    BY <1>2
  <2>2. (p.base + (p.written + k)) - (p.leadIn + 1) = kept + k - 1
    BY <1>2, <2>1
  <2>3. FrameAt(p, out, p.written + k) = <<p.at, kept + k - 1>>
    BY <2>1, <2>2 DEF FrameAt
  <2>4. p.written + k \in Nat
    BY <1>2, <2>1
  <2> QED BY <1>1, <2>3, <2>4, TapeAt
<1> QED BY <1>1, <1>3 DEF Runs, t

(* The track that is joined follows the one before on the tape.            *)
LEMMA TapeJoined ==
  ASSUME NEW p \in PlayingType, NEW q \in PlayingType, NEW out \in [at : Nat, end : Nat],
         out # NoOutgoing, out.at = p.at, q.leadIn = p.written,
         out.end + p.leadIn = p.base + p.written,
         NEW c \in Nat, NEW n \in Nat, c + n <= p.written
  PROVE  SameTape(Tape(q, out), c, Tape(p, NoOutgoing), c, n)
<1> SUFFICES ASSUME NEW k \in 1..n
             PROVE  Tape(q, out)[c + k] = Tape(p, NoOutgoing)[c + k]
  BY DEF SameTape
<1>1. /\ k \in Nat /\ p.leadIn \in Nat /\ p.written \in Nat /\ p.base \in Nat
      /\ out.end \in Nat /\ c + k <= p.written
  <2>1. /\ k \in Nat /\ p.leadIn \in Nat /\ p.written \in Nat /\ p.base \in Nat
        /\ out.end \in Nat
    BY DEF PlayingType
  <2>2. \A x, y, z \in Nat : x + y <= z => \A i \in 1..y : x + i <= z
    OBVIOUS
  <2> QED BY <2>1, <2>2
<1>2. (out.end + (c + k)) - (p.written + 1) = (p.base + (c + k)) - (p.leadIn + 1)
  BY <1>1
<1>3. FrameAt(q, out, c + k) = FrameAt(p, NoOutgoing, c + k) /\ c + k \in Nat
  BY <1>1, <1>2 DEF FrameAt
<1> QED BY <1>3, TapeAt

---------------------------------------------------------------------------
(* What happens to what is on the tape.                                    *)

(* Part of a sequence is left out in front: heard, or lost.                *)
LEMMA TapeHeard ==
  ASSUME NEW p \in PlayingType, NEW out \in [at : Nat, end : Nat], NEW a \in Seq(Frame),
         Len(a) <= p.written, TapeGood(p, out, a), NEW k \in 0..Len(a)
  PROVE  TapeGood(p, out, SubSeq(a, (Len(a) - k) + 1, Len(a)))
<1> DEFINE b == SubSeq(a, (Len(a) - k) + 1, Len(a))
           n == Len(a)
<1>1. /\ n \in Nat /\ p.written \in Nat /\ p.leadIn \in Nat /\ k \in Nat /\ n - k \in 0..n
      /\ out.end \in Nat
  BY LenProperties DEF PlayingType
<1>2. b \in Seq(Frame) /\ Len(b) = n - (n - k)
  BY <1>1, AfterProperties
<1>3. n - (n - k) = k /\ p.written - n \in Nat /\ (p.written - n) + (n - k) = p.written - k
  BY <1>1
<1>4. Runs(b, Tape(p, out), (p.written - n) + (n - k))
  <2>1. Runs(a, Tape(p, out), p.written - n)
    BY DEF TapeGood
  <2>2. n \in (n - k)..n
    BY <1>1
  <2> QED BY <1>1, <1>3, <2>1, <2>2, RunsPart
<1>5. Runs(b, Tape(p, out), p.written - Len(b))
  BY <1>2, <1>3, <1>4
<1>6. CountsGood(p, out, k)
  <2>1. CountsGood(p, out, n) /\ k <= n
    BY <1>1 DEF TapeGood
  <2>2. \A x, y, z \in Nat : \A w : x + y <= w /\ z <= y /\ w \in Int => x + z <= w
    OBVIOUS
  <2>3. out # NoOutgoing => p.leadIn + k <= out.end + p.written
    <3>1. out # NoOutgoing => p.leadIn + n <= out.end + p.written
      BY <2>1 DEF CountsGood
    <3>2. out.end + p.written \in Int
      BY <1>1
    <3> QED BY <1>1, <2>1, <2>2, <3>1, <3>2
  <2>4. out = NoOutgoing => p.leadIn + k <= p.written
    <3>1. out = NoOutgoing => p.leadIn + n <= p.written
      BY <2>1 DEF CountsGood
    <3>2. p.written \in Int
      BY <1>1
    <3> QED BY <1>1, <2>1, <2>2, <3>1, <3>2
  <2> QED BY <2>1, <2>3, <2>4 DEF CountsGood
<1>7. Len(b) = k
  BY <1>2, <1>3
<1> HIDE DEF b, n
<1>8. TapeGood(p, out, b)
  BY <1>5, <1>6, <1>7 DEF TapeGood
<1> QED BY <1>8 DEF b, n


---------------------------------------------------------------------------
(* What leaves the tape as it is.                                          *)

SamePlace(p, q) ==
  /\ q.at = p.at /\ q.source = p.source /\ q.next = p.next /\ q.skip = p.skip
  /\ q.pending = p.pending /\ q.written = p.written /\ q.base = p.base
  /\ q.leadIn = p.leadIn /\ q.done = p.done

LEMMA SamePlaceGood ==
  ASSUME NEW p, NEW q, SamePlace(p, q), NEW out, NEW a, TapeGood(p, out, a)
  PROVE  TapeGood(q, out, a)
<1>1. Tape(q, out) = Tape(p, out)
  BY TapeUnmoved DEF SamePlace
<1>2. CountsGood(q, out, Len(a))
  BY DEF TapeGood, CountsGood, SamePlace
<1> QED BY <1>1, <1>2 DEF TapeGood, SamePlace

LEMMA SamePlaceHeard ==
  ASSUME NEW p, NEW q, SamePlace(p, q), NEW out, NEW h, NEW l, HearsAt(p, out, h, l)
  PROVE  HearsAt(q, out, h, l)
BY DEF HearsAt, SamePlace

LEMMA FitsSame ==
  ASSUME NEW e, NEW f, NEW d, NEW a, NEW l, Fits(e, d, a, l),
         \/ f.state = e.state
         \/ e.state \in {"Playing", "Paused"} /\ f.state \in {"Playing", "Paused"},
         f.outgoing = e.outgoing, SamePlace(e.playing, f.playing), f.loading = e.loading,
         ~GivesUp(e), ~GivesUp(f)
  PROVE  Fits(f, d, a, l)
<1>1. f.state \in OnTrack => e.state \in OnTrack
  BY DEF OnTrack
<1>2. Good(f, d, a)
  <2>1. f.state \in OnTrack => TapeGood(f.playing, f.outgoing, a)
    BY <1>1, SamePlaceGood DEF Fits, Good
  <2>2. f.playing.source = e.playing.source /\ f.playing.at = e.playing.at
    BY DEF SamePlace
  <2> QED BY <2>1, <2>2 DEF Fits, Good
<1>3. f.state \in OnTrack => HearsAt(f.playing, f.outgoing, f.playing.written - Len(a), l)
  <2>1. f.playing.written = e.playing.written
    BY DEF SamePlace
  <2> QED BY <1>1, <2>1, SamePlaceHeard DEF Fits, Follows
<1>4. f.state = "Loading" => IsAt(l, f.loading, 0)
  BY DEF Fits, Follows
<1> QED BY <1>2, <1>3, <1>4 DEF Fits, Follows

(* Nothing plays any more.                                                 *)
LEMMA StoppedFits ==
  ASSUME NEW e \in EngineType, NEW d, NEW a, NEW l, l.position <= Length[l.at]
  PROVE  Fits(Stopped(e), d, a, l)
<1>1. Stopped(e).state = "Stopped" /\ Stopped(e).busy = "no"
  BY DEF Stopped, EngineType
<1> QED BY <1>1 DEF Fits, Good, Follows, GivesUp, OnTrack

LEMMA LoadAfterFits ==
  ASSUME NEW e \in EngineType, NEW i, NEW d, NEW a, NEW l, l.position <= Length[l.at],
         i < Len(Length) => IsAt(l, i + 1, 0)
  PROVE  Fits(LoadAfter(e, i), d, a, l)
<1>1. CASE i < Len(Length)
  <2> DEFINE f == LoadAfter(e, i)
  <2>1. f.state = "Loading" /\ f.busy = "no" /\ f.loading = i + 1
    BY <1>1 DEF LoadAfter, EngineType
  <2> HIDE DEF f
  <2>2. Fits(f, d, a, l)
    BY <1>1, <2>1 DEF Fits, Good, Follows, GivesUp, OnTrack
  <2> QED BY <2>2 DEF f
<1>2. CASE ~(i < Len(Length))
  BY <1>2, StoppedFits DEF LoadAfter
<1> QED BY <1>1, <1>2

(* The end of the track before was heard.                                  *)
LEMMA CrossedTape ==
  ASSUME NEW p \in PlayingType, NEW out \in [at : Nat, end : Nat], NEW a \in Seq(Frame),
         Len(a) <= p.written, TapeGood(p, out, a), out # NoOutgoing, out.at \in Places,
         p.leadIn + Len(a) <= p.written
  PROVE  /\ TapeGood(p, NoOutgoing, a)
         /\ \A l \in ListenerType : HearsAt(p, out, p.written - Len(a), l)
                                      => HearsAt(p, NoOutgoing, p.written - Len(a), l)
<1> DEFINE n == Len(a)
           h == p.written - n
<1>1. /\ n \in Nat /\ p.written \in Nat /\ p.leadIn \in Nat /\ p.base \in Nat
      /\ p.pending \in Seq(Frame) /\ Len(p.pending) \in Nat
  BY LenProperties DEF PlayingType
<1>2. h \in Nat /\ p.leadIn <= h /\ p.leadIn <= p.written
  BY <1>1
<1>3. CountsGood(p, out, n) /\ Runs(a, Tape(p, out), h) /\ Runs(p.pending, Tape(p, out), p.written)
  BY DEF TapeGood
<1> HIDE DEF h, n
<1>4. CountsGood(p, NoOutgoing, n)
  BY <1>3 DEF CountsGood, n
<1>5. Runs(a, Tape(p, NoOutgoing), h)
  <2>1. SameTape(Tape(p, NoOutgoing), h, Tape(p, out), h, n)
    BY <1>1, <1>2, TapeCrossed
  <2> QED BY <1>3, <2>1, RunsAs DEF n
<1>6. Runs(p.pending, Tape(p, NoOutgoing), p.written)
  <2>1. SameTape(Tape(p, NoOutgoing), p.written, Tape(p, out), p.written, Len(p.pending))
    BY <1>1, <1>2, TapeCrossed
  <2> QED BY <1>3, <2>1, RunsAs
<1>7. TapeGood(p, NoOutgoing, a)
  BY <1>4, <1>5, <1>6 DEF TapeGood, h, n
<1>8. ASSUME NEW l \in ListenerType, HearsAt(p, out, h, l) PROVE HearsAt(p, NoOutgoing, h, l)
  <2>1. p.at = out.at + 1 /\ out.end = Length[out.at] /\ p.base = 0
    BY <1>3 DEF CountsGood
  <2>2. CASE ~(h <= p.leadIn)
    BY <1>8, <2>2 DEF HearsAt
  <2>3. CASE h <= p.leadIn
    <3>1. h = p.leadIn
      BY <1>1, <1>2, <2>3
    <3>2. out.end \in Nat \ {0} /\ out.at \in Nat
      BY <2>1, Sizes
    <3>3. (out.end + h) - p.leadIn = out.end /\ (p.base + h) - p.leadIn = 0
      BY <1>2, <2>1, <3>1, <3>2
    <3>4. IsAt(l, out.at, out.end)
      BY <1>8, <2>3, <3>3 DEF HearsAt
    <3>5. l.at = out.at /\ l.position = out.end
      BY <3>2, <3>4 DEF IsAt
    <3>6. IsAt(l, p.at, 0)
      BY <2>1, <3>5 DEF IsAt
    <3> QED BY <3>3, <3>6 DEF HearsAt
  <2> QED BY <2>2, <2>3
<1> QED BY <1>7, <1>8 DEF h, n

LEMMA CrossedGood ==
  ASSUME NEW e \in EngineType, TrackBase(e), NEW d, NEW a \in Seq(Frame),
         Len(a) <= e.playing.written, Good(e, d, a), NEW queued,
         Heard(e, queued) = e.playing.written - Len(a)
  PROVE  /\ Good(Crossed(e, queued), d, a)
         /\ Crossed(e, queued).playing = e.playing /\ Crossed(e, queued).state = e.state
         /\ Crossed(e, queued).busy = e.busy /\ Crossed(e, queued).loading = e.loading
         /\ Crossed(e, queued).sink = e.sink
         /\ Crossed(e, queued).outgoing \in {e.outgoing, NoOutgoing}
         /\ Crossed(e, queued) \in EngineType
         /\ \A l \in ListenerType :
              HearsAt(e.playing, e.outgoing, e.playing.written - Len(a), l)
                => HearsAt(e.playing, Crossed(e, queued).outgoing, e.playing.written - Len(a), l)
         /\ Crossed(e, queued).outgoing # NoOutgoing /\ e.sink
              => e.playing.written - Len(a) <= e.playing.leadIn
<1> DEFINE c == Crossed(e, queued)
           p == e.playing
           out == e.outgoing
<1>1. /\ p \in PlayingType /\ out \in [at : Nat, end : Nat] /\ e.sink \in BOOLEAN
      /\ p.written \in Nat /\ p.leadIn \in Nat /\ Len(a) \in Nat
  BY LenProperties DEF EngineType, PlayingType
<1>2. CASE out # NoOutgoing /\ e.sink /\ p.written - Len(a) >= p.leadIn
  <2>1. c = [e EXCEPT !.outgoing = NoOutgoing]
    BY <1>2 DEF Crossed
  <2>2. /\ c.playing = p /\ c.state = e.state /\ c.busy = e.busy /\ c.loading = e.loading
        /\ c.outgoing = NoOutgoing /\ c.sink = e.sink /\ c \in EngineType
    BY <2>1, NothingPlaying DEF EngineType
  <2>3. e.state \in OnTrack /\ out.at \in Places
    BY <1>2 DEF TrackBase
  <2>4. TapeGood(p, out, a)
    BY <2>3 DEF Good
  <2>5. p.leadIn + Len(a) <= p.written
    BY <1>1, <1>2
  <2>6. /\ TapeGood(p, NoOutgoing, a)
        /\ \A l \in ListenerType : HearsAt(p, out, p.written - Len(a), l)
                                     => HearsAt(p, NoOutgoing, p.written - Len(a), l)
    BY <1>1, <1>2, <2>3, <2>4, <2>5, CrossedTape
  <2> HIDE DEF c
  <2>7. Good(c, d, a)
    BY <2>2, <2>6 DEF Good
  <2> QED BY <2>2, <2>6, <2>7 DEF c
<1>3. CASE ~(out # NoOutgoing /\ e.sink /\ p.written - Len(a) >= p.leadIn)
  <2>1. c = e
    BY <1>3 DEF Crossed
  <2>2. out # NoOutgoing /\ e.sink => p.written - Len(a) <= p.leadIn
    BY <1>1, <1>3
  <2> QED BY <2>1, <2>2
<1> QED BY <1>2, <1>3

LEMMA CrossedFits ==
  ASSUME NEW e \in EngineType, TrackBase(e), NEW d, NEW a \in Seq(Frame),
         Len(a) <= e.playing.written, NEW l \in ListenerType, Fits(e, d, a, l), ~GivesUp(e),
         NEW queued, Heard(e, queued) = e.playing.written - Len(a)
  PROVE  Fits(Crossed(e, queued), d, a, l) /\ ~GivesUp(Crossed(e, queued))
<1> DEFINE c == Crossed(e, queued)
<1>1. /\ Good(c, d, a) /\ c.playing = e.playing /\ c.state = e.state /\ c.busy = e.busy
      /\ c.loading = e.loading
      /\ HearsAt(e.playing, e.outgoing, e.playing.written - Len(a), l)
           => HearsAt(e.playing, c.outgoing, e.playing.written - Len(a), l)
  BY CrossedGood DEF Fits
<1> HIDE DEF c
<1>2. ~GivesUp(c)
  BY <1>1 DEF GivesUp
<1>3. Follows(c, a, l)
  BY <1>1, <1>2 DEF Follows, Fits
<1> QED BY <1>1, <1>2, <1>3 DEF Fits, c


---------------------------------------------------------------------------
(* What is heard next is the next frame.                                   *)

LEMMA InvFacts ==
  ASSUME Inv
  PROVE  /\ InvBase /\ Base(engine, download, output) /\ BusyGood(engine, output)
         /\ engine \in EngineType /\ engine.playing \in PlayingType /\ output \in OutputType
         /\ engine.outgoing \in [at : Nat, end : Nat] /\ engine.sink \in BOOLEAN
         /\ download \in DownloadType /\ listener \in ListenerType /\ TrackBase(engine)
         /\ Held(Line(output), output.silent, Audio(output))
         /\ Audio(output) \in Seq(Frame) /\ Len(Audio(output)) \in Nat
         /\ Len(Audio(output)) <= engine.playing.written /\ engine.playing.written \in Nat
         /\ Delay(output) = Len(Audio(output))
         /\ Heard(engine, Delay(output)) = engine.playing.written - Len(Audio(output))
         /\ Fits(engine, download, Audio(output), listener)
         /\ listener.position <= Length[listener.at]
<1> DEFINE p == engine.playing
           a == Audio(output)
<1>1. /\ InvBase /\ Base(engine, download, output) /\ BusyGood(engine, output)
      /\ engine \in EngineType /\ p \in PlayingType /\ output \in OutputType
      /\ engine.outgoing \in [at : Nat, end : Nat] /\ engine.sink \in BOOLEAN
      /\ download \in DownloadType /\ listener \in ListenerType /\ TrackBase(engine)
      /\ Held(Line(output), output.silent, a) /\ Len(a) <= p.written /\ p.written \in Nat
      /\ Fits(engine, download, a, listener)
  BY DEF Inv, InvBase, Base, SoundBase, EngineType, PlayingType
<1>2. a \in Seq(Frame) /\ Len(a) \in Nat /\ Delay(output) = Len(a)
  BY <1>1, AudioProperties
<1> HIDE DEF a
<1>3. Heard(engine, Delay(output)) = p.written - Len(a)
  <2>1. \A m, n \in Nat : n <= m => Less(m, n) = m - n
    BY DEF Less
  <2> QED BY <1>1, <1>2, <2>1 DEF Heard
<1>4. listener.position <= Length[listener.at]
  BY <1>1 DEF Fits, Follows
<1> QED BY <1>1, <1>2, <1>3, <1>4 DEF a

LEMMA FirstOfTape ==
  ASSUME NEW p \in PlayingType, NEW out, NEW a \in Seq(Frame), Len(a) <= p.written, a # <<>>,
         TapeGood(p, out, a)
  PROVE  a[1] = FrameAt(p, out, (p.written - Len(a)) + 1)
<1> DEFINE h == p.written - Len(a)
<1>1. Len(a) \in Nat /\ Len(a) # 0 /\ p.written \in Nat
  BY LenProperties, EmptySeq DEF PlayingType
<1>2. 1 \in 1..Len(a) /\ h \in Nat /\ h + 1 \in Nat
  BY <1>1
<1>3. Runs(a, Tape(p, out), h)
  BY DEF TapeGood
<1> HIDE DEF h
<1>4. a[1] = Tape(p, out)[h + 1]
  BY <1>2, <1>3 DEF Runs
<1> QED BY <1>2, <1>4, TapeAt DEF h

LEMMA HearsAFrame ==
  ASSUME NEW p \in PlayingType, NEW out \in [at : Nat, end : Nat], NEW a \in Seq(Frame),
         Len(a) <= p.written, a # <<>>, TapeGood(p, out, a),
         p.at \in Places, out # NoOutgoing => out.at \in Places,
         NEW l \in ListenerType, HearsAt(p, out, p.written - Len(a), l),
         NEW m \in ListenerType, m.at = a[1][1], m.position = a[1][2] + 1
  PROVE  /\ HearsAt(p, out, (p.written - Len(a)) + 1, m)
         /\ HearsOn(l, m) \/ HearsTheNext(l, m)
         /\ m.position <= Length[m.at]
<1> DEFINE n == Len(a)
           h == p.written - n
           k == Len(p.pending)
<1>1. /\ n \in Nat /\ n # 0 /\ p.written \in Nat /\ p.leadIn \in Nat /\ p.base \in Nat
      /\ p.at \in Nat /\ out.at \in Nat /\ out.end \in Nat /\ k \in Nat
      /\ p.next \in Nat /\ p.skip \in Nat /\ l.at \in Nat /\ l.position \in Nat
      /\ l.at \in Places
  <2>1. n \in Nat /\ n # 0
    BY LenProperties, EmptySeq
  <2>2. k \in Nat
    <3>1. p.pending \in Seq(Frame)
      BY DEF PlayingType
    <3> QED BY <3>1, LenProperties
  <2>3. l.at \in Nat /\ l.position \in Nat /\ l.at \in Places
    BY Sizes DEF ListenerType
  <2>4. /\ p.written \in Nat /\ p.leadIn \in Nat /\ p.base \in Nat /\ p.at \in Nat
        /\ p.next \in Nat /\ p.skip \in Nat /\ out.at \in Nat /\ out.end \in Nat
    BY DEF PlayingType
  <2> QED BY <2>1, <2>2, <2>3, <2>4
<1>2. h \in Nat /\ h + 1 <= p.written /\ h + n = p.written
  <2>1. \A x, y \in Nat : y <= x /\ y # 0 => x - y \in Nat /\ (x - y) + 1 <= x /\ (x - y) + y = x
    OBVIOUS
  <2> QED BY <1>1, <2>1
<1>3. a[1] = FrameAt(p, out, h + 1)
  BY FirstOfTape
<1>4. CountsGood(p, out, n)
  BY DEF TapeGood
<1>5. Length[p.at] \in Nat \ {0} /\ \A i \in Places : Length[i] \in Nat \ {0}
  BY Sizes
<1> HIDE DEF k, h, n
<1>6. CASE out # NoOutgoing /\ h + 1 <= p.leadIn
  <2>1. /\ p.at = out.at + 1 /\ out.end = Length[out.at] /\ out.at \in Places
        /\ p.leadIn + n <= out.end + p.written
    BY <1>4, <1>6 DEF CountsGood
  <2>2. p.leadIn <= out.end + h /\ h <= p.leadIn
    <3>1. \A c, x, y, z, w \in Nat :
            c + x <= y + w /\ z + x = w /\ z + 1 <= c => c <= y + z /\ z <= c
      OBVIOUS
    <3> QED BY <1>1, <1>2, <1>6, <2>1, <3>1
  <2> DEFINE j == (out.end + h) - p.leadIn
  <2>3. /\ j \in Nat /\ j < out.end /\ (out.end + (h + 1)) - p.leadIn = j + 1
        /\ (out.end + (h + 1)) - (p.leadIn + 1) = j
    <3> DEFINE c == p.leadIn
               y == out.end
    <3>1. c \in Nat /\ y \in Nat /\ h \in Nat /\ c <= y + h /\ h + 1 <= c
      BY <1>1, <1>2, <1>6, <2>2
    <3> HIDE DEF c, y
    <3>2. /\ (y + h) - c \in Nat /\ (y + h) - c < y /\ (y + (h + 1)) - c = ((y + h) - c) + 1
          /\ (y + (h + 1)) - (c + 1) = (y + h) - c
      BY <3>1
    <3> QED BY <3>2 DEF c, y
  <2>4. IsAt(l, out.at, j)
    BY <1>6, <2>2 DEF HearsAt, h, n
  <2> HIDE DEF j
  <2>5. m.at = out.at /\ m.position = j + 1
    BY <1>3, <1>6, <2>3 DEF FrameAt
  <2>6. HearsAt(p, out, h + 1, m)
    BY <1>6, <2>3, <2>5 DEF HearsAt, IsAt
  <2>7. m.position <= Length[m.at]
    BY <1>1, <2>1, <2>3, <2>5
  <2>8. HearsOn(l, m) \/ HearsTheNext(l, m)
    <3>1. CASE l.at = out.at /\ l.position = j
      BY <2>1, <2>3, <2>5, <3>1 DEF HearsOn
    <3>2. CASE j = 0 /\ out.at = l.at + 1 /\ l.position = Length[l.at]
      <4>1. l.at < Len(Length)
        BY <1>1, <2>1, <3>2, Sizes
      <4> QED BY <2>5, <3>2, <4>1 DEF HearsTheNext
    <3> QED BY <2>4, <3>1, <3>2 DEF IsAt
  <2> QED BY <2>6, <2>7, <2>8 DEF h, n
<1>7. CASE ~(out # NoOutgoing /\ h + 1 <= p.leadIn)
  <2> DEFINE j == (p.base + h) - p.leadIn
  <2>1. p.leadIn <= h
    <3>1. out = NoOutgoing => p.leadIn + n <= p.written
      BY <1>4 DEF CountsGood
    <3> QED BY <1>1, <1>2, <1>7, <3>1
  <2>2. p.source
    <3>1. ~p.source => p.written = 0
      BY <1>4 DEF CountsGood
    <3>2. \A x, y \in Nat : x + 1 <= y => y # 0
      OBVIOUS
    <3>3. p.written # 0
      BY <1>1, <1>2, <3>2
    <3> QED BY <3>1, <3>3
  <2>3. /\ j \in Nat /\ (p.base + (h + 1)) - p.leadIn = j + 1
        /\ (p.base + (h + 1)) - (p.leadIn + 1) = j
    <3> DEFINE c == p.leadIn
               y == p.base
    <3>1. c \in Nat /\ y \in Nat /\ h \in Nat /\ c <= h
      BY <1>1, <1>2, <2>1
    <3> HIDE DEF c, y
    <3>2. /\ (y + h) - c \in Nat /\ (y + (h + 1)) - c = ((y + h) - c) + 1
          /\ (y + (h + 1)) - (c + 1) = (y + h) - c
      BY <3>1
    <3> QED BY <3>2 DEF c, y
  <2>4. j < Length[p.at]
    <3>1. p.next + p.skip <= Length[p.at] /\ p.next + p.skip + p.leadIn = p.base + p.written + k
      BY <1>4, <2>2 DEF CountsGood, k
    <3>2. \A c, x, y, z, w, r, q, t \in Nat :
            x + y <= t /\ x + y + c = z + w + r /\ q + 1 <= w /\ c <= q => (z + q) - c < t
      OBVIOUS
    <3> QED BY <1>1, <1>2, <1>5, <2>1, <3>1, <3>2
  <2> HIDE DEF j
  <2>5. m.at = p.at /\ m.position = j + 1
    BY <1>3, <1>7, <2>3 DEF FrameAt
  <2>6. HearsAt(p, out, h + 1, m)
    BY <1>7, <2>3, <2>5 DEF HearsAt, IsAt
  <2>7. m.position <= Length[m.at]
    BY <1>5, <2>3, <2>4, <2>5
  <2>8. HearsOn(l, m) \/ HearsTheNext(l, m)
    <3>1. CASE out # NoOutgoing /\ h <= p.leadIn
      <4>1. /\ p.at = out.at + 1 /\ out.end = Length[out.at] /\ p.base = 0 /\ out.at \in Places
        BY <1>4, <3>1 DEF CountsGood
      <4>2. h = p.leadIn
        BY <1>1, <1>2, <2>1, <3>1
      <4>3. j = 0 /\ (out.end + h) - p.leadIn = out.end
        <5>1. \A c, y \in Nat : (0 + c) - c = 0 /\ (y + c) - c = y
          OBVIOUS
        <5> QED BY <1>1, <4>1, <4>2, <5>1 DEF j
      <4>4. IsAt(l, out.at, out.end)
        BY <3>1, <4>3 DEF HearsAt, h, n
      <4>5. l.at = out.at /\ l.position = Length[out.at]
        BY <1>5, <4>1, <4>4 DEF IsAt
      <4>6. l.at < Len(Length)
        BY <1>1, <4>1, <4>5, Sizes
      <4> QED BY <2>5, <4>1, <4>3, <4>5, <4>6 DEF HearsTheNext
    <3>2. CASE ~(out # NoOutgoing /\ h <= p.leadIn)
      <4>1. IsAt(l, p.at, j)
        BY <3>2 DEF HearsAt, h, n, j
      <4>2. CASE l.at = p.at /\ l.position = j
        BY <2>4, <2>5, <4>2 DEF HearsOn
      <4>3. CASE j = 0 /\ p.at = l.at + 1 /\ l.position = Length[l.at]
        <5>1. l.at < Len(Length)
          BY <1>1, <4>3, Sizes
        <5> QED BY <2>5, <4>3, <5>1 DEF HearsTheNext
      <4> QED BY <4>1, <4>2, <4>3 DEF IsAt
    <3> QED BY <3>1, <3>2
  <2> QED BY <2>6, <2>7, <2>8 DEF h, n
<1> QED BY <1>6, <1>7

(* A listener who hears on, or is made to, is at a track of the list.      *)
LEMMA HeardLeaps ==
  ASSUME NEW l \in ListenerType, NEW m \in ListenerType, HearsOn(l, m) \/ HearsTheNext(l, m),
         m.position <= Length[m.at]
  PROVE  Leaps(l, m)
<1>1. l.at \in Nat /\ m.at \in Places /\ m.position \in Nat /\ Length[m.at] \in Nat
  BY Sizes DEF ListenerType
<1>2. m.at \in l.at - 1 .. l.at + 2
  BY <1>1 DEF HearsOn, HearsTheNext
<1>3. m.position \in 0..Length[m.at]
  BY <1>1
<1> QED BY <1>1, <1>2, <1>3 DEF Leaps


---------------------------------------------------------------------------
(* The server, and the download.                                           *)

LEMMA StandsStill ==
  ASSUME Inv, engine' = engine, download' = download, Audio(output') = Audio(output),
         listener' = listener
  PROVE  GoesOn
BY DEF Inv, GoesOn, Listens

LEMMA PullGoesOn ==
  ASSUME Inv, Pull
  PROVE  GoesOn
BY StandsStill, PulledSound DEF Inv

LEMMA ServerGoesOn ==
  ASSUME Inv, RunDry \/ GoAway
  PROVE  GoesOn
<1>1. output \in OutputType
  BY InvFacts
<1>2. output'.ring = output.ring /\ output'.server = output.server /\ output'.silent = output.silent
  <2>1. CASE RunDry
    BY <1>1, <2>1 DEF RunDry, OutputType
  <2>2. CASE GoAway
    <3>1. PICK how \in {"said", "unsaid"} : output' = [output EXCEPT !.gone = how]
      BY <2>2 DEF GoAway
    <3> QED BY <1>1, <3>1 DEF OutputType
  <2> QED BY <2>1, <2>2
<1>3. Audio(output') = Audio(output)
  BY <1>2 DEF Audio, Line
<1>4. engine' = engine /\ download' = download /\ listener' = listener
  BY DEF RunDry, GoAway
<1> QED BY <1>3, <1>4, StandsStill

(* Where a jump or a step of the listener leads.                           *)
LEMMA ListenerFields ==
  ASSUME listener \in ListenerType, NEW i, NEW x
  PROVE  /\ Jumped(i, x).at = i /\ Jumped(i, x).position = x
         /\ Jumped(i, x).jumps + Jumped(i, x).lost = listener.jumps + listener.lost + 1
         /\ [listener EXCEPT !.at = i, !.position = x].at = i
         /\ [listener EXCEPT !.at = i, !.position = x].position = x
         /\ [listener EXCEPT !.at = i, !.position = x].jumps = listener.jumps
         /\ [listener EXCEPT !.at = i, !.position = x].lost = listener.lost
         /\ [listener EXCEPT !.at = i, !.position = x, !.lost = @ + 1].at = i
         /\ [listener EXCEPT !.at = i, !.position = x, !.lost = @ + 1].position = x
         /\ [listener EXCEPT !.at = i, !.position = x, !.lost = @ + 1].lost = listener.lost + 1
         /\ [listener EXCEPT !.at = i, !.position = x, !.lost = @ + 1].jumps
              + [listener EXCEPT !.at = i, !.position = x, !.lost = @ + 1].lost
              = listener.jumps + listener.lost + 1
<1>1. listener.jumps \in Nat /\ listener.lost \in Nat
  BY DEF ListenerType
<1>2. /\ Jumped(i, x).at = i /\ Jumped(i, x).position = x
      /\ Jumped(i, x).jumps = listener.jumps + 1 /\ Jumped(i, x).lost = listener.lost
  BY DEF Jumped, ListenerType
<1>3. \A m, n \in Nat : (m + 1) + n = m + n + 1 /\ m + (n + 1) = m + n + 1
  OBVIOUS
<1>4. Jumped(i, x).jumps + Jumped(i, x).lost = listener.jumps + listener.lost + 1
  BY <1>1, <1>2, <1>3
<1>5. /\ [listener EXCEPT !.at = i, !.position = x].at = i
      /\ [listener EXCEPT !.at = i, !.position = x].position = x
      /\ [listener EXCEPT !.at = i, !.position = x].jumps = listener.jumps
      /\ [listener EXCEPT !.at = i, !.position = x].lost = listener.lost
  BY DEF ListenerType
<1> DEFINE m == [listener EXCEPT !.at = i, !.position = x, !.lost = @ + 1]
<1>6. m.at = i /\ m.position = x /\ m.lost = listener.lost + 1 /\ m.jumps = listener.jumps
  BY DEF ListenerType
<1> HIDE DEF m
<1>7. m.jumps + m.lost = listener.jumps + listener.lost + 1
  BY <1>1, <1>3, <1>6
<1> QED BY <1>2, <1>4, <1>5, <1>6, <1>7 DEF m

LEMMA TailIsPart ==
  ASSUME NEW a \in Seq(Frame), a # <<>>
  PROVE  SubSeq(a, 2, Len(a)) = Tail(a)
<1> DEFINE t == Tail(a)
           u == SubSeq(a, 2, Len(a))
           n == Len(a)
<1>1. n \in Nat /\ n # 0
  BY LenProperties, EmptySeq
<1>2. /\ t \in Seq(Frame) /\ Len(t) = n - 1
      /\ \A i \in 1..Len(t) : t[i] = a[i + 1]
  BY HeadTailProperties
<1>3. u \in Seq(Frame) /\ Len(u) = n - 1 /\ \A j \in 1..(n - 1) : u[j] = a[j + 1]
  <2>1. ASSUME NEW k \in Nat, k = 1
        PROVE  /\ SubSeq(a, k + 1, n) \in Seq(Frame) /\ Len(SubSeq(a, k + 1, n)) = n - k
               /\ \A j \in 1..(n - k) : SubSeq(a, k + 1, n)[j] = a[j + k]
    <3>1. k \in 0..n
      BY <1>1, <2>1
    <3> QED BY <3>1, AfterProperties
  <2>2. ASSUME NEW k \in Nat, k = 1 PROVE k + 1 = 2
    BY <2>2
  <2>3. ASSUME NEW k \in Nat, k = 1
        PROVE  u \in Seq(Frame) /\ Len(u) = n - 1 /\ \A j \in 1..(n - 1) : u[j] = a[j + 1]
    <3>1. SubSeq(a, k + 1, n) = u
      BY <2>2, <2>3
    <3> QED BY <2>1, <2>3, <3>1
  <2> QED BY <2>3
<1> HIDE DEF t, u, n
<1>4. u = t
  BY <1>2, <1>3, SeqEqual
<1> QED BY <1>4 DEF t, u

LEMMA PlayGoesOn ==
  ASSUME Inv, Play
  PROVE  GoesOn
<1> DEFINE frame == Head(output.server)
           p == engine.playing
           out == engine.outgoing
           a == Audio(output)
           b == Tail(a)
<1>1. /\ output \in OutputType /\ Held(Line(output), output.silent, a)
      /\ OutputGood(engine.sink, output) /\ engine.sink \in BOOLEAN
  BY InvFacts DEF Base
<1>2. /\ output' = [output EXCEPT !.server = Tail(output.server), !.silent = Less(output.silent, 1),
                                  !.dry = Less(output.dry, 1)]
      /\ output.server # <<>>
      /\ engine' = engine /\ download' = download
      /\ listener' = IF frame = Hush THEN listener
                     ELSE IF output.dry > 0 THEN Jumped(frame[1], frame[2] + 1)
                     ELSE [listener EXCEPT !.at = frame[1], !.position = frame[2] + 1]
  BY DEF Play
<1>3. /\ Audio(output') = IF output.silent = 0 THEN b ELSE a
      /\ output.silent = 0 => a # <<>> /\ frame = a[1]
      /\ output.silent > 0 => frame = Hush
  BY <1>1, <1>2, PlayedOutput
<1>4. output.silent \in Nat
  BY <1>1 DEF OutputType
<1> HIDE DEF a, b, frame
<1>5. CASE output.silent > 0
  <2>1. Audio(output') = Audio(output) /\ listener' = listener
    BY <1>2, <1>3, <1>4, <1>5 DEF a
  <2> QED BY <1>2, <2>1, StandsStill
<1>6. CASE output.silent = 0
  <2>1. a # <<>> /\ frame = a[1] /\ Audio(output') = b
    BY <1>3, <1>6
  <2>2. /\ engine \in EngineType /\ p \in PlayingType /\ out \in [at : Nat, end : Nat]
        /\ listener \in ListenerType /\ TrackBase(engine) /\ a \in Seq(Frame) /\ Len(a) \in Nat
        /\ Len(a) <= p.written /\ p.written \in Nat /\ Fits(engine, download, a, listener)
    BY InvFacts DEF a
  <2>3. Len(a) # 0
    BY <2>1, <2>2, EmptySeq
  <2>4. engine.state \in OnTrack
    <3>1. p.written # 0
      BY <2>2, <2>3
    <3> QED BY <2>2, <3>1, NothingPlaying DEF TrackBase
  <2>5. p.at \in Places /\ (out # NoOutgoing => out.at \in Places) /\ TapeGood(p, out, a)
    BY <2>2, <2>4 DEF TrackBase, Fits, Good
  <2>6. ~GivesUp(engine)
    <3>1. p.done /\ p.pending # <<>> => p.written = 0
      BY <2>5 DEF TapeGood, CountsGood
    <3>2. engine.busy = "draining" => p.done
      BY InvFacts DEF BusyGood
    <3> QED BY <2>2, <2>3, <3>1, <3>2 DEF GivesUp
  <2>7. HearsAt(p, out, p.written - Len(a), listener)
    BY <2>2, <2>4, <2>6 DEF Fits, Follows
  <2>8. frame # Hush
    <3>1. Real(a) /\ 1 \in 1..Len(a)
      <4>1. p.recent \in Seq(Frame) /\ Real(p.recent) /\ Kept(p.recent, a)
        BY InvFacts DEF Base, SoundBase, a, PlayingType
      <4> QED BY <2>2, <2>3, <4>1, RealKept
    <3>2. frame[1] \in Places
      BY <2>1, <3>1 DEF Real
    <3> QED BY <3>2, Sizes DEF Hush
  <2>9. listener' \in ListenerType /\ listener'.at = a[1][1] /\ listener'.position = a[1][2] + 1
    <3>1. listener' \in ListenerType
      BY PlayBase DEF Inv, InvBase
    <3> QED BY <1>2, <2>1, <2>2, <2>8, <3>1, ListenerFields
  <2>10. /\ HearsAt(p, out, (p.written - Len(a)) + 1, listener')
         /\ HearsOn(listener, listener') \/ HearsTheNext(listener, listener')
         /\ listener'.position <= Length[listener'.at]
    BY <2>1, <2>2, <2>5, <2>7, <2>9, HearsAFrame
  <2>11. Listens(listener, listener')
    <3>1. CASE output.dry > 0
      <4>1. listener'.jumps + listener'.lost = listener.jumps + listener.lost + 1
        BY <1>2, <2>2, <2>8, <3>1, ListenerFields
      <4> QED BY <2>2, <2>9, <2>10, <4>1, HeardLeaps DEF Listens
    <3>2. CASE ~(output.dry > 0)
      <4>1. listener'.jumps + listener'.lost = listener.jumps + listener.lost
        BY <1>2, <2>2, <2>8, <3>2, ListenerFields
      <4> QED BY <2>10, <4>1 DEF Listens
    <3> QED BY <3>1, <3>2
  <2>12. /\ b \in Seq(Frame) /\ Len(b) = Len(a) - 1
         /\ p.written - Len(b) = (p.written - Len(a)) + 1
    <3>1. b \in Seq(Frame) /\ Len(b) = Len(a) - 1
      BY <2>1, <2>2, HeadTailProperties DEF b
    <3>2. \A m, n \in Nat : m - (n - 1) = (m - n) + 1
      OBVIOUS
    <3> QED BY <2>2, <3>1, <3>2
  <2>13. TapeGood(p, out, b)
    <3>1. Len(a) - 1 \in 0..Len(a) /\ (Len(a) - (Len(a) - 1)) + 1 = 2
      BY <2>2, <2>3
    <3>2. SubSeq(a, 2, Len(a)) = b
      BY <2>1, <2>2, TailIsPart DEF b
    <3>3. TapeGood(p, out, SubSeq(a, (Len(a) - (Len(a) - 1)) + 1, Len(a)))
      BY <2>2, <2>5, <3>1, TapeHeard
    <3> QED BY <3>1, <3>2, <3>3
  <2>14. Fits(engine, download, b, listener')
    <3>1. Good(engine, download, b)
      BY <2>2, <2>13 DEF Fits, Good
    <3>2. engine.state # "Loading"
      BY <2>4 DEF OnTrack
    <3> QED BY <2>6, <2>10, <2>12, <3>1, <3>2 DEF Fits, Follows
  <2> QED BY <1>2, <2>1, <2>11, <2>14 DEF GoesOn
<1> QED BY <1>4, <1>5, <1>6

LEMMA FetchGoesOn ==
  ASSUME Inv, Fetch
  PROVE  GoesOn
<1>1. engine' = engine /\ output' = output /\ listener' = listener
  BY DEF Fetch
<1>2. /\ Fits(engine, download, Audio(output), listener) /\ download \in DownloadType
      /\ engine.playing.at \in Places
  BY InvFacts, NothingPlaying DEF Fetch, TrackBase, NoTrack
<1>3. download.avail <= Length[engine.playing.at] => download'.avail <= Length[engine.playing.at]
  <2> DEFINE reach == (download.avail \div Segment + 1) * Segment
             end == Length[engine.playing.at]
  <2>1. \/ download' = [download EXCEPT !.avail = AtMost(reach, end)]
        \/ download' = [download EXCEPT !.ended = "error"]
    BY DEF Fetch
  <2>2. download'.avail \in {AtMost(reach, end), download.avail}
    <3> HIDE DEF reach, end
    <3> QED BY <1>2, <2>1 DEF DownloadType
  <2>3. reach \in Nat /\ end \in Nat
    <3>1. \A x \in Nat, y \in Nat \ {0} : (x \div y + 1) * y \in Nat
      <4>1. \A x \in Nat, y \in Nat \ {0} : x \div y \in Nat
        OBVIOUS
      <4>2. \A x, y \in Nat : (x + 1) * y \in Nat
        OBVIOUS
      <4> QED BY <4>1, <4>2
    <3> QED BY <1>2, <3>1, Sizes DEF DownloadType
  <2> HIDE DEF reach, end
  <2>4. AtMost(reach, end) <= end
    BY <2>3 DEF AtMost
  <2> QED BY <2>2, <2>4 DEF end
<1>4. Fits(engine, download', Audio(output), listener)
  BY <1>2, <1>3 DEF Fits, Good
<1> QED BY <1>1, <1>4 DEF GoesOn, Listens


---------------------------------------------------------------------------
(* The end of a track, and the one after it.                               *)

(* A track from where it was started or sought.                            *)
LEMMA NewTape ==
  ASSUME NEW p \in PlayingType, p.at \in Places, p.written = 0, p.leadIn = 0, p.pending = <<>>,
         p.done = FALSE, p.source => p.next + p.skip = p.base /\ p.base <= Length[p.at],
         ~p.source => p.base < Length[p.at]
  PROVE  /\ TapeGood(p, NoOutgoing, <<>>)
         /\ \A l : IsAt(l, p.at, p.base) => HearsAt(p, NoOutgoing, p.written - Len(<<>>), l)
<1>1. Len(<<>>) = 0 /\ p.base \in Nat /\ p.next + p.skip \in Nat
  BY EmptySeq DEF PlayingType
<1>2. /\ Runs(<<>>, Tape(p, NoOutgoing), p.written - Len(<<>>))
      /\ Runs(p.pending, Tape(p, NoOutgoing), p.written)
  BY RunsEmpty
<1>3. CountsGood(p, NoOutgoing, 0)
  <2>1. \A x \in Nat : x + 0 = x /\ x + 0 + 0 = x
    OBVIOUS
  <2>2. p.source => p.next + p.skip <= Length[p.at] /\ p.next + p.skip + 0 = p.base + 0 + 0
    BY <1>1, <2>1
  <2> QED BY <1>1, <2>2 DEF CountsGood
<1>4. (p.base + 0) - 0 = p.base /\ p.written - Len(<<>>) = 0
  <2>1. \A x \in Nat : (x + 0) - 0 = x
    OBVIOUS
  <2>2. p.written - Len(<<>>) = 0 - 0
    BY <1>1
  <2> QED BY <1>1, <2>1, <2>2
<1>5. \A l : IsAt(l, p.at, p.base) => HearsAt(p, NoOutgoing, p.written - Len(<<>>), l)
  BY <1>4 DEF HearsAt
<1> QED BY <1>1, <1>2, <1>3, <1>5 DEF TapeGood

LEMMA HandedOverFields ==
  ASSUME NEW e \in EngineType, e.playing.at \in Places, e.playing.at < Len(Length)
  PROVE  LET p == e.playing
             f == HandedOver(e)
             q == HandedOver(e).playing
         IN /\ q \in PlayingType /\ q.at = p.at + 1 /\ q.at \in Places
            /\ q.source = TRUE /\ q.skip = 0 /\ q.base = 0 /\ q.done = FALSE
            /\ q.written = p.written /\ q.leadIn = p.written /\ q.next \in Nat
            /\ q.next <= Length[q.at] /\ Len(q.pending) = q.next
            /\ q.pending = Frames(q.at, 0, q.next)
            /\ f.outgoing = [at |-> p.at, end |-> p.base + Less(p.written, p.leadIn)]
            /\ f.outgoing \in [at : Nat, end : Nat] /\ f.outgoing # NoOutgoing
            /\ f.state = e.state /\ f.sink = e.sink /\ f.busy = "no" /\ f.loading = e.loading
            /\ f \in EngineType
            /\ q.next = AtMost(Chunk, Length[q.at])
<1> DEFINE p == e.playing
           first == AtMost(Chunk, Length[p.at + 1])
           new == Frames(p.at + 1, 0, first)
           out == [at |-> p.at, end |-> p.base + Less(p.written, p.leadIn)]
           f == HandedOver(e)
<1>1. /\ p \in PlayingType /\ p.at \in Nat /\ p.at # 0
      /\ p.recent \in Seq(Frame) /\ p.written \in Nat /\ p.base \in Nat /\ p.leadIn \in Nat
  <2>1. /\ p \in PlayingType /\ p.recent \in Seq(Frame) /\ p.written \in Nat /\ p.base \in Nat
        /\ p.leadIn \in Nat
    BY DEF EngineType, PlayingType
  <2>2. p.at \in Nat /\ p.at # 0
    BY Sizes
  <2> QED BY <2>1, <2>2
<1>2. p.at + 1 \in Places /\ p.at + 1 \in Nat
  BY <1>1, Sizes
<1>3. first \in Nat /\ first <= Length[p.at + 1]
  <2>1. Chunk \in Nat /\ Length[p.at + 1] \in Nat
    BY <1>2, Sizes
  <2> QED BY <2>1 DEF AtMost
<1>4. new \in Seq(Frame) /\ Len(new) = first
  <2> HIDE DEF first
  <2>1. Less(first, 0) = first
    BY <1>3 DEF Less
  <2> QED BY <1>2, <1>3, <2>1, RealFrames
<1>5. out \in [at : Nat, end : Nat] /\ out # NoOutgoing
  <2>1. Less(p.written, p.leadIn) \in Nat
    BY <1>1 DEF Less
  <2>2. p.base + Less(p.written, p.leadIn) \in Nat
    BY <1>1, <2>1
  <2>3. out.at # NoOutgoing.at
    BY <1>1 DEF NoOutgoing
  <2> QED BY <1>1, <2>2, <2>3
<1> HIDE DEF first, new
<1> DEFINE st == Started(p.at + 1)
           q == [st EXCEPT !.next = first, !.pending = new, !.recent = p.recent,
                           !.sinkPaused = p.sinkPaused, !.written = p.written,
                           !.leadIn = p.written]
<1>6. f = [e EXCEPT !.busy = "no", !.outgoing = out, !.playing = q]
  BY DEF HandedOver, first, new
<1>7. /\ st \in PlayingType /\ st.at = p.at + 1 /\ st.source = TRUE /\ st.skip = 0
      /\ st.base = 0 /\ st.done = FALSE
  BY <1>2, NothingPlaying DEF Started, NoTrack, PlayingType
<1> HIDE DEF st
<1>8. /\ q \in PlayingType
      /\ q.at = p.at + 1 /\ q.source = TRUE /\ q.next = first /\ q.skip = 0 /\ q.pending = new
      /\ q.written = p.written /\ q.base = 0 /\ q.leadIn = p.written /\ q.done = FALSE
  <2>1. p.sinkPaused \in BOOLEAN
    BY <1>1 DEF PlayingType
  <2> QED BY <1>1, <1>3, <1>4, <1>7, <2>1 DEF PlayingType
<1> HIDE DEF q, out, f
<1>9. /\ f \in EngineType /\ f.state = e.state /\ f.sink = e.sink /\ f.busy = "no"
      /\ f.loading = e.loading /\ f.outgoing = out /\ f.playing = q
  BY <1>5, <1>6, <1>8 DEF EngineType
<1> QED BY <1>2, <1>3, <1>4, <1>5, <1>8, <1>9 DEF f, out, first, new

(* A track is joined by the next where its last frame was written.         *)
LEMMA JoinedTape ==
  ASSUME NEW p \in PlayingType, NEW a \in Seq(Frame), Len(a) <= p.written, p.at \in Places,
         TapeGood(p, NoOutgoing, a), p.done, p.pending = <<>>,
         NEW q \in PlayingType, q.at = p.at + 1, q.source = TRUE, q.skip = 0, q.base = 0,
         q.done = FALSE, q.written = p.written, q.leadIn = p.written, q.at \in Places,
         q.next <= Length[q.at], Len(q.pending) = q.next, q.pending = Frames(q.at, 0, q.next),
         NEW out \in [at : Nat, end : Nat], out # NoOutgoing,
         out.at = p.at, out.end = p.base + Less(p.written, p.leadIn)
  PROVE  /\ TapeGood(q, out, a)
         /\ \A l : HearsAt(p, NoOutgoing, p.written - Len(a), l)
                     => HearsAt(q, out, q.written - Len(a), l)
<1> DEFINE n == Len(a)
           w == p.written
           c == p.leadIn
           y == p.base
           h == w - n
           z == Length[p.at]
<1>1. /\ n \in Nat /\ w \in Nat /\ c \in Nat /\ y \in Nat /\ n <= w /\ z \in Nat
      /\ q.next \in Nat /\ p.skip \in Nat /\ p.next \in Nat
  BY LenProperties, Sizes DEF PlayingType
<1>2. CountsGood(p, NoOutgoing, n) /\ Runs(a, Tape(p, NoOutgoing), h)
  BY DEF TapeGood
<1>3. c + n <= w /\ y + w = z + c
  <2>1. /\ p.source /\ p.next = z /\ p.next + p.skip <= z
        /\ p.next + p.skip + c = y + w + Len(p.pending) /\ c + n <= w
    BY <1>2 DEF CountsGood
  <2>2. Len(p.pending) = 0
    BY EmptySeq
  <2> HIDE DEF n, w, c, y, z
  <2> DEFINE s == p.skip
  <2>3. s \in Nat /\ z + s <= z /\ z + s + c = y + w + 0
    BY <1>1, <2>1, <2>2
  <2> HIDE DEF s
  <2>4. c + n <= w
    BY <2>1
  <2>5. \A i, j, k, m, r \in Nat : i + r <= i /\ i + r + m = j + k + 0 => j + k = i + m
    OBVIOUS
  <2>6. y \in Nat /\ w \in Nat /\ z \in Nat /\ c \in Nat
    BY <1>1
  <2>7. y + w = z + c
    BY <2>3, <2>5, <2>6
  <2> QED BY <2>4, <2>7
<1>4. out.end = y + Less(w, c)
  OBVIOUS
<1> HIDE DEF n, w, c, y, h, z
<1>5. out.end = z /\ out.end + c = y + w /\ w + n <= out.end + w /\ (out.end + w) - w = z
  <2>1. Less(w, c) = w - c
    <3>1. \A i, j \in Nat : j <= i => Less(i, j) = i - j
      BY DEF Less
    <3>2. c <= w
      BY <1>1, <1>3
    <3> QED BY <1>1, <3>1, <3>2
  <2>2. y + (w - c) = z /\ z + c = y + w /\ w + n <= z + w /\ (z + w) - w = z
    BY <1>1, <1>3
  <2> QED BY <1>4, <2>1, <2>2
<1>6. CountsGood(q, out, n)
  <2>1. q.next + q.skip <= Length[q.at] /\ q.next + q.skip + w = 0 + w + q.next
    BY <1>1
  <2>2. q.written = w /\ q.leadIn = w
    BY DEF w
  <2>3. q.at # 1
    BY Sizes
  <2> QED BY <1>5, <2>1, <2>2, <2>3 DEF CountsGood, z
<1>7. Runs(a, Tape(q, out), h)
  <2>1. h \in Nat /\ h + n <= w
    BY <1>1 DEF h
  <2>2. SameTape(Tape(q, out), h, Tape(p, NoOutgoing), h, n)
    BY <1>1, <1>5, <2>1, TapeJoined DEF w, c, y
  <2> QED BY <1>2, <2>2, RunsAs DEF n
<1>8. Runs(q.pending, Tape(q, out), q.written)
  <2>1. q.leadIn <= q.written /\ 0 + q.leadIn = q.base + q.written
    BY <1>1 DEF w
  <2> QED BY <1>1, <2>1, TapeDecoded
<1>9. TapeGood(q, out, a)
  <2>1. q.written - Len(a) = h
    BY DEF h, n, w
  <2> QED BY <1>6, <1>7, <1>8, <2>1 DEF TapeGood, n
<1>10. ASSUME NEW l, HearsAt(p, NoOutgoing, h, l) PROVE HearsAt(q, out, h, l)
  <2>1. IsAt(l, p.at, (y + h) - c)
    BY <1>10 DEF HearsAt, y, c
  <2>2. h <= w /\ (out.end + h) - w = (y + h) - c
    <3> DEFINE x == out.end
    <3>1. x \in Nat /\ x + c = y + w
      BY <1>5
    <3> HIDE DEF x
    <3>2. w - n <= w /\ (x + (w - n)) - w = (y + (w - n)) - c
      BY <1>1, <3>1
    <3> QED BY <3>2 DEF h, x
  <2> QED BY <2>1, <2>2 DEF HearsAt, w
<1> QED BY <1>9, <1>10 DEF h, n, w


LEMMA AtNear ==
  ASSUME NEW l \in ListenerType, NEW at \in Places, NEW x, IsAt(l, at, x)
  PROVE  at \in l.at..l.at + 1
<1>1. l.at \in Nat /\ at \in Nat
  BY Sizes DEF ListenerType
<1>2. at = l.at \/ at = l.at + 1
  BY DEF IsAt
<1> QED BY <1>1, <1>2

GivenUp(at, x) == [listener EXCEPT !.at = at, !.position = x, !.lost = @ + 1]

LEMMA LeapsTo ==
  ASSUME listener \in ListenerType, NEW at \in Places,
         at \in listener.at - 1 .. listener.at + 2, NEW x \in 0..Length[at],
         NEW m, m \in {Jumped(at, x), GivenUp(at, x)}
  PROVE  /\ Listens(listener, m) /\ m.at = at /\ m.position = x /\ m.position <= Length[m.at]
         /\ \A i : i = at => IsAt(m, i, x)
<1>1. /\ m.at = at /\ m.position = x
      /\ m.jumps + m.lost = listener.jumps + listener.lost + 1
  <2>1. CASE m = Jumped(at, x)
    BY <2>1, ListenerFields
  <2>2. CASE m = GivenUp(at, x)
    BY <2>2, ListenerFields DEF GivenUp
  <2> QED BY <2>1, <2>2
<1>2. x <= Length[at]
  BY Sizes
<1>3. Leaps(listener, m)
  BY <1>1 DEF Leaps
<1> QED BY <1>1, <1>2, <1>3 DEF Listens, IsAt

LEMMA JoinsTheNext ==
  ASSUME NEW e, Base(e, download, output), e.state = "Playing", e.playing.done,
         e.busy \in {"no", "decoding"}, e.outgoing = NoOutgoing, listener \in ListenerType,
         Fits(e, download, Audio(output), listener),
         e.playing.at < Len(Length), e.playing.pending = <<>>, NEW d \in DownloadType,
         d.avail <= Length[e.playing.at + 1]
  PROVE  Fits(Crossed(HandedOver(e), Delay(output)), d, Audio(output), listener)
<1> DEFINE p == e.playing
           a == Audio(output)
           f == HandedOver(e)
           q == HandedOver(e).playing
           o == HandedOver(e).outgoing
<1>1. /\ e \in EngineType /\ p \in PlayingType /\ p.at \in Places /\ output \in OutputType
      /\ Held(Line(output), output.silent, a) /\ Len(a) <= p.written /\ p.written \in Nat
      /\ ~GivesUp(e)
  BY DEF Base, TrackBase, OnTrack, EngineType, PlayingType, SoundBase, GivesUp
<1>2. a \in Seq(Frame) /\ Len(a) \in Nat /\ Delay(output) = Len(a)
  BY <1>1, AudioProperties
<1>3. /\ q \in PlayingType /\ q.at = p.at + 1 /\ q.at \in Places
      /\ q.source = TRUE /\ q.skip = 0 /\ q.base = 0 /\ q.done = FALSE
      /\ q.written = p.written /\ q.leadIn = p.written
      /\ q.next <= Length[q.at] /\ Len(q.pending) = q.next
      /\ q.pending = Frames(q.at, 0, q.next)
      /\ o = [at |-> p.at, end |-> p.base + Less(p.written, p.leadIn)]
      /\ o \in [at : Nat, end : Nat] /\ o # NoOutgoing
      /\ f.state = e.state /\ f.sink = e.sink /\ f.busy = "no" /\ f \in EngineType
  BY <1>1, HandedOverFields
<1>4. TrackBase(f)
  BY <1>1, HandedOverBase DEF Base
<1> HIDE DEF a, f, q, o
<1>5. o.at = p.at /\ o.end = p.base + Less(p.written, p.leadIn)
  BY <1>3
<1>6. TapeGood(p, NoOutgoing, a) /\ HearsAt(p, NoOutgoing, p.written - Len(a), listener)
      /\ listener.position <= Length[listener.at]
  BY <1>1 DEF Fits, Good, Follows, OnTrack, a
<1>7. TapeGood(q, o, a) /\ HearsAt(q, o, q.written - Len(a), listener)
  <2>1. /\ TapeGood(q, o, a)
        /\ \A l : HearsAt(p, NoOutgoing, p.written - Len(a), l)
                    => HearsAt(q, o, q.written - Len(a), l)
    <3>1. /\ p \in PlayingType /\ a \in Seq(Frame) /\ Len(a) <= p.written /\ p.at \in Places
          /\ TapeGood(p, NoOutgoing, a) /\ p.done /\ p.pending = <<>>
      BY <1>1, <1>2, <1>6
    <3>2. /\ q \in PlayingType /\ q.at = p.at + 1 /\ q.source = TRUE /\ q.skip = 0 /\ q.base = 0
          /\ q.done = FALSE /\ q.written = p.written /\ q.leadIn = p.written /\ q.at \in Places
          /\ q.next <= Length[q.at] /\ Len(q.pending) = q.next
          /\ q.pending = Frames(q.at, 0, q.next)
      BY <1>3
    <3>3. /\ o \in [at : Nat, end : Nat] /\ o # NoOutgoing /\ o.at = p.at
          /\ o.end = p.base + Less(p.written, p.leadIn)
      BY <1>3, <1>5
    <3> HIDE DEF p
    <3> QED BY <3>1, <3>2, <3>3, JoinedTape
  <2> QED BY <1>6, <2>1
<1>8. ~GivesUp(f)
  BY <1>3 DEF GivesUp
<1>9. f.playing = q /\ f.outgoing = o
  BY DEF f, q, o
<1>10. Fits(f, d, a, listener)
  BY <1>3, <1>6, <1>7, <1>8, <1>9 DEF Fits, Good, Follows, OnTrack
<1>11. Heard(f, Delay(output)) = f.playing.written - Len(a)
  <2>1. \A m, n \in Nat : n <= m => Less(m, n) = m - n
    BY DEF Less
  <2> QED BY <1>1, <1>2, <1>3, <1>9, <2>1 DEF Heard
<1>12. Len(a) <= f.playing.written
  BY <1>1, <1>3, <1>9
<1>13. Fits(Crossed(f, Delay(output)), d, a, listener)
  BY <1>2, <1>3, <1>4, <1>8, <1>10, <1>11, <1>12, CrossedFits
<1> QED BY <1>13 DEF f, a

(* The last frames of a track that were set aside after it was spent are   *)
(* given up.                                                               *)
LEMMA SkipsToTheNext ==
  ASSUME NEW e, Base(e, download, output), e.state = "Playing", e.playing.done,
         e.outgoing = NoOutgoing, Fits(e, download, Audio(output), listener),
         e.playing.at < Len(Length), e.playing.pending # <<>>, NEW d \in DownloadType,
         d.avail <= Length[e.playing.at + 1],
         NEW l, l.at = e.playing.at, l.position = Length[e.playing.at]
  PROVE  Fits(Crossed(HandedOver(e), Delay(output)), d, Audio(output), l)
<1> DEFINE p == e.playing
           a == Audio(output)
           f == HandedOver(e)
           q == HandedOver(e).playing
           c == Crossed(HandedOver(e), Delay(output))
<1>1. /\ e \in EngineType /\ p \in PlayingType /\ p.at \in Places /\ output \in OutputType
      /\ Held(Line(output), output.silent, a) /\ Len(a) <= p.written /\ p.written \in Nat
      /\ e.sink
  BY DEF Base, TrackBase, OnTrack, EngineType, PlayingType, SoundBase
<1>2. a \in Seq(Frame) /\ Len(a) \in Nat /\ Delay(output) = Len(a)
  BY <1>1, AudioProperties
<1>3. /\ q \in PlayingType /\ q.at = p.at + 1 /\ q.at \in Places
      /\ q.source = TRUE /\ q.skip = 0 /\ q.base = 0 /\ q.done = FALSE
      /\ q.written = p.written /\ q.leadIn = p.written /\ q.next \in Nat
      /\ q.next <= Length[q.at] /\ Len(q.pending) = q.next
      /\ q.pending = Frames(q.at, 0, q.next)
      /\ f.outgoing # NoOutgoing
      /\ f.state = e.state /\ f.sink = e.sink /\ f.busy = "no" /\ f \in EngineType
      /\ f.playing = q
  BY <1>1, HandedOverFields
<1> HIDE DEF a, f, q, c
<1>4. TapeGood(p, NoOutgoing, a)
  BY <1>1 DEF Fits, Good, OnTrack, a
<1>5. p.written = 0
  BY <1>4 DEF TapeGood, CountsGood
<1>6. Len(a) = 0 /\ a = <<>>
  BY <1>1, <1>2, <1>5, EmptySeq
<1>7. c = [f EXCEPT !.outgoing = NoOutgoing]
  <2>1. Heard(f, Delay(output)) = 0
    BY <1>2, <1>3, <1>5, <1>6 DEF Heard, Less
  <2>2. Heard(f, Delay(output)) >= f.playing.leadIn
    BY <1>3, <1>5, <2>1
  <2> QED BY <1>1, <1>3, <2>2 DEF Crossed, c, f
<1>8. c.state = "Playing" /\ c.busy = "no" /\ c.outgoing = NoOutgoing /\ c.playing = q
  BY <1>3, <1>7 DEF EngineType
<1>9. TapeGood(q, NoOutgoing, a)
  <2>1. Runs(a, Tape(q, NoOutgoing), q.written - Len(a))
    BY <1>6, RunsEmpty
  <2>2. Runs(q.pending, Tape(q, NoOutgoing), q.written)
    <3>1. q.leadIn <= q.written /\ 0 + q.leadIn = q.base + q.written
      BY <1>3, <1>5
    <3> QED BY <1>3, <3>1, TapeDecoded
  <2>3. CountsGood(q, NoOutgoing, 0)
    <3>1. q.next + 0 <= Length[q.at] /\ q.next + 0 + 0 = 0 + 0 + q.next
      BY <1>3
    <3> QED BY <1>3, <1>5, <3>1 DEF CountsGood
  <2> QED BY <1>6, <2>1, <2>2, <2>3 DEF TapeGood
<1>10. HearsAt(q, NoOutgoing, q.written - Len(a), l)
  <2>1. (q.base + (q.written - Len(a))) - q.leadIn = 0
    BY <1>3, <1>5, <1>6
  <2>2. IsAt(l, q.at, 0)
    BY <1>3 DEF IsAt
  <2> QED BY <2>1, <2>2 DEF HearsAt
<1>11. l.position <= Length[l.at]
  BY <1>1, Sizes
<1>12. Fits(c, d, a, l)
  BY <1>3, <1>8, <1>9, <1>10, <1>11 DEF Fits, Good, Follows, GivesUp, OnTrack
<1> QED BY <1>12 DEF c, a

LEMMA SourceFinishedGoesOn ==
  ASSUME NEW e, Base(e, download, output), e.state = "Playing", e.playing.done,
         e.busy \in {"no", "decoding"}, listener \in ListenerType,
         Fits(e, download, Audio(output), listener), SourceFinished(e)
  PROVE  GoesOn
<1> DEFINE p == e.playing
           a == Audio(output)
<1>1. /\ e \in EngineType /\ p \in PlayingType /\ p.at \in Places /\ output \in OutputType
      /\ ~GivesUp(e) /\ listener.position <= Length[listener.at]
  BY DEF Base, TrackBase, OnTrack, EngineType, GivesUp, Fits, Follows
<1> HIDE DEF a
<1>2. CASE engine' = [e EXCEPT !.busy = "no"] /\ UNCHANGED <<download, output, listener>>
  <2>1. /\ engine' = [e EXCEPT !.busy = "no"] /\ download' = download /\ output' = output
        /\ listener' = listener
    BY <1>2
  <2>2. /\ engine'.state = e.state /\ engine'.outgoing = e.outgoing
        /\ SamePlace(p, engine'.playing) /\ engine'.loading = e.loading /\ ~GivesUp(engine')
    BY <1>1, <2>1 DEF EngineType, SamePlace, GivesUp
  <2>3. Fits(engine', download, Audio(output), listener)
    BY <1>1, <2>2, FitsSame
  <2> QED BY <2>1, <2>3 DEF GoesOn, Listens
<1>3. CASE e.outgoing = NoOutgoing /\ TrackEnds(e)
  <2> DEFINE m == GivenUp(p.at, Length[p.at])
  <2>1. listener' = IF p.pending = <<>> THEN listener ELSE m
    BY <1>3 DEF TrackEnds, GivenUp
  <2>2. p.pending # <<>> => /\ Listens(listener, m) /\ m.at = p.at /\ m.position = Length[p.at]
                            /\ m.position <= Length[m.at]
    <3>1. HearsAt(p, NoOutgoing, p.written - Len(Audio(output)), listener)
      BY <1>1, <1>3 DEF Fits, Follows, OnTrack
    <3>2. p.at \in listener.at..listener.at + 1
      BY <1>1, <3>1, AtNear DEF HearsAt
    <3>3. p.at \in listener.at - 1 .. listener.at + 2
      <4>1. listener.at \in Nat
        BY Sizes DEF ListenerType
      <4> QED BY <3>2, <4>1
    <3>4. Length[p.at] \in 0..Length[p.at]
      BY <1>1, Sizes
    <3> QED BY <1>1, <3>3, <3>4, LeapsTo
  <2>3. ASSUME p.at < Len(Length),
               engine' = Crossed(HandedOver(e), Delay(output)),
               download' = Downloading(p.at + 1, AtMost(Chunk, Length[p.at + 1])),
               output' = output
        PROVE  GoesOn
    <3>1. p.at + 1 \in Places
      BY <1>1, <2>3, Sizes
    <3>2. Length[p.at + 1] \in Nat /\ Chunk \in Nat
      BY <3>1, Sizes
    <3>3. /\ AtMost(Chunk, Length[p.at + 1]) \in Nat
          /\ AtMost(Chunk, Length[p.at + 1]) <= Length[p.at + 1]
      BY <3>2 DEF AtMost
    <3>4. download' \in DownloadType
      BY <2>3, <3>1, <3>3, DownloadingType
    <3>5. download'.avail <= Length[p.at + 1]
      BY <2>3, <3>2, <3>3 DEF Downloading, From
    <3> HIDE DEF m
    <3>6. CASE p.pending = <<>>
      <4>1. Fits(engine', download', Audio(output), listener)
        BY <1>3, <2>3, <3>4, <3>5, <3>6, JoinsTheNext
      <4> QED BY <2>1, <2>3, <3>6, <4>1 DEF GoesOn, Listens
    <3>7. CASE p.pending # <<>>
      <4>1. Fits(engine', download', Audio(output), m)
        BY <1>3, <2>2, <2>3, <3>4, <3>5, <3>7, SkipsToTheNext
      <4> QED BY <2>1, <2>2, <2>3, <3>7, <4>1 DEF GoesOn
    <3> QED BY <3>6, <3>7
  <2>4. ASSUME engine' = [e EXCEPT !.busy = "draining"],
               output' = [output EXCEPT !.corked = FALSE], download' = download
        PROVE  GoesOn
    <3>1. Audio(output') = Audio(output)
      BY <1>1, <2>4 DEF OutputType, Audio, Line
    <3>2. /\ engine'.state = e.state /\ engine'.outgoing = e.outgoing /\ engine'.playing = p
          /\ engine'.busy = "draining" /\ engine'.loading = e.loading
      BY <1>1, <2>4 DEF EngineType
    <3> HIDE DEF m
    <3>3. CASE p.pending = <<>>
      <4>1. ~GivesUp(engine') /\ SamePlace(p, engine'.playing)
        BY <3>2, <3>3 DEF GivesUp, SamePlace
      <4>2. Fits(engine', download, Audio(output), listener)
        BY <1>1, <3>2, <4>1, FitsSame
      <4> QED BY <2>1, <2>4, <3>1, <3>3, <4>2 DEF GoesOn, Listens
    <3>4. CASE p.pending # <<>>
      <4>1. LosesEnd(engine', m)
        <5>1. m.lost = listener.lost + 1 /\ listener.lost \in Nat
          BY ListenerFields DEF m, GivenUp, ListenerType
        <5>2. m.lost > 0
          BY <5>1
        <5> QED BY <2>2, <3>2, <3>4, <5>2 DEF LosesEnd
      <4>2. Good(engine', download, Audio(output))
        BY <3>2 DEF Fits, Good
      <4>3. GivesUp(engine')
        BY <3>2, <3>4 DEF GivesUp
      <4>4. Follows(engine', Audio(output), m)
        BY <2>2, <3>2, <3>4, <4>1, <4>3 DEF Follows
      <4> QED BY <2>1, <2>2, <2>4, <3>1, <3>4, <4>2, <4>4 DEF GoesOn, Fits
    <3> QED BY <3>3, <3>4
  <2> QED BY <1>3, <2>3, <2>4 DEF TrackEnds
<1> QED BY <1>2, <1>3 DEF SourceFinished, WaitForNext


---------------------------------------------------------------------------
(* A step of playing.                                                      *)

LEMMA BusyFits ==
  ASSUME NEW e \in EngineType, NEW b \in {"no", "decoding", "writing"}, NEW d, NEW a, NEW l,
         Fits(e, d, a, l), ~GivesUp(e)
  PROVE  Fits([e EXCEPT !.busy = b], d, a, l)
<1> DEFINE f == [e EXCEPT !.busy = b]
<1>1. /\ f.state = e.state /\ f.outgoing = e.outgoing /\ f.playing = e.playing /\ f.busy = b
      /\ f.loading = e.loading
  BY DEF EngineType
<1> HIDE DEF f
<1>2. SamePlace(e.playing, f.playing) /\ ~GivesUp(f)
  BY <1>1 DEF SamePlace, GivesUp
<1>3. Fits(f, d, a, l)
  BY <1>1, <1>2, FitsSame
<1> QED BY <1>3 DEF f

LEMMA WritingGoesOn ==
  ASSUME NEW e, Base(e, download, output), e.state = "Playing", ~GivesUp(e),
         Fits(e, download, Audio(output), listener), engine' = Writing(e),
         output' = AddSilence(output), download' = download, listener' = listener
  PROVE  GoesOn
<1>1. e \in EngineType /\ output \in OutputType /\ Held(Line(output), output.silent, Audio(output))
  BY DEF Base, SoundBase
<1>2. OutputGood(TRUE, output)
  <2>1. e.sink = TRUE
    BY <1>1 DEF Base, TrackBase, EngineType
  <2> QED BY <2>1 DEF Base
<1>3. Audio(output') = Audio(output)
  BY <1>1, <1>2, SilencedOutput
<1>4. Fits(engine', download, Audio(output), listener)
  BY <1>1, BusyFits DEF Writing
<1> QED BY <1>3, <1>4 DEF GoesOn, Listens

LEMMA PlayStepGoesOn ==
  ASSUME Inv, PlayStep
  PROVE  GoesOn
<1> DEFINE e == Crossed(engine, Delay(output))
           a == Audio(output)
<1>1. Base(engine, download, output) /\ engine.busy = "no" /\ engine.state = "Playing"
  BY InvFacts DEF PlayStep, Free
<1>2. ~GivesUp(engine)
  BY <1>1 DEF GivesUp
<1>3. Base(e, download, output) /\ e.state = "Playing" /\ e.busy = "no" /\ e \in EngineType
  <2>1. Base(e, download, output) /\ e.state = "Playing" /\ e.busy = "no"
    BY <1>1, InvFacts, CrossedBase
  <2> QED BY <2>1 DEF Base
<1>4. Fits(e, download, a, listener) /\ ~GivesUp(e)
  BY <1>2, InvFacts, CrossedFits
<1>5. /\ \/ e.playing.done /\ SourceFinished(e)
         \/ /\ engine' = [e EXCEPT !.busy = "decoding"]
            /\ download' = download /\ output' = output /\ listener' = listener
         \/ /\ engine' = Writing(e)
            /\ output' = AddSilence(output) /\ download' = download /\ listener' = listener
  BY DEF PlayStep
<1> HIDE DEF e, a
<1>6. CASE e.playing.done /\ SourceFinished(e)
  BY <1>3, <1>4, <1>6, InvFacts, SourceFinishedGoesOn DEF a
<1>7. CASE /\ engine' = [e EXCEPT !.busy = "decoding"]
           /\ download' = download /\ output' = output /\ listener' = listener
  <2>1. Fits(engine', download, a, listener)
    BY <1>3, <1>4, <1>7, BusyFits
  <2> QED BY <1>7, <2>1 DEF GoesOn, Listens, a
<1>8. CASE /\ engine' = Writing(e)
           /\ output' = AddSilence(output) /\ download' = download /\ listener' = listener
  BY <1>3, <1>4, <1>8, WritingGoesOn DEF a
<1> QED BY <1>5, <1>6, <1>7, <1>8

LEMMA DecodedTape ==
  ASSUME NEW p \in PlayingType, NEW out, NEW a \in Seq(Frame), Len(a) <= p.written,
         p.at \in Places, TapeGood(p, out, a), p.pending = <<>>, p.source, ~p.done,
         NEW avail \in Nat, p.next < avail, avail <= Length[p.at],
         NEW to, to = AtMost(p.next + Chunk, avail),
         NEW kept, kept = AtMost(p.next + p.skip, to),
         NEW q \in PlayingType, q.at = p.at, q.source = p.source, q.next = to,
         q.skip = Less(p.skip, to - p.next), q.pending = Frames(p.at, kept, to),
         q.written = p.written, q.base = p.base, q.leadIn = p.leadIn, q.done = p.done
  PROVE  TapeGood(q, out, a)
<1> DEFINE n == Len(a)
           w == p.written
           c == p.leadIn
           y == p.base
           x == p.next
           s == p.skip
           z == Length[p.at]
           k == Less(s, to - x)
           f == Less(to, kept)
<1>1. /\ n \in Nat /\ w \in Nat /\ c \in Nat /\ y \in Nat /\ x \in Nat /\ s \in Nat /\ n <= w
      /\ z \in Nat /\ Chunk \in Nat /\ Chunk # 0
  BY LenProperties, Sizes DEF PlayingType
<1>2. CountsGood(p, out, n) /\ Runs(a, Tape(p, out), w - n)
  BY DEF TapeGood
<1>3. x + s <= z /\ x + s + c = y + w
  <2>1. x + s <= z /\ x + s + c = y + w + Len(p.pending)
    BY <1>2 DEF CountsGood
  <2>2. Len(p.pending) = 0
    BY EmptySeq
  <2> HIDE DEF n, w, c, y, x, s, z
  <2> QED BY <1>1, <2>1, <2>2
<1>4. c <= w
  <2>1. out = NoOutgoing => c + n <= w
    BY <1>2 DEF CountsGood
  <2>2. out # NoOutgoing => y = 0
    BY <1>2 DEF CountsGood
  <2> HIDE DEF n, w, c, y, x, s, z
  <2> QED BY <1>1, <1>3, <2>1, <2>2
<1>5. to = AtMost(x + Chunk, avail) /\ kept = AtMost(x + s, to) /\ x < avail /\ avail <= z
  OBVIOUS
<1>6. q.next = to /\ q.skip = k
  OBVIOUS
<1> HIDE DEF n, w, c, y, x, s, z
<1>7. /\ to \in Nat /\ x < to /\ to <= z
  <2>1. \A i, j \in Nat : AtMost(i, j) \in {i, j} /\ AtMost(i, j) <= j
    BY DEF AtMost
  <2>2. x + Chunk \in Nat /\ x < x + Chunk
    BY <1>1
  <2>3. to \in {x + Chunk, avail} /\ to <= avail
    BY <1>5, <2>1, <2>2
  <2> QED BY <1>1, <1>5, <2>2, <2>3
<1>8. /\ k \in Nat /\ f \in Nat /\ kept \in Nat
      /\ to + k <= z /\ to + k + c = y + w + f
      /\ kept < to => kept + c = y + w
      /\ ~(kept < to) => f = 0
  <2>1. CASE x + s <= to
    <3>1. kept = x + s
      BY <1>5, <2>1 DEF AtMost
    <3>2. k = 0
      <4>1. ~(s > to - x)
        BY <1>1, <1>7, <2>1
      <4> QED BY <4>1 DEF Less
    <3>3. f = to - (x + s)
      <4>1. CASE to > x + s
        BY <3>1, <4>1 DEF Less
      <4>2. CASE ~(to > x + s)
        <5>1. to = x + s
          BY <1>1, <1>7, <2>1, <4>2
        <5>2. to - (x + s) = 0
          BY <1>7, <5>1
        <5> QED BY <3>1, <4>2, <5>2 DEF Less
      <4> QED BY <4>1, <4>2
    <3>4. \A b, d, e, g, h, t, v \in Nat :
            b + d + e = g + h /\ b + d <= t /\ t <= v =>
              /\ t - (b + d) \in Nat /\ b + d \in Nat /\ t + 0 <= v
              /\ t + 0 + e = g + h + (t - (b + d)) /\ (b + d) + e = g + h
              /\ ~(b + d < t) => t - (b + d) = 0
      OBVIOUS
    <3>5. /\ to - (x + s) \in Nat /\ x + s \in Nat /\ to + 0 <= z
          /\ to + 0 + c = y + w + (to - (x + s)) /\ (x + s) + c = y + w
          /\ ~(x + s < to) => to - (x + s) = 0
      <4>1. /\ x \in Nat /\ s \in Nat /\ c \in Nat /\ y \in Nat /\ w \in Nat /\ to \in Nat /\ z \in Nat
            /\ x + s + c = y + w /\ x + s <= to /\ to <= z
        BY <1>1, <1>3, <1>7, <2>1
      <4> QED BY ONLY <3>4, <4>1
    <3> HIDE DEF k, f
    <3> QED BY <3>1, <3>2, <3>3, <3>5
  <2>2. CASE ~(x + s <= to)
    <3>1. kept = to
      BY <1>5, <2>2 DEF AtMost
    <3>2. k = s - (to - x)
      <4>1. s > to - x
        BY <1>1, <1>7, <2>2
      <4> QED BY <4>1 DEF Less
    <3>3. f = 0
      BY <1>7, <3>1 DEF Less
    <3>5. /\ s - (to - x) \in Nat /\ to + (s - (to - x)) <= z
          /\ to + (s - (to - x)) + c = y + w + 0
      <4>1. to < x + s
        BY <1>1, <1>7, <2>2
      <4> DEFINE g == to - x
      <4>2. g \in Nat /\ to = x + g
        BY <1>1, <1>7
      <4> HIDE DEF g
      <4> DEFINE r == s - g
      <4>3. r \in Nat /\ s = g + r
        BY <1>1, <4>1, <4>2
      <4> HIDE DEF r
      <4>4. to + r = x + s /\ y + w + 0 = y + w
        BY <1>1, <4>2, <4>3
      <4>5. to + r <= z /\ to + r + c = y + w + 0
        BY <1>3, <4>4
      <4> QED BY <4>3, <4>5 DEF g, r
    <3>6. ~(to < to)
      BY <1>7
    <3> HIDE DEF k, f
    <3> QED BY <1>7, <3>1, <3>2, <3>3, <3>5, <3>6
  <2> QED BY <2>1, <2>2
<1>9. q.pending \in Seq(Frame) /\ Len(q.pending) = f
  BY <1>7, <1>8, RealFrames
<1> HIDE DEF k, f
<1>10. CountsGood(q, out, n)
  <2>1. q.next + q.skip <= Length[q.at]
    BY <1>6, <1>8 DEF z
  <2>2. q.next + q.skip + q.leadIn = q.base + q.written + Len(q.pending)
    BY <1>6, <1>8, <1>9 DEF c, y, w
  <2> QED BY <1>2, <2>1, <2>2 DEF CountsGood
<1>11. Tape(q, out) = Tape(p, out)
  BY TapeUnmoved
<1>12. Runs(q.pending, Tape(p, out), w)
  <2>1. CASE kept < to
    BY <1>4, <1>7, <1>8, <2>1, TapeDecoded DEF c, w, y
  <2>2. CASE ~(kept < to)
    <3>1. q.pending = <<>>
      BY <1>8, <1>9, <2>2, EmptySeq
    <3> QED BY <3>1, RunsEmpty
  <2> QED BY <2>1, <2>2
<1> QED BY <1>2, <1>10, <1>11, <1>12 DEF TapeGood, n, w

LEMMA DecodeGoesOn ==
  ASSUME Inv, Decode
  PROVE  GoesOn
<1> DEFINE p == engine.playing
           out == engine.outgoing
           a == Audio(output)
           to == AtMost(p.next + Chunk, download.avail)
           kept == AtMost(p.next + p.skip, to)
           skip == Less(p.skip, to - p.next)
           frames == Frames(p.at, kept, to)
           decoded == [engine EXCEPT !.playing.next = to, !.playing.skip = skip,
                                     !.playing.pending = frames]
<1>1. /\ Base(engine, download, output) /\ engine.busy = "decoding" /\ engine.state = "Playing"
      /\ p.pending = <<>> /\ ~p.done
      /\ engine \in EngineType /\ p \in PlayingType /\ p.at \in Places
      /\ download \in DownloadType /\ download.avail \in Nat /\ listener \in ListenerType
  BY InvFacts DEF Decode, BusyGood, TrackBase, OnTrack, DownloadType
<1>2. \/ /\ p.next < download.avail /\ engine' = decoded
         /\ kept = to /\ download' = download /\ output' = output /\ listener' = listener
      \/ /\ p.next < download.avail /\ kept < to /\ engine' = Writing(decoded)
         /\ output' = AddSilence(output) /\ download' = download /\ listener' = listener
      \/ /\ p.next = Length[p.at] \/ download.ended = "end"
         /\ SourceFinished([engine EXCEPT !.playing.done = TRUE])
      \/ StopPlaying /\ download' = download /\ listener' = listener
  BY DEF Decode
<1>3. /\ a \in Seq(Frame) /\ Len(a) <= p.written /\ Fits(engine, download, a, listener)
      /\ listener.position <= Length[listener.at]
  BY InvFacts
<1>4. /\ TapeGood(p, out, a) /\ HearsAt(p, out, p.written - Len(a), listener)
      /\ p.source /\ download.avail <= Length[p.at] /\ ~GivesUp(engine)
  BY <1>1, <1>3 DEF Fits, Good, Follows, OnTrack, GivesUp
<1> HIDE DEF to, kept, skip, frames, a
<1>5. ASSUME p.next < download.avail
      PROVE  /\ Base(decoded, download, output) /\ decoded.state = "Playing"
             /\ Fits(decoded, download, a, listener) /\ ~GivesUp(decoded)
  <2>1. to \in Nat /\ kept \in Nat /\ skip \in Nat /\ frames \in Seq(Frame) /\ Real(frames)
    <3>1. p.next \in Nat /\ p.skip \in Nat /\ download.avail \in Nat /\ Chunk \in Nat
      BY <1>1, Sizes DEF PlayingType
    <3>2. \A n, c, v, s \in Nat :
            n < v => /\ AtMost(n + c, v) \in Nat /\ AtMost(n + c, v) - n \in Nat
                     /\ AtMost(n + s, AtMost(n + c, v)) \in Nat
      BY DEF AtMost
    <3>3. to \in Nat /\ to - p.next \in Nat /\ kept \in Nat
      BY <1>5, <3>1, <3>2 DEF to, kept
    <3>4. skip \in Nat
      <4>1. \A m, n \in Nat : Less(m, n) \in Nat
        BY DEF Less
      <4> QED BY <3>1, <3>3, <4>1 DEF skip
    <3> QED BY <1>1, <3>3, <3>4, RealFrames DEF frames
  <2>2. decoded = AfterDecoding(engine, to, skip, frames)
    BY DEF AfterDecoding
  <2>3. /\ decoded \in EngineType /\ decoded.state = "Playing" /\ decoded.busy = "decoding"
        /\ decoded.outgoing = out
    BY <1>1, <2>1 DEF EngineType, PlayingType
  <2> DEFINE q == decoded.playing
  <2>4. /\ q \in PlayingType /\ q.at = p.at /\ q.source = p.source /\ q.next = to
        /\ q.skip = skip /\ q.pending = frames
        /\ q.written = p.written /\ q.base = p.base /\ q.leadIn = p.leadIn /\ q.done = p.done
    BY <1>1, <2>1 DEF EngineType, PlayingType
  <2> HIDE DEF decoded
  <2>5. Base(decoded, download, output)
    BY <1>1, <2>1, <2>2, DecodedBase
  <2>6. TapeGood(q, out, a)
    <3> HIDE DEF q
    <3> QED BY <1>1, <1>3, <1>4, <1>5, <2>4, DecodedTape DEF to, kept, skip, frames
  <2>7. ~GivesUp(decoded)
    BY <2>3 DEF GivesUp
  <2>8. HearsAt(q, out, q.written - Len(a), listener)
    BY <1>4, <2>4 DEF HearsAt
  <2>9. Fits(decoded, download, a, listener)
    BY <1>3, <1>4, <2>3, <2>4, <2>6, <2>7, <2>8 DEF Fits, Good, Follows
  <2> QED BY <2>3, <2>5, <2>7, <2>9
<1> HIDE DEF decoded
<1>6. CASE /\ p.next < download.avail /\ engine' = decoded
           /\ kept = to /\ download' = download /\ output' = output /\ listener' = listener
  BY <1>5, <1>6 DEF GoesOn, Listens, a
<1>7. CASE /\ p.next < download.avail /\ kept < to /\ engine' = Writing(decoded)
           /\ output' = AddSilence(output) /\ download' = download /\ listener' = listener
  BY <1>5, <1>7, WritingGoesOn DEF a
<1>8. CASE /\ p.next = Length[p.at] \/ download.ended = "end"
           /\ SourceFinished([engine EXCEPT !.playing.done = TRUE])
  <2> DEFINE f == [engine EXCEPT !.playing.done = TRUE]
  <2>1. p.next = Length[p.at]
    BY <1>1, <1>8 DEF DownloadType
  <2>2. Base(f, download, output) /\ f.state = "Playing" /\ f.playing.done
    BY <1>1, FinishedBase
  <2> DEFINE q == f.playing
  <2>3. /\ f \in EngineType /\ f.busy = "decoding" /\ f.outgoing = out /\ f.state = "Playing"
        /\ q.at = p.at /\ q.source = p.source /\ q.next = p.next
        /\ q.skip = p.skip /\ q.pending = p.pending
        /\ q.written = p.written /\ q.base = p.base /\ q.leadIn = p.leadIn /\ q.done = TRUE
    BY <1>1 DEF EngineType, PlayingType
  <2>4. SourceFinished(f)
    BY <1>8
  <2> HIDE DEF f
  <2>5. TapeGood(q, out, a)
    <3>1. Tape(q, out) = Tape(p, out)
      BY <2>3, TapeUnmoved
    <3>2. CountsGood(q, out, Len(a))
      BY <1>1, <1>4, <2>1, <2>3 DEF TapeGood, CountsGood
    <3> QED BY <1>4, <2>3, <3>1, <3>2 DEF TapeGood
  <2>6. HearsAt(q, out, q.written - Len(a), listener)
    BY <1>4, <2>3 DEF HearsAt
  <2>7. ~GivesUp(f)
    BY <2>3 DEF GivesUp
  <2>8. Fits(f, download, a, listener)
    BY <1>3, <1>4, <2>3, <2>5, <2>6, <2>7 DEF Fits, Good, Follows
  <2> QED BY <1>1, <2>2, <2>3, <2>4, <2>8, SourceFinishedGoesOn DEF a
<1>9. CASE StopPlaying /\ download' = download /\ listener' = listener
  <2>1. Fits(Stopped(engine), download, Audio(output'), listener)
    BY <1>1, <1>3, StoppedFits
  <2> QED BY <1>9, <2>1 DEF GoesOn, Listens, StopPlaying
<1> QED BY <1>2, <1>6, <1>7, <1>8, <1>9


---------------------------------------------------------------------------
(* Frames are written.                                                     *)

LEMMA WrittenTape ==
  ASSUME NEW p \in PlayingType, NEW out \in [at : Nat, end : Nat], NEW a \in Seq(Frame),
         Len(a) <= p.written, TapeGood(p, out, a), p.source, ~p.done,
         NEW f \in Seq(Frame), Len(f) \in 0..Len(p.pending),
         f = SubSeq(p.pending, 1, Len(f)), NEW rest,
         rest = SubSeq(p.pending, Len(f) + 1, Len(p.pending)),
         NEW written, written = p.written + Len(f),
         NEW q \in PlayingType, q.at = p.at, q.source = p.source, q.next = p.next,
         q.skip = p.skip, q.pending = rest, q.written = written, q.base = p.base,
         q.leadIn = p.leadIn, q.done = p.done, NEW b, b = a \o f
  PROVE  TapeGood(q, out, b)
<1> DEFINE T == Tape(p, out)
           m == Len(a)
           k == Len(p.pending)
           w == p.written
           c == p.leadIn
           n == Len(f)
<1>1. /\ m \in Nat /\ k \in Nat /\ w \in Nat /\ c \in Nat /\ m <= w /\ n \in Nat /\ n <= k
      /\ n \in 0..k
      /\ p.base \in Nat /\ out.end \in Nat /\ p.pending \in Seq(Frame)
      /\ p.next \in Nat /\ p.skip \in Nat
  BY LenProperties DEF PlayingType
<1>2. Runs(a, T, w - m) /\ Runs(p.pending, T, w) /\ CountsGood(p, out, m)
  BY DEF TapeGood
<1>20. rest = SubSeq(p.pending, n + 1, k) /\ f = SubSeq(p.pending, 1, n) /\ written = w + n
  BY DEF n
<1>3. Len(a \o f) = m + n
  BY JoinedFrames DEF n
<1> HIDE DEF n
<1>4. rest \in Seq(Frame) /\ Len(rest) = k - n
  <2>1. /\ SubSeq(p.pending, n + 1, k) \in Seq(Frame)
        /\ Len(SubSeq(p.pending, n + 1, k)) = k - n
    BY <1>1, AfterProperties
  <2> QED BY <1>20, <2>1
<1>5. w - m \in Nat /\ (w - m) + m = w /\ w + 0 = w /\ 0 + 1 = 1
  <2>1. \A x, y \in Nat : y <= x => x - y \in Nat /\ (x - y) + y = x /\ x + 0 = x
    OBVIOUS
  <2>2. w \in Nat /\ m \in Nat /\ m <= w
    BY <1>1
  <2> QED BY <2>1, <2>2
<1>6. Runs(f, T, w)
  <2>1. 0 \in 0..k /\ n \in 0..k
    BY <1>1
  <2>2. Runs(SubSeq(p.pending, 0 + 1, n), T, w + 0)
    BY <1>1, <1>2, <2>1, RunsPart
  <2> QED BY <1>20, <1>5, <2>2
<1>7. Runs(rest, T, w + n)
  <2>1. k \in n..k
    BY <1>1
  <2>2. Runs(SubSeq(p.pending, n + 1, k), T, w + n)
    BY <1>1, <1>2, <2>1, RunsPart
  <2> QED BY <1>20, <2>2
<1>8. Runs(a \o f, T, w - m)
  BY <1>2, <1>5, <1>6, RunsJoined
<1>9. Tape(q, out) = T
  BY TapeUnmoved
<1>10. (w + n) - (m + n) = w - m
  BY <1>1
<1>11. q.written - Len(a \o f) = w - m
  BY <1>20, <1>3, <1>10
<1>12. CountsGood(q, out, m + n)
  <2>1. p.next + p.skip <= Length[p.at] /\ p.next + p.skip + c = p.base + w + k
    BY <1>2 DEF CountsGood
  <2>3. p.next + p.skip + c = p.base + (w + n) + (k - n)
    <3> DEFINE x == p.base
    <3>1. x \in Nat /\ w \in Nat /\ k \in Nat /\ n \in Nat /\ n <= k
      BY <1>1
    <3> HIDE DEF x, w, k
    <3>3. x + w + k = x + (w + n) + (k - n)
      BY <3>1
    <3> QED BY <2>1, <3>3 DEF x
  <2>5. out # NoOutgoing => c + (m + n) <= out.end + (w + n)
    <3>1. out # NoOutgoing => c + m <= out.end + w
      BY <1>2 DEF CountsGood
    <3>2. \A x, y, z, t, u \in Nat : x + y <= z + t => x + (y + u) <= z + (t + u)
      OBVIOUS
    <3> QED BY <1>1, <3>1, <3>2
  <2>6. out = NoOutgoing => c + (m + n) <= w + n
    <3>1. out = NoOutgoing => c + m <= w
      BY <1>2 DEF CountsGood
    <3>2. \A x, y, z, u \in Nat : x + y <= z => x + (y + u) <= z + u
      OBVIOUS
    <3> QED BY <1>1, <3>1, <3>2
  <2> HIDE DEF T, m, k, w, c
  <2>7. /\ q.next + q.skip <= Length[q.at]
        /\ q.next + q.skip + q.leadIn = q.base + q.written + Len(q.pending)
    BY <1>20, <1>4, <2>1, <2>3 DEF w, c, k
  <2>8. /\ out # NoOutgoing => q.leadIn + (m + n) <= out.end + q.written
        /\ out = NoOutgoing => q.leadIn + (m + n) <= q.written
    BY <1>20, <2>5, <2>6 DEF w, c
  <2> QED BY <1>2, <2>7, <2>8 DEF CountsGood
<1> HIDE DEF T, m, k, w, c
<1>13. q.pending = rest /\ q.written = w + n
  BY <1>20
<1>14. TapeGood(q, out, a \o f)
  BY <1>3, <1>7, <1>8, <1>9, <1>11, <1>12, <1>13 DEF TapeGood, w, m
<1> QED BY <1>14

LEMMA WriteGoesOn ==
  ASSUME Inv, Write
  PROVE  GoesOn
<1> DEFINE p == engine.playing
           out == engine.outgoing
           f == ToWrite(engine)
           n == Len(f)
           rest == SubSeq(p.pending, n + 1, Len(p.pending))
           a == Audio(output)
           q == engine'.playing
<1>1. /\ Base(engine, download, output) /\ engine.busy = "writing" /\ engine.state = "Playing"
      /\ ~output.needsSilence /\ ~p.done /\ engine \in EngineType /\ p \in PlayingType
      /\ engine.sink = TRUE /\ out \in [at : Nat, end : Nat]
      /\ p.pending \in Seq(Frame) /\ p.recent \in Seq(Frame) /\ p.written \in Nat
      /\ Real(p.pending) /\ Real(p.recent)
      /\ a \in Seq(Frame) /\ Len(a) <= p.written
      /\ output \in OutputType /\ Held(Line(output), output.silent, a)
      /\ Fits(engine, download, a, listener)
  BY InvFacts DEF Write, Base, SoundBase, BusyGood, TrackBase, EngineType, PlayingType
<1>2. /\ f \in Seq(Frame) /\ Real(f) /\ n \in 0..Len(p.pending) /\ f = SubSeq(p.pending, 1, n)
  BY <1>1, ToWriteProperties
<1>3. /\ Room(output, n) /\ output' = [output EXCEPT !.ring = output.ring \o f]
      /\ engine' = [engine EXCEPT !.busy = "no", !.playing.pending = rest,
                                  !.playing.recent = Recent(p.recent, f),
                                  !.playing.written = p.written + n]
      /\ download' = download /\ listener' = listener
  BY DEF Write
<1>4. OutputGood(TRUE, output)
  BY <1>1 DEF Base
<1> HIDE DEF f, a
<1>5. Audio(output') = a \o f
  BY <1>1, <1>2, <1>3, <1>4, WrittenOutput DEF a
<1> DEFINE r == Recent(p.recent, f)
           w == p.written + n
<1>6. engine' \in EngineType
  BY WriteBase DEF Inv, InvBase, Base
<1> HIDE DEF r, w, rest
<1>7. /\ engine'.state = "Playing" /\ engine'.busy = "no" /\ engine'.outgoing = out
      /\ q.at = p.at /\ q.source = p.source /\ q.next = p.next /\ q.skip = p.skip
      /\ q.pending = rest /\ q.written = w /\ q.base = p.base /\ q.leadIn = p.leadIn
      /\ q.done = p.done
  <2>1. engine' = [engine EXCEPT !.busy = "no", !.playing.pending = rest,
                                 !.playing.recent = r, !.playing.written = w]
    BY <1>3 DEF r, w
  <2> QED BY <1>1, <2>1 DEF EngineType, PlayingType
<1>8. q \in PlayingType
  BY <1>6 DEF EngineType
<1>9. /\ TapeGood(p, out, a) /\ HearsAt(p, out, p.written - Len(a), listener)
      /\ p.source /\ download.avail <= Length[p.at] /\ listener.position <= Length[listener.at]
  BY <1>1 DEF Fits, Good, Follows, OnTrack, GivesUp
<1> HIDE DEF p, out, q
<1>10. TapeGood(q, out, a \o f) /\ q.written - Len(a \o f) = p.written - Len(a)
  <2>1. rest = SubSeq(p.pending, Len(f) + 1, Len(p.pending)) /\ w = p.written + Len(f)
    BY DEF rest, w
  <2> DEFINE b == a \o f
  <2>2. b = a \o f
    OBVIOUS
  <2> HIDE DEF b
  <2>3. TapeGood(q, out, b)
    BY <1>1, <1>2, <1>7, <1>8, <1>9, <2>1, <2>2, WrittenTape
  <2>4. q.written - Len(a \o f) = p.written - Len(a)
    <3>1. Len(a \o f) = Len(a) + n /\ Len(a) \in Nat /\ n \in Nat /\ p.written \in Nat
      BY <1>1, <1>2, JoinedFrames, LenProperties
    <3>2. \A x, y, z \in Nat : (x + z) - (y + z) = x - y
      OBVIOUS
    <3> QED BY <1>7, <2>1, <3>1, <3>2
  <2> QED BY <2>3, <2>4 DEF b
<1>11. HearsAt(q, out, q.written - Len(a \o f), listener)
  BY <1>7, <1>9, <1>10 DEF HearsAt
<1>12. ~GivesUp(engine')
  BY <1>7 DEF GivesUp
<1>13. Fits(engine', download, a \o f, listener)
  BY <1>7, <1>9, <1>10, <1>11, <1>12 DEF Fits, Good, Follows, q
<1> QED BY <1>3, <1>5, <1>13 DEF GoesOn, Listens


---------------------------------------------------------------------------
(* What is not heard is set aside.                                         *)

KeptOf(p, queued) == AtMost(AtMost(queued, Len(p.recent)), p.written)

(* What the sink says is queued is never less than what the line holds of  *)
(* silence alone.                                                          *)
LEMMA QueuedCounts ==
  ASSUME Base(engine, download, output), NEW queued \in Queued
  PROVE  /\ KeptOf(engine.playing, queued) \in 0..Len(Audio(output))
         /\ Heard(engine, queued) = engine.playing.written - KeptOf(engine.playing, queued)
         /\ output.gone = "no" => KeptOf(engine.playing, queued) = Len(Audio(output))
<1> DEFINE p == engine.playing
           n == Len(Audio(output))
           w == p.written
           r == Len(p.recent)
           g == Len(output.ring)
<1>1. /\ output \in OutputType /\ Held(Line(output), output.silent, Audio(output))
      /\ p.recent \in Seq(Frame) /\ w \in Nat /\ n <= w /\ n <= r
      /\ output.silent > 0 => n = w
  BY DEF Base, SoundBase, EngineType, PlayingType, Kept
<1>2. /\ n \in Nat /\ g \in Nat /\ Delay(output) = n /\ output.silent \in Nat
      /\ Len(output.server) \in Nat /\ Len(output.server) + g = output.silent + n
  <2>1. /\ Len(Audio(output)) \in Nat /\ Delay(output) = Len(Audio(output))
        /\ output.silent \in Nat /\ Len(output.ring) \in Nat /\ Len(output.server) \in Nat
        /\ Len(Line(output)) = Len(output.server) + Len(output.ring)
        /\ Len(Line(output)) = output.silent + Len(Audio(output))
    BY <1>1, AudioProperties
  <2> QED BY <2>1
<1>3. r \in Nat
  BY <1>1, LenProperties
<1>4. queued \in {n, g} /\ (output.gone = "no" => queued = n)
  BY <1>2 DEF Queued
<1>5. queued <= n \/ (queued = g /\ n = w)
  <2>1. CASE queued = n
    BY <1>2, <2>1
  <2>2. CASE queued = g
    <3>1. CASE output.silent > 0
      BY <1>1, <2>2, <3>1
    <3>2. CASE ~(output.silent > 0)
      <4> DEFINE t == Len(output.server)
                 z == output.silent
      <4>1. t \in Nat /\ z \in Nat /\ ~(z > 0) /\ t + g = z + n /\ n \in Nat /\ g \in Nat
        BY <1>2, <3>2
      <4> HIDE DEF t, z, g, n
      <4>2. g <= n
        BY <4>1
      <4> QED BY <2>2, <4>2
    <3> QED BY <3>1, <3>2
  <2> QED BY <1>4, <2>1, <2>2
<1>6. queued \in Nat
  BY <1>2, <1>4
<1>7. Heard(engine, queued) = Less(w, queued) /\ KeptOf(p, queued) = AtMost(AtMost(queued, r), w)
  BY DEF Heard, KeptOf
<1> HIDE DEF n, w, r, g, p
<1>8. CASE queued <= n
  <2>1. AtMost(queued, r) = queued /\ AtMost(queued, w) = queued
    BY <1>1, <1>2, <1>3, <1>6, <1>8 DEF AtMost
  <2>2. Less(w, queued) = w - queued
    <3>1. \A i, j \in Nat : j <= i => Less(i, j) = i - j
      BY DEF Less
    <3>2. queued <= w
      BY <1>1, <1>2, <1>6, <1>8
    <3> QED BY <1>1, <1>6, <3>1, <3>2
  <2>3. queued \in 0..n
    BY <1>2, <1>6, <1>8
  <2> QED BY <1>4, <1>7, <2>1, <2>2, <2>3 DEF p, n, w
<1>9. CASE ~(queued <= n)
  <2>1. n = w /\ w <= queued /\ w <= r
    BY <1>1, <1>2, <1>5, <1>6, <1>9
  <2>2. AtMost(AtMost(queued, r), w) = w /\ Less(w, queued) = 0
    <3>1. \A i, j, k \in Nat : k <= i /\ k <= j => AtMost(AtMost(i, j), k) = k /\ Less(k, i) = 0
      BY DEF Less, AtMost
    <3> QED BY <1>1, <1>3, <1>6, <2>1, <3>1
  <2>3. w - w = 0 /\ w \in 0..n
    BY <1>1, <2>1
  <2>4. output.gone # "no"
    BY <1>2, <1>4, <1>9
  <2> QED BY <1>7, <2>2, <2>3, <2>4 DEF p, n, w
<1> QED BY <1>8, <1>9

SetAsideTo(p, out, b, q) ==
  /\ q.at = p.at /\ q.source = p.source /\ q.next = p.next /\ q.skip = p.skip
  /\ q.done = p.done /\ q.pending = b \o p.pending /\ q.written = 0
  /\ out # NoOutgoing => q.leadIn = Less(p.leadIn, p.written - Len(b)) /\ q.base = p.base
  /\ out = NoOutgoing =>
       q.leadIn = 0 /\ q.base = p.base + Less(p.written - Len(b), p.leadIn)

LEMMA AsideTape ==
  ASSUME NEW p \in PlayingType, NEW out \in [at : Nat, end : Nat], NEW b \in Seq(Frame),
         Len(b) <= p.written, TapeGood(p, out, b), p.at \in Places,
         out # NoOutgoing => p.written - Len(b) <= p.leadIn,
         NEW q \in PlayingType, SetAsideTo(p, out, b, q)
  PROVE  /\ TapeGood(q, out, <<>>)
         /\ \A l : HearsAt(p, out, p.written - Len(b), l) => HearsAt(q, out, 0, l)
         /\ out # NoOutgoing => q.leadIn <= out.end /\ out.end = Length[out.at]
         /\ out = NoOutgoing => q.leadIn = 0 /\ q.base <= Length[p.at]
<1> DEFINE n == Len(b)
           m == Len(p.pending)
           w == p.written
           c == p.leadIn
           y == p.base
           x == p.next + p.skip
           end == out.end
           h == w - n
           z == Length[p.at]
<1>1. /\ n \in Nat /\ m \in Nat /\ w \in Nat /\ c \in Nat /\ y \in Nat /\ x \in Nat
      /\ end \in Nat /\ n <= w /\ p.pending \in Seq(Frame) /\ z \in Nat
  <2>4. p.next \in Nat /\ p.skip \in Nat
    BY DEF PlayingType
  <2>1. /\ w \in Nat /\ c \in Nat /\ y \in Nat /\ x \in Nat /\ p.pending \in Seq(Frame)
    <3>1. x \in Nat
      BY <2>4
    <3>2. w \in Nat /\ c \in Nat /\ y \in Nat /\ p.pending \in Seq(Frame)
      <4> HIDE DEF x
      <4> QED BY DEF PlayingType
    <3> QED BY <3>1, <3>2
  <2>2. n \in Nat /\ m \in Nat
    BY <2>1, LenProperties
  <2>3. z \in Nat /\ end \in Nat
    BY Sizes
  <2> QED BY <2>1, <2>2, <2>3
<1>2. CountsGood(p, out, n) /\ Runs(b, Tape(p, out), w - n) /\ Runs(p.pending, Tape(p, out), w)
  BY DEF TapeGood
<1>3. /\ p.source => x <= z /\ x + c = y + w + m
      /\ ~p.source => p.pending = <<>> /\ w = 0 /\ c = 0 /\ y < z /\ ~p.done
                      /\ out = NoOutgoing
      /\ out # NoOutgoing => y = 0 /\ c + n <= end + w /\ end = Length[out.at]
                             /\ p.at = out.at + 1
      /\ out = NoOutgoing => c + n <= w
      /\ p.at = 1 => c = 0
      /\ p.done => p.source /\ p.next = z
  BY <1>2 DEF CountsGood
<1>4. b \o p.pending \in Seq(Frame) /\ Len(b \o p.pending) = n + m
  BY <1>1, JoinedFrames
<1>5. /\ q.at = p.at /\ q.source = p.source /\ q.next = p.next /\ q.skip = p.skip
      /\ q.done = p.done /\ q.pending = b \o p.pending /\ q.written = 0
      /\ out # NoOutgoing => q.leadIn = Less(c, h) /\ q.base = y
      /\ out = NoOutgoing => q.leadIn = 0 /\ q.base = y + Less(h, c)
  BY DEF SetAsideTo
<1>16. out # NoOutgoing => h <= c
  OBVIOUS
<1> HIDE DEF n, m, w, c, y, x, end, z
<1>6. h \in Nat /\ h + n = w /\ h + 0 = h
  BY <1>1
<1>17. h = w - n
  OBVIOUS
<1> HIDE DEF h
<1>7. /\ \A i, j \in Nat : j <= i => Less(i, j) = i - j
      /\ \A i \in Nat : Less(0, i) = 0
  BY DEF Less
<1>8. out # NoOutgoing => q.leadIn = c - h /\ q.base = y /\ h <= c
  BY <1>1, <1>5, <1>6, <1>7, <1>16
<1>9. out = NoOutgoing => q.leadIn = 0 /\ q.base = y + (h - c) /\ c <= h
  <2>1. out = NoOutgoing => c <= h
    BY <1>1, <1>3, <1>6
  <2> QED BY <1>1, <1>5, <1>6, <1>7, <2>1
<1>10. Runs(q.pending, Tape(q, out), 0)
  <2>1. Runs(b \o p.pending, Tape(p, out), h)
    BY <1>1, <1>2, <1>6, <1>17, RunsJoined DEF n
  <2>2. SameTape(Tape(q, out), 0, Tape(p, out), h + 0, n + m)
    <3>1. n + m \in Nat
      BY <1>1
    <3>2. /\ out # NoOutgoing => h <= p.leadIn /\ q.leadIn = p.leadIn - h /\ q.base = p.base
          /\ out = NoOutgoing => p.leadIn <= h /\ q.leadIn = 0 /\ q.base = p.base + (h - p.leadIn)
          /\ out # NoOutgoing => p.base = 0
      BY <1>3, <1>8, <1>9 DEF c, y
    <3>3. q.at = p.at
      BY <1>5
    <3> QED BY <1>6, <3>1, <3>2, <3>3, TapeAside
  <2>3. q.pending = b \o p.pending /\ h + 0 = h /\ Len(q.pending) = n + m
    BY <1>4, <1>5, <1>6
  <2>4. Runs(q.pending, Tape(p, out), h)
    BY <2>1, <2>3
  <2>5. SameTape(Tape(q, out), 0, Tape(p, out), h, Len(q.pending))
    BY <2>2, <2>3
  <2> QED BY <2>4, <2>5, RunsAs
<1>11. CountsGood(q, out, 0)
  <2>1. p.source => q.next + q.skip + q.leadIn = q.base + 0 + Len(q.pending)
    <3> DEFINE s == q.leadIn
               t == q.base
    <3>4. s \in Nat /\ t \in Nat
      BY DEF PlayingType
    <3>1. q.next + q.skip = x /\ Len(q.pending) = n + m
      BY <1>4, <1>5 DEF x
    <3>2. /\ out # NoOutgoing => s = c - h /\ t = y /\ h <= c
          /\ out = NoOutgoing => s = 0 /\ t = y + (h - c) /\ c <= h
      BY <1>8, <1>9
    <3> HIDE DEF s, t
    <3>3. ASSUME p.source PROVE x + s = t + 0 + (n + m)
      <4>1. x + c = y + (h + n) + m
        BY <1>3, <1>6, <3>3
      <4>2. CASE out # NoOutgoing
        <5>1. s = c - h /\ t = y /\ h <= c
          BY <3>2, <4>2
        <5> QED BY <1>1, <1>6, <4>1, <5>1
      <4>3. CASE out = NoOutgoing
        <5>1. s = 0 /\ t = y + (h - c) /\ c <= h
          BY <3>2, <4>3
        <5> QED BY <1>1, <1>6, <4>1, <5>1
      <4> QED BY <4>2, <4>3
    <3> QED BY <3>1, <3>3 DEF s, t
  <2>2. ~p.source => q.pending = <<>> /\ q.base < z
    <3> SUFFICES ASSUME ~p.source PROVE q.pending = <<>> /\ q.base < z
      OBVIOUS
    <3>1. p.pending = <<>> /\ w = 0 /\ c = 0 /\ y < z /\ out = NoOutgoing
      BY <1>3
    <3>2. n = 0 /\ h = 0 /\ m = 0
      BY <1>1, <1>17, <3>1, EmptySeq DEF m
    <3>3. n + m = 0 /\ y + (h - c) = y
      BY <1>1, <3>1, <3>2
    <3> QED BY <1>4, <1>5, <1>9, <3>1, <3>3, EmptySeq
  <2>3. out # NoOutgoing => q.leadIn + 0 <= end + 0 /\ q.base = 0
    BY <1>1, <1>3, <1>6, <1>8
  <2>4. out = NoOutgoing => q.leadIn + 0 <= 0
    BY <1>9
  <2>5. q.at = 1 => q.leadIn = 0
    <3>1. p.at = 1 => c = 0
      BY <1>3
    <3>2. c = 0 /\ out # NoOutgoing => q.leadIn = 0
      BY <1>6, <1>8
    <3>3. out = NoOutgoing => q.leadIn = 0
      BY <1>9
    <3>4. q.at = p.at
      BY <1>5
    <3> QED BY <3>1, <3>2, <3>3, <3>4
  <2> QED BY <1>3, <1>5, <2>1, <2>2, <2>3, <2>4, <2>5 DEF CountsGood, end, x, z
<1>12. TapeGood(q, out, <<>>)
  <2>1. Len(<<>>) = 0
    BY EmptySeq
  <2>2. 0 - 0 = 0
    OBVIOUS
  <2> QED BY <1>5, <1>10, <1>11, <2>1, RunsEmpty DEF TapeGood
<1>13. ASSUME NEW l, HearsAt(p, out, h, l) PROVE HearsAt(q, out, 0, l)
  <2>1. CASE out # NoOutgoing
    <3>1. IsAt(l, out.at, (end + h) - c)
      BY <1>8, <1>13, <2>1 DEF HearsAt, end, c
    <3>2. (end + 0) - q.leadIn = (end + h) - c /\ 0 <= q.leadIn
      BY <1>1, <1>6, <1>8, <2>1
    <3> QED BY <2>1, <3>1, <3>2 DEF HearsAt, end
  <2>2. CASE out = NoOutgoing
    <3>1. IsAt(l, p.at, (y + h) - c)
      BY <1>13, <2>2 DEF HearsAt, y, c
    <3>2. (q.base + 0) - q.leadIn = (y + h) - c
      BY <1>1, <1>6, <1>9, <2>2
    <3> QED BY <1>5, <2>2, <3>1, <3>2 DEF HearsAt
  <2> QED BY <2>1, <2>2
<1>14. out # NoOutgoing => q.leadIn <= out.end /\ out.end = Length[out.at]
  <2>1. out # NoOutgoing => q.leadIn <= end
    BY <1>1, <1>3, <1>6, <1>8
  <2> QED BY <1>3, <2>1 DEF end
<1>15. out = NoOutgoing => q.leadIn = 0 /\ q.base <= z
  <2>1. CASE p.source
    <3>1. x <= z /\ x + c = y + (h + n) + m
      BY <1>3, <1>6, <2>1
    <3>2. out = NoOutgoing => q.base <= x
      BY <1>1, <1>6, <1>9, <3>1
    <3> QED BY <1>1, <1>6, <1>9, <3>1, <3>2
  <2>2. CASE ~p.source
    <3>1. out = NoOutgoing => q.base = y
      <4>1. w = 0 /\ c = 0
        BY <1>3, <2>2
      <4> QED BY <1>1, <1>6, <1>9, <4>1
    <3> QED BY <1>1, <1>3, <1>9, <2>2, <3>1
  <2> QED BY <2>1, <2>2
<1> QED BY <1>12, <1>13, <1>14, <1>15 DEF h, w, n, z


LEMMA SetAsideFields ==
  ASSUME NEW e \in EngineType, NEW queued \in Nat, Crossed(e, queued) \in EngineType,
         Crossed(e, queued).playing = e.playing,
         NEW b \in Seq(Frame), b = Keep(e.playing.recent, KeptOf(e.playing, queued)),
         Len(b) = KeptOf(e.playing, queued), SetAside(e, queued) \in EngineType
  PROVE  /\ SetAsideTo(e.playing, Crossed(e, queued).outgoing, b, SetAside(e, queued).playing)
         /\ SetAside(e, queued).outgoing = Crossed(e, queued).outgoing
         /\ SetAside(e, queued).state = "Paused" /\ SetAside(e, queued).busy = "no"
         /\ SetAside(e, queued).sink = FALSE
<1> DEFINE c == Crossed(e, queued)
           p == e.playing
           f == SetAside(e, queued)
           h == p.written - Len(b)
           new == b \o p.pending
           aside == [p EXCEPT !.pending = new, !.recent = <<>>, !.written = 0,
                              !.sinkPaused = FALSE]
           r == IF c.outgoing # NoOutgoing
                  THEN [aside EXCEPT !.leadIn = Less(aside.leadIn, h)]
                  ELSE [aside EXCEPT !.base = aside.base + Less(h, p.leadIn), !.leadIn = 0]
<1>1. f = [c EXCEPT !.busy = "no", !.sink = FALSE, !.state = "Paused", !.playing = r]
  BY DEF SetAside, KeptOf
<1>2. p \in PlayingType
  BY DEF EngineType
<1>7. new \in Seq(Frame)
  <2>1. p.pending \in Seq(Frame)
    BY <1>2 DEF PlayingType
  <2> QED BY <2>1, JoinedFrames
<1> HIDE DEF c, p, f, h, new
<1>3. /\ aside.at = p.at /\ aside.source = p.source /\ aside.next = p.next
      /\ aside.skip = p.skip /\ aside.done = p.done /\ aside.pending = new
      /\ aside.written = 0 /\ aside.leadIn = p.leadIn /\ aside.base = p.base
      /\ aside \in PlayingType
  BY <1>2, <1>7, RealEmpty DEF PlayingType
<1> HIDE DEF aside
<1>4. /\ r.at = p.at /\ r.source = p.source /\ r.next = p.next /\ r.skip = p.skip
      /\ r.done = p.done /\ r.pending = new /\ r.written = 0
      /\ c.outgoing # NoOutgoing => r.leadIn = Less(p.leadIn, h) /\ r.base = p.base
      /\ c.outgoing = NoOutgoing => r.leadIn = 0 /\ r.base = p.base + Less(h, p.leadIn)
  <2>1. CASE c.outgoing # NoOutgoing
    BY <1>3, <2>1 DEF PlayingType
  <2>2. CASE c.outgoing = NoOutgoing
    BY <1>3, <2>2 DEF PlayingType
  <2> QED BY <2>1, <2>2
<1> HIDE DEF r
<1>5. /\ f.outgoing = c.outgoing /\ f.playing = r /\ f.state = "Paused" /\ f.busy = "no"
      /\ f.sink = FALSE
  <2>1. c \in EngineType
    BY DEF c
  <2> QED BY <1>1, <2>1 DEF EngineType
<1>6. SetAsideTo(p, c.outgoing, b, f.playing)
  BY <1>4, <1>5 DEF SetAsideTo, h, new
<1> QED BY <1>5, <1>6 DEF c, p, f

(* Where the listener goes on is near.                                     *)
LEMMA ResumesNear ==
  ASSUME Base(engine, download, output), BusyGood(engine, output), engine.state \in OnTrack,
         Fits(engine, download, Audio(output), listener), listener \in ListenerType,
         NEW i, i = engine.playing.at \/ (engine.outgoing # NoOutgoing /\ i = engine.outgoing.at)
  PROVE  i \in Places /\ i \in listener.at - 1 .. listener.at + 2
<1> DEFINE at == engine.playing.at
           out == engine.outgoing
<1>1. /\ at \in Places /\ (out # NoOutgoing => out.at \in Places)
      /\ listener.at \in Nat /\ at \in Nat
  BY Sizes DEF Base, TrackBase, ListenerType
<1>2. out # NoOutgoing => at = out.at + 1
  BY DEF Fits, Good, TapeGood, CountsGood
<1>3. \/ at \in listener.at..listener.at + 1
      \/ out # NoOutgoing /\ out.at \in listener.at..listener.at + 1
  <2>1. CASE GivesUp(engine)
    <3>1. listener.at = at
      BY <2>1 DEF Fits, Follows, LosesEnd
    <3> QED BY <1>1, <3>1
  <2>2. CASE ~GivesUp(engine)
    <3>1. HearsAt(engine.playing, out, engine.playing.written - Len(Audio(output)), listener)
      BY <2>2 DEF Fits, Follows
    <3> QED BY <1>1, <3>1, AtNear DEF HearsAt
  <2> QED BY <2>1, <2>2
<1>4. out # NoOutgoing => out.at \in Nat
  BY <1>1, Sizes
<1>5. i \in Places
  BY <1>1
<1> HIDE DEF at
<1>6. i = at \/ (out # NoOutgoing /\ i = out.at)
  BY DEF at
<1>7. i \in listener.at - 1 .. listener.at + 2
  <2>1. CASE out # NoOutgoing
    <3> DEFINE o == out.at
    <3>1. at = o + 1 /\ o \in Nat /\ (i = at \/ i = o)
          /\ (at \in listener.at..listener.at + 1 \/ o \in listener.at..listener.at + 1)
      BY <1>2, <1>3, <1>4, <1>6, <2>1
    <3> HIDE DEF o
    <3> QED BY <1>1, <3>1
  <2>2. CASE out = NoOutgoing
    <3>1. i = at /\ at \in listener.at..listener.at + 1
      BY <1>3, <1>6, <2>2
    <3> QED BY <1>1, <3>1
  <2> QED BY <2>1, <2>2
<1> QED BY <1>5, <1>7

LEMMA SetAsideGoesOn ==
  ASSUME Base(engine, download, output), BusyGood(engine, output), engine.sink = TRUE,
         engine.state \in {"Playing", "Paused"}, listener \in ListenerType,
         Fits(engine, download, Audio(output), listener),
         output.gone = "no" => ~GivesUp(engine),
         NEW queued \in Queued, Aside(SetAside(engine, queued))
  PROVE  /\ Fits(SetAside(engine, queued), download, <<>>, listener')
         /\ Listens(listener, listener')
<1> DEFINE p == engine.playing
           w == p.written
           a == Audio(output)
           n == Len(a)
           k == KeptOf(p, queued)
           b == Keep(p.recent, k)
           c == Crossed(engine, queued)
           f == SetAside(engine, queued)
           q == f.playing
           out == c.outgoing
<1>1. /\ engine \in EngineType /\ p \in PlayingType /\ p.at \in Places /\ TrackBase(engine)
      /\ engine.outgoing \in [at : Nat, end : Nat] /\ engine.state \in OnTrack
      /\ output \in OutputType /\ Held(Line(output), output.silent, a)
      /\ p.recent \in Seq(Frame) /\ w \in Nat /\ n <= w /\ Kept(p.recent, a)
  BY DEF Base, SoundBase, TrackBase, OnTrack, EngineType, PlayingType
<1>2. a \in Seq(Frame) /\ n \in Nat
  BY <1>1, AudioProperties
<1>3. /\ k \in 0..n /\ Heard(engine, queued) = w - k /\ (output.gone = "no" => k = n)
  BY QueuedCounts
<1>4. queued \in Nat
  BY QueuedType
<1> HIDE DEF a, k
<1>5. k \in Nat /\ k <= w /\ n - k \in 0..n /\ n - (n - k) = k
  BY <1>1, <1>2, <1>3
<1>6. b = SubSeq(a, (n - k) + 1, n)
  BY <1>1, <1>2, <1>3, KeptPart
<1>7. b \in Seq(Frame) /\ Len(b) = k
  BY <1>2, <1>5, <1>6, AfterProperties
<1>8. TapeGood(p, engine.outgoing, b)
  <2>1. TapeGood(p, engine.outgoing, a)
    BY <1>1 DEF Fits, Good, a
  <2>2. TapeGood(p, engine.outgoing, SubSeq(a, (n - k) + 1, n))
    BY <1>1, <1>2, <1>3, <2>1, TapeHeard
  <2> QED BY <1>6, <2>2
<1> HIDE DEF b
<1>9. Good(engine, download, b) /\ p.source /\ download.avail <= Length[p.at]
  BY <1>8 DEF Fits, Good
<1>10. /\ Good(c, download, b) /\ c.playing = p /\ c.state = engine.state
       /\ out \in {engine.outgoing, NoOutgoing} /\ c \in EngineType
       /\ \A l \in ListenerType : HearsAt(p, engine.outgoing, w - k, l) => HearsAt(p, out, w - k, l)
       /\ out # NoOutgoing => w - k <= p.leadIn
  <2>1. /\ engine \in EngineType /\ TrackBase(engine) /\ b \in Seq(Frame)
        /\ Len(b) <= engine.playing.written /\ Good(engine, download, b)
        /\ Heard(engine, queued) = engine.playing.written - Len(b)
    BY <1>1, <1>3, <1>5, <1>7, <1>9
  <2>2. /\ Good(c, download, b) /\ c.playing = p /\ c.state = engine.state
        /\ out \in {engine.outgoing, NoOutgoing} /\ c \in EngineType
        /\ \A l \in ListenerType :
             HearsAt(p, engine.outgoing, w - Len(b), l) => HearsAt(p, out, w - Len(b), l)
        /\ out # NoOutgoing /\ engine.sink => w - Len(b) <= p.leadIn
    BY <2>1, CrossedGood
  <2>3. Len(b) = k /\ engine.sink
    BY <1>7
  <2> HIDE DEF p, w, c, out
  <2> QED BY <2>2, <2>3
<1>11. f \in EngineType
  BY <1>1, <1>4, AsideBase
<1>12. /\ SetAsideTo(p, out, b, q) /\ f.outgoing = out /\ f.state = "Paused" /\ f.busy = "no"
  <2>1. b = Keep(p.recent, KeptOf(p, queued)) /\ Len(b) = KeptOf(p, queued)
    BY <1>7 DEF b, k
  <2>2. /\ engine \in EngineType /\ queued \in Nat /\ c \in EngineType /\ c.playing = p
        /\ b \in Seq(Frame) /\ f \in EngineType
    BY <1>1, <1>4, <1>7, <1>10, <1>11
  <2> QED BY <2>1, <2>2, SetAsideFields
<1> HIDE DEF c, f
<1>13. q \in PlayingType /\ out \in [at : Nat, end : Nat] /\ TapeGood(p, out, b)
  BY <1>1, <1>10, <1>11 DEF EngineType, Good
<1>14. /\ TapeGood(q, out, <<>>)
       /\ \A l : HearsAt(p, out, w - k, l) => HearsAt(q, out, 0, l)
       /\ out # NoOutgoing => q.leadIn <= out.end /\ out.end = Length[out.at]
       /\ out = NoOutgoing => q.leadIn = 0 /\ q.base <= Length[p.at]
  BY <1>1, <1>5, <1>7, <1>10, <1>12, <1>13, AsideTape
<1>15. /\ q.at = p.at /\ q.source = p.source /\ q.written = 0
  BY <1>12 DEF SetAsideTo
<1> HIDE DEF q, out
<1>16. Good(f, download, <<>>)
  BY <1>9, <1>12, <1>14, <1>15 DEF Good, OnTrack, q
<1>17. /\ Resumes(f).at = IF out # NoOutgoing THEN out.at ELSE p.at
       /\ out # NoOutgoing => Resumes(f).position = out.end - q.leadIn
       /\ out = NoOutgoing => Resumes(f).position = q.base
  <2>1. Heard(f, 0) = 0
    BY <1>15 DEF Heard, Less, q
  <2>2. q.leadIn \in Nat /\ q.base \in Nat /\ out.end \in Nat
    BY <1>13 DEF PlayingType
  <2>3. Less(q.leadIn, 0) = q.leadIn
    BY <2>2 DEF Less
  <2>4. out # NoOutgoing => Less(out.end, q.leadIn) = out.end - q.leadIn
    <3>1. \A i, j \in Nat : j <= i => Less(i, j) = i - j
      BY DEF Less
    <3> QED BY <1>14, <2>2, <3>1
  <2>5. out = NoOutgoing => q.base + Less(0, q.leadIn) = q.base
    <3>1. Less(0, 0) = 0
      BY DEF Less
    <3> QED BY <1>14, <2>2, <3>1
  <2> QED BY <1>12, <1>15, <2>1, <2>3, <2>4, <2>5 DEF Resumes, Position, q
<1>18. \A l : IsAt(l, Resumes(f).at, Resumes(f).position) => HearsAt(q, out, 0, l)
  <2>1. q.leadIn \in Nat /\ q.base \in Nat /\ out.end \in Nat
    BY <1>13 DEF PlayingType
  <2>2. CASE out # NoOutgoing
    <3>1. 0 <= q.leadIn /\ (out.end + 0) - q.leadIn = out.end - q.leadIn
      BY <2>1
    <3> QED BY <1>17, <2>2, <3>1 DEF HearsAt
  <2>3. CASE out = NoOutgoing
    <3>1. (q.base + 0) - q.leadIn = q.base
      BY <1>14, <2>1, <2>3
    <3> QED BY <1>15, <1>17, <2>3, <3>1 DEF HearsAt
  <2> QED BY <2>2, <2>3
<1>19. Resumes(f).position \in 0..Length[Resumes(f).at]
  <2>1. q.leadIn \in Nat /\ q.base \in Nat /\ out.end \in Nat /\ Length[p.at] \in Nat
    BY <1>1, <1>13, Sizes DEF PlayingType
  <2>2. CASE out # NoOutgoing
    <3> DEFINE i == q.leadIn
               j == out.end
    <3>1. i \in Nat /\ j \in Nat /\ i <= j
      BY <1>14, <2>1, <2>2
    <3> HIDE DEF i, j
    <3>2. j - i \in 0..j
      BY <3>1
    <3> QED BY <1>14, <1>17, <2>2, <3>2 DEF i, j
  <2>3. CASE out = NoOutgoing
    <3>1. q.base \in 0..Length[p.at]
      BY <1>14, <2>1, <2>3
    <3> QED BY <1>17, <2>3, <3>1
  <2> QED BY <2>2, <2>3
<1>20. /\ Listens(listener, listener') /\ listener'.position <= Length[listener'.at]
       /\ HearsAt(q, out, 0, listener')
  <2>1. CASE output.gone = "no"
    <3>1. listener' = listener
      BY <2>1 DEF Aside
    <3>2. HearsAt(p, engine.outgoing, w - k, listener) /\ listener.position <= Length[listener.at]
      BY <1>1, <1>3, <2>1 DEF Fits, Follows, a
    <3> QED BY <1>10, <1>14, <3>1, <3>2 DEF Listens
  <2>2. CASE output.gone # "no"
    <3> DEFINE i == Resumes(f).at
               x == Resumes(f).position
    <3>1. listener' = Jumped(i, x)
      BY <2>2 DEF Aside, f
    <3>2. i \in Places /\ i \in listener.at - 1 .. listener.at + 2
      <4>1. i = p.at \/ (engine.outgoing # NoOutgoing /\ i = engine.outgoing.at)
        BY <1>10, <1>17
      <4> HIDE DEF i
      <4> QED BY <1>1, <4>1, ResumesNear
    <3>3. x \in 0..Length[i]
      BY <1>19
    <3> HIDE DEF i, x
    <3>4. /\ Listens(listener, listener') /\ listener'.position <= Length[listener'.at]
          /\ IsAt(listener', i, x)
      BY <3>1, <3>2, <3>3, LeapsTo
    <3> QED BY <1>18, <3>4 DEF i, x
  <2> QED BY <2>1, <2>2
<1>21. Follows(f, <<>>, listener')
  <2>1. ~GivesUp(f)
    BY <1>12 DEF GivesUp
  <2>2. q.written - Len(<<>>) = 0
    <3>1. Len(<<>>) = 0 /\ 0 - 0 = 0
      BY EmptySeq
    <3> QED BY <1>15, <3>1
  <2> QED BY <1>12, <1>20, <2>1, <2>2 DEF Follows, q
<1> QED BY <1>16, <1>20, <1>21 DEF Fits, f

LEMMA OutputLostGoesOn ==
  ASSUME Inv, OutputLost
  PROVE  GoesOn
<1>1. /\ engine.state = "Playing" /\ engine.sink = TRUE /\ output.gone # "no"
      /\ output' = Closed /\ download' = download
  <2>1. engine.state = "Playing"
    BY InvFacts DEF OutputLost, BusyGood
  <2>2. engine.sink = TRUE
    BY <2>1, InvFacts DEF TrackBase
  <2> QED BY <2>1, <2>2 DEF OutputLost
<1>2. PICK queued \in Queued : engine' = SetAside(engine, queued) /\ Aside(SetAside(engine, queued))
  BY DEF OutputLost
<1>3. /\ Fits(SetAside(engine, queued), download, <<>>, listener')
      /\ Listens(listener, listener')
  BY <1>1, <1>2, InvFacts, SetAsideGoesOn
<1>4. Audio(output') = <<>>
  BY <1>1, ClosedOutput
<1> QED BY <1>1, <1>2, <1>3, <1>4 DEF GoesOn

LEMMA HandOverOutputGoesOn ==
  ASSUME Inv, HandOverOutput
  PROVE  GoesOn
<1>1. engine.busy = "no" /\ ~GivesUp(engine) /\ download' = download
  BY InvFacts, AskedSpent DEF HandOverOutput, GivesUp
<1>2. /\ engine.sink = TRUE /\ engine.state \in {"Playing", "Paused"}
      /\ engine.state \in OnTrack
  BY InvFacts DEF HandOverOutput, OnTrack
<1>3. CASE StopPlaying /\ listener' = listener
  <2>1. Fits(engine', download', Audio(output'), listener)
    BY <1>3, InvFacts, StoppedFits DEF StopPlaying
  <2> QED BY <1>3, <2>1 DEF GoesOn, Listens
<1>4. ASSUME NEW queued \in Queued, NEW reopens \in BOOLEAN,
             engine' = [SetAside(engine, queued) EXCEPT !.sink = reopens,
                          !.state = IF reopens THEN "Playing" ELSE "Paused"],
             output' = IF reopens THEN Opened ELSE Closed,
             Aside(SetAside(engine, queued))
      PROVE  GoesOn
  <2> DEFINE f == SetAside(engine, queued)
  <2>1. queued \in Nat
    BY InvFacts, QueuedType
  <2>2. f \in EngineType /\ f.state = "Paused" /\ f.busy = "no"
    <3>1. Base(engine, download, output)
      BY InvFacts
    <3> QED BY <1>2, <2>1, <3>1, AsideBase
  <2>3. Fits(f, download, <<>>, listener') /\ Listens(listener, listener')
    BY <1>1, <1>2, <1>4, InvFacts, SetAsideGoesOn
  <2> HIDE DEF f
  <2>4. /\ engine'.state \in {"Playing", "Paused"} /\ engine'.busy = "no"
        /\ engine'.playing = f.playing /\ engine'.outgoing = f.outgoing
        /\ engine'.loading = f.loading
    <3>1. engine' = [f EXCEPT !.sink = reopens, !.state = IF reopens THEN "Playing" ELSE "Paused"]
      BY <1>4 DEF f
    <3> QED BY <2>2, <3>1 DEF EngineType
  <2>5. SamePlace(f.playing, engine'.playing) /\ ~GivesUp(f) /\ ~GivesUp(engine')
    BY <2>2, <2>4 DEF SamePlace, GivesUp
  <2>6. Fits(engine', download, <<>>, listener')
    BY <2>2, <2>3, <2>4, <2>5, FitsSame
  <2>7. Audio(output') = <<>>
    BY <1>4, OpenedOutput, ClosedOutput
  <2> QED BY <1>1, <2>3, <2>6, <2>7 DEF GoesOn
<1>5. CASE \E queued \in Queued, switch \in BOOLEAN :
             LET aside == SetAside(engine, queued)
                 reopens == switch /\ engine.state = "Playing"
             IN /\ engine' = [aside EXCEPT !.sink = reopens,
                                !.state = IF reopens THEN "Playing" ELSE "Paused"]
                /\ output' = IF reopens THEN Opened ELSE Closed
                /\ Aside(aside)
  BY <1>4, <1>5
<1> QED BY <1>3, <1>5 DEF HandOverOutput

---------------------------------------------------------------------------
(* Pausing, and the tracks that are loaded.                                *)

(* Where a closed or an emptied output has no audio.                       *)
LEMMA NoAudio ==
  ASSUME NEW o, Held(Line(o), o.silent, Audio(o)), o.ring = <<>>, o.server = <<>>
  PROVE  Audio(o) = <<>>
<1>1. Line(o) = <<>>
  BY LineAlone, EmptySeq DEF Line
<1> QED BY <1>1, HeldNothing

(* The state changes, and nothing of the track.                            *)
LEMMA ToggledGoesOn ==
  ASSUME Inv, engine.busy = "no", engine.state \in {"Playing", "Paused"},
         NEW state \in {"Playing", "Paused"}, NEW sink \in BOOLEAN, NEW paused \in BOOLEAN,
         engine' = [engine EXCEPT !.state = state, !.sink = sink, !.playing.sinkPaused = paused],
         Audio(output') = Audio(output), download' = download, listener' = listener
  PROVE  GoesOn
<1>1. /\ engine'.state = state /\ engine'.busy = "no" /\ engine'.outgoing = engine.outgoing
      /\ engine'.loading = engine.loading /\ SamePlace(engine.playing, engine'.playing)
  BY InvFacts DEF EngineType, PlayingType, SamePlace
<1>2. ~GivesUp(engine) /\ ~GivesUp(engine')
  BY <1>1 DEF GivesUp
<1>3. Fits(engine', download, Audio(output), listener)
  BY <1>1, <1>2, InvFacts, FitsSame
<1> QED BY <1>3 DEF GoesOn, Listens

LEMMA PauseGoesOn ==
  ASSUME Inv, Pause
  PROVE  GoesOn
<1>1. /\ engine.busy = "no" /\ engine.state = "Playing" /\ engine.sink = TRUE
      /\ download' = download /\ listener' = listener
      /\ \/ StopPlaying
         \/ /\ engine' = [engine EXCEPT !.state = "Paused", !.playing.sinkPaused = TRUE]
            /\ output' = [output EXCEPT !.corked = TRUE]
  BY InvFacts, AskedSpent DEF Pause, Cork, TrackBase
<1>2. CASE StopPlaying
  <2>1. Fits(engine', download', Audio(output'), listener)
    BY <1>2, InvFacts, StoppedFits DEF StopPlaying
  <2> QED BY <1>1, <2>1 DEF GoesOn, Listens
<1>3. CASE /\ engine' = [engine EXCEPT !.state = "Paused", !.playing.sinkPaused = TRUE]
           /\ output' = [output EXCEPT !.corked = TRUE]
  <2>1. Audio(output') = Audio(output)
    BY <1>3, InvFacts DEF OutputType, Audio, Line
  <2>2. engine' = [engine EXCEPT !.state = "Paused", !.sink = engine.sink, !.playing.sinkPaused = TRUE]
    BY <1>3, InvFacts DEF EngineType, PlayingType
  <2> QED BY <1>1, <2>1, <2>2, InvFacts, ToggledGoesOn
<1> QED BY <1>1, <1>2, <1>3

LEMMA ResumeGoesOn ==
  ASSUME Inv, Resume
  PROVE  GoesOn
<1>1. /\ engine.busy = "no" /\ engine.state = "Paused"
      /\ download' = download /\ listener' = listener
      /\ \/ StopPlaying
         \/ /\ engine' = [engine EXCEPT !.state = "Playing", !.sink = TRUE,
                                        !.playing.sinkPaused = FALSE]
            /\ output' = IF ~engine.sink THEN Opened
                         ELSE IF engine.playing.sinkPaused
                           THEN [output EXCEPT !.corked = FALSE] ELSE output
  BY DEF Resume, Free
<1>2. CASE StopPlaying
  <2>1. Fits(engine', download', Audio(output'), listener)
    BY <1>2, InvFacts, StoppedFits DEF StopPlaying
  <2> QED BY <1>1, <2>1 DEF GoesOn, Listens
<1>3. CASE /\ engine' = [engine EXCEPT !.state = "Playing", !.sink = TRUE,
                                       !.playing.sinkPaused = FALSE]
           /\ output' = IF ~engine.sink THEN Opened
                        ELSE IF engine.playing.sinkPaused
                          THEN [output EXCEPT !.corked = FALSE] ELSE output
  <2>1. Audio(output') = Audio(output)
    <3>1. CASE engine.sink = FALSE
      <4>1. Audio(output) = <<>>
        BY <3>1, InvFacts, NoAudio DEF Base, OutputGood
      <4> QED BY <1>3, <3>1, <4>1, OpenedOutput
    <3>2. CASE engine.sink = TRUE
      BY <1>3, <3>2, InvFacts DEF OutputType, Audio, Line
    <3> QED BY <3>1, <3>2, InvFacts
  <2> QED BY <1>1, <1>3, <2>1, ToggledGoesOn
<1> QED BY <1>1, <1>2, <1>3

LEMMA DrainedGoesOn ==
  ASSUME Inv, Drained
  PROVE  GoesOn
<1> DEFINE p == engine.playing
           a == Audio(output)
<1>1. /\ engine.busy = "draining" /\ engine.state = "Playing" /\ p.done
      /\ engine.outgoing = NoOutgoing /\ p.at \in Places
      /\ download' = download /\ listener' = listener
      /\ \/ StopPlaying
         \/ /\ output.ring = <<>> /\ output.server = <<>>
            /\ engine' = LoadAfter(engine, p.at)
            /\ output' = IF engine'.sink THEN [output EXCEPT !.needsSilence = TRUE] ELSE Closed
  BY InvFacts DEF Drained, BusyGood, TrackBase, OnTrack
<1>2. CASE StopPlaying
  <2>1. Fits(engine', download', Audio(output'), listener)
    BY <1>2, InvFacts, StoppedFits DEF StopPlaying
  <2> QED BY <1>1, <2>1 DEF GoesOn, Listens
<1>3. CASE /\ output.ring = <<>> /\ output.server = <<>>
           /\ engine' = LoadAfter(engine, p.at)
  <2>1. a = <<>>
    BY <1>3, InvFacts, NoAudio
  <2>2. listener.at = p.at /\ listener.position = Length[p.at]
    <3>1. CASE GivesUp(engine)
      BY <3>1, InvFacts DEF Fits, Follows, LosesEnd
    <3>2. CASE ~GivesUp(engine)
      <4>1. p.pending = <<>>
        BY <1>1, <3>2 DEF GivesUp
      <4>2. TapeGood(p, NoOutgoing, a) /\ HearsAt(p, NoOutgoing, p.written - Len(a), listener)
        BY <1>1, <3>2, InvFacts DEF Fits, Good, Follows, OnTrack
      <4>3. CountsGood(p, NoOutgoing, Len(a)) /\ Len(a) = 0 /\ Len(p.pending) = 0
        BY <2>1, <4>1, <4>2, EmptySeq DEF TapeGood
      <4>4. /\ p.next = Length[p.at] /\ p.next + p.skip <= Length[p.at]
            /\ p.next + p.skip + p.leadIn = p.base + p.written + 0
        BY <1>1, <4>3 DEF CountsGood
      <4>5. /\ p.next \in Nat /\ p.skip \in Nat /\ p.leadIn \in Nat /\ p.base \in Nat
            /\ p.written \in Nat
        BY InvFacts DEF PlayingType
      <4>6. (p.base + (p.written - 0)) - p.leadIn = p.next
        <5> DEFINE x == p.next
                   s == p.skip
                   l == p.leadIn
                   b == p.base
                   w == p.written
        <5>1. /\ x \in Nat /\ s \in Nat /\ l \in Nat /\ b \in Nat /\ w \in Nat
              /\ x + s <= x /\ x + s + l = b + w + 0
          BY <4>4, <4>5
        <5> HIDE DEF x, s, l, b, w
        <5>2. (b + (w - 0)) - l = x
          BY <5>1
        <5> QED BY <5>2 DEF x, s, l, b, w
      <4>7. IsAt(listener, p.at, Length[p.at])
        BY <4>2, <4>3, <4>4, <4>6 DEF HearsAt
      <4> QED BY <1>1, <4>7, Sizes DEF IsAt
    <3> QED BY <3>1, <3>2
  <2>3. IsAt(listener, p.at + 1, 0)
    BY <2>2 DEF IsAt
  <2>4. Fits(engine', download', Audio(output'), listener)
    BY <1>3, <2>3, InvFacts, LoadAfterFits
  <2> QED BY <1>1, <2>4 DEF GoesOn, Listens
<1> QED BY <1>1, <1>2, <1>3

LEMMA LoadedGoesOn ==
  ASSUME Inv, Loaded
  PROVE  GoesOn
<1> DEFINE i == engine.loading
           p == Started(engine.loading)
<1>1. /\ engine.state = "Loading" /\ engine.busy = "no" /\ engine.outgoing = NoOutgoing
      /\ i \in Places /\ i \in Nat /\ engine.playing = NoTrack
      /\ IsAt(listener, i, 0)
  BY InvFacts DEF Loaded, BusyGood, TrackBase, OnTrack, EngineType, Fits, Follows
<1>2. /\ engine' = [engine EXCEPT !.state = "Playing", !.playing = p, !.loading = 0, !.sink = TRUE]
      /\ output' = IF engine.sink THEN output ELSE Opened
      /\ download' = Downloading(i, 0) /\ listener' = listener
  BY DEF Loaded
<1>3. /\ p \in PlayingType /\ p.written = 0 /\ p.pending = <<>> /\ p.leadIn = 0 /\ p.base = 0
      /\ p.next = 0 /\ p.skip = 0 /\ p.done = FALSE /\ p.source = TRUE /\ p.at = i
  BY <1>1, NothingPlaying DEF Started, NoTrack, PlayingType
<1> HIDE DEF p, i
<1>4. /\ engine'.state = "Playing" /\ engine'.busy = "no" /\ engine'.playing = p
      /\ engine'.outgoing = NoOutgoing
  BY <1>1, <1>2, InvFacts DEF EngineType
<1>5. Length[i] \in Nat /\ 0 <= Length[i] /\ 0 + 0 = 0
  BY <1>1, Sizes
<1>6. /\ TapeGood(p, NoOutgoing, <<>>)
      /\ HearsAt(p, NoOutgoing, p.written - Len(<<>>), listener)
  <2>1. /\ TapeGood(p, NoOutgoing, <<>>)
        /\ \A l : IsAt(l, p.at, p.base) => HearsAt(p, NoOutgoing, p.written - Len(<<>>), l)
    BY <1>1, <1>3, <1>5, NewTape
  <2>2. IsAt(listener, p.at, p.base)
    BY <1>1, <1>3
  <2> QED BY <2>1, <2>2
<1>7. Audio(output') = <<>>
  <2>1. CASE engine.sink = TRUE
    <3>1. Audio(output) = <<>>
      BY <1>1, InvFacts, NothingPlaying, EmptySeq
    <3> QED BY <1>2, <2>1, <3>1
  <2>2. CASE engine.sink = FALSE
    BY <1>2, <2>2, OpenedOutput
  <2> QED BY <2>1, <2>2, InvFacts
<1>8. download'.avail <= Length[p.at]
  BY <1>2, <1>3, <1>5 DEF Downloading, From
<1>9. Fits(engine', download', <<>>, listener)
  BY <1>3, <1>4, <1>6, <1>8, InvFacts DEF Fits, Good, Follows, GivesUp, OnTrack
<1> QED BY <1>2, <1>7, <1>9 DEF GoesOn, Listens

---------------------------------------------------------------------------
(* Seeks.                                                                  *)

(* A track that goes on, or will, from where it was sought.                *)
LEMMA SoughtGoesOn ==
  ASSUME Inv, FlushSink, engine'.busy = "no", engine'.state \in OnTrack,
         engine'.outgoing = NoOutgoing, NEW q \in PlayingType, engine'.playing = q,
         q.at \in Places, q.at \in listener.at - 1 .. listener.at + 2,
         q.written = 0, q.leadIn = 0, q.pending = <<>>, q.done = FALSE,
         q.base < Length[q.at], q.source => q.next + q.skip = q.base,
         engine'.state = "Seeking" <=> ~q.source,
         q.source => download'.avail <= Length[q.at],
         listener' = Jumped(q.at, q.base)
  PROVE  GoesOn
<1>1. q.base \in Nat /\ Length[q.at] \in Nat /\ q.base <= Length[q.at]
  BY Sizes DEF PlayingType
<1>2. q.base \in 0..Length[q.at]
  BY <1>1
<1>3. /\ Listens(listener, listener') /\ listener'.position <= Length[listener'.at]
      /\ IsAt(listener', q.at, q.base)
  BY <1>2, InvFacts, LeapsTo
<1>4. /\ TapeGood(q, NoOutgoing, <<>>)
      /\ \A l : IsAt(l, q.at, q.base) => HearsAt(q, NoOutgoing, q.written - Len(<<>>), l)
  BY <1>1, NewTape
<1>5. HearsAt(q, NoOutgoing, q.written - Len(<<>>), listener')
  BY <1>3, <1>4
<1>6. Audio(output') = <<>>
  BY InvFacts, FlushedSink
<1>7. Good(engine', download', <<>>)
  BY <1>4 DEF Good, OnTrack
<1>8. Follows(engine', <<>>, listener')
  BY <1>3, <1>5 DEF Follows, GivesUp, OnTrack
<1> QED BY <1>3, <1>6, <1>7, <1>8 DEF GoesOn, Fits

(* What holds of the track that is sought in.                              *)
LEMMA SeekStart ==
  ASSUME Inv, SeekGuard, NEW at,
         at = IF engine.outgoing # NoOutgoing THEN engine.outgoing.at ELSE engine.playing.at
  PROVE  /\ at \in Places /\ at \in listener.at - 1 .. listener.at + 1
         /\ at \in listener.at - 1 .. listener.at + 2
         /\ TapeGood(engine.playing, engine.outgoing, Audio(output))
<1>1. /\ engine.busy = "no" /\ engine.state \in OnTrack
      /\ TapeGood(engine.playing, engine.outgoing, Audio(output))
      /\ HearsAt(engine.playing, engine.outgoing, engine.playing.written - Len(Audio(output)), listener)
      /\ listener \in ListenerType /\ listener.at \in Nat
  BY InvFacts, Sizes DEF SeekGuard, Fits, Good, Follows, GivesUp, ListenerType
<1>2. at \in Places /\ engine.playing.at \in Places
  BY SeekFacts
<1>3. at \in listener.at..listener.at + 1 \/ at + 1 \in listener.at..listener.at + 1
  <2>1. CASE engine.outgoing # NoOutgoing
    <3>1. engine.playing.at = at + 1
      BY <1>1, <2>1 DEF TapeGood, CountsGood
    <3> QED BY <1>1, <1>2, <2>1, <3>1, AtNear DEF HearsAt
  <2>2. CASE engine.outgoing = NoOutgoing
    BY <1>1, <1>2, <2>2, AtNear DEF HearsAt
  <2> QED BY <2>1, <2>2
<1>4. at \in listener.at - 1 .. listener.at + 1 /\ at \in listener.at - 1 .. listener.at + 2
  <2>1. at \in Nat
    BY <1>2, Sizes
  <2> QED BY <1>1, <1>3, <2>1
<1> QED BY <1>1, <1>2, <1>4

LEMMA RebasedFields ==
  ASSUME NEW p \in PlayingType, NEW position \in Nat
  PROVE  LET q == Rebased(p, position)
         IN /\ q \in PlayingType /\ q.at = p.at /\ q.source = p.source /\ q.next = p.next
            /\ q.skip = p.skip /\ q.base = position /\ q.written = 0 /\ q.leadIn = 0
            /\ q.pending = <<>> /\ q.done = FALSE
BY RealEmpty DEF Rebased, PlayingType

LEMMA SeekInPlaceGoesOn ==
  ASSUME Inv, SeekGuard, engine.outgoing = NoOutgoing,
         NEW target \in Nat, target < Length[engine.playing.at], SeekInPlace(target)
  PROVE  GoesOn
<1> DEFINE r == Rebased(engine.playing, target)
           q == [r EXCEPT !.next = target, !.skip = 0]
<1>1. /\ r \in PlayingType /\ r.at = engine.playing.at /\ r.source = engine.playing.source
      /\ r.base = target /\ r.written = 0 /\ r.leadIn = 0 /\ r.pending = <<>> /\ r.done = FALSE
  BY InvFacts, RebasedFields
<1>2. /\ engine' = [engine EXCEPT !.playing = q] /\ FlushSink
      /\ listener' = Jumped(engine.playing.at, target) /\ download' = download
  BY DEF SeekInPlace
<1> HIDE DEF r
<1>3. /\ q \in PlayingType /\ q.at = engine.playing.at /\ q.source = engine.playing.source
      /\ q.base = target /\ q.written = 0 /\ q.leadIn = 0 /\ q.pending = <<>> /\ q.done = FALSE
      /\ q.next + q.skip = target
  <2>1. 0 \in Nat /\ target + 0 = target
    OBVIOUS
  <2>2. /\ q \in PlayingType /\ q.at = engine.playing.at /\ q.source = engine.playing.source
        /\ q.base = target /\ q.written = 0 /\ q.leadIn = 0 /\ q.pending = <<>> /\ q.done = FALSE
        /\ q.next = target /\ q.skip = 0
    BY <1>1 DEF PlayingType
  <2> QED BY <2>1, <2>2
<1> HIDE DEF q
<1>4. /\ engine'.state = engine.state /\ engine'.busy = "no" /\ engine'.playing = q
      /\ engine'.outgoing = NoOutgoing /\ engine.state \in OnTrack
  BY <1>2, InvFacts DEF EngineType, SeekGuard
<1>5. /\ engine.state = "Seeking" <=> ~engine.playing.source
      /\ engine.playing.source => download.avail <= Length[engine.playing.at]
  BY <1>4, InvFacts DEF Fits, Good, OnTrack
<1>6. q.at \in Places /\ q.at \in listener.at - 1 .. listener.at + 2
  BY <1>3, SeekStart
<1> QED BY <1>2, <1>3, <1>4, <1>5, <1>6, SoughtGoesOn

(* Where a track was joined, the frames of the one before it would count   *)
(* as frames of this one.                                                  *)
LEMMA SeekForwardOnlyGoesOn ==
  ASSUME Inv, SeekGuard, engine.outgoing = NoOutgoing,
         NEW target \in Nat, target < Length[engine.playing.at], SeekForwardOnly(target),
         target < DecodedUntil(engine.playing) \/ engine.playing.leadIn = 0
  PROVE  GoesOn
<1> DEFINE p == engine.playing
           until == DecodedUntil(engine.playing)
           skip == engine.playing.skip + target - until
           r == Rebased(engine.playing, target)
           q == [r EXCEPT !.skip = skip]
<1>1. CASE target < until
  BY <1>1, StandsStill DEF SeekForwardOnly
<1>2. CASE ~(target < until)
  <2>1. /\ r \in PlayingType /\ r.at = p.at /\ r.source = p.source /\ r.next = p.next
        /\ r.skip = p.skip
        /\ r.base = target /\ r.written = 0 /\ r.leadIn = 0 /\ r.pending = <<>> /\ r.done = FALSE
    BY InvFacts, RebasedFields
  <2>2. /\ engine' = [engine EXCEPT !.playing = q] /\ FlushSink
        /\ listener' = Jumped(p.at, target) /\ download' = download
    <3>1. ~(target < DecodedUntil(engine.playing))
      BY <1>2
    <3> HIDE DEF until
    <3>2. FlushSink /\ listener' = Jumped(engine.playing.at, target) /\ download' = download
      BY <3>1 DEF SeekForwardOnly, until
    <3>3. engine' = [engine EXCEPT !.playing = [Rebased(engine.playing, target) EXCEPT
                            !.skip = Rebased(engine.playing, target).skip + target - until]]
      BY <3>1 DEF SeekForwardOnly, until
    <3>4. Rebased(engine.playing, target).skip = engine.playing.skip
      BY <2>1
    <3> QED BY <3>2, <3>3, <3>4
  <2>3. /\ until = p.base + p.written + Len(p.pending) /\ p.next \in Nat /\ p.skip \in Nat
        /\ p.base \in Nat /\ p.written \in Nat /\ Len(p.pending) \in Nat
    <3>1. p.pending \in Seq(Frame)
      BY InvFacts DEF PlayingType
    <3> QED BY <3>1, InvFacts, LenProperties DEF PlayingType, DecodedUntil
  <2>4. p.source => p.next + p.skip + 0 = p.base + p.written + Len(p.pending)
    <3>1. CountsGood(p, NoOutgoing, Len(Audio(output)))
      BY SeekStart DEF TapeGood
    <3>2. p.leadIn = 0
      BY <1>2
    <3> QED BY <3>1, <3>2 DEF CountsGood
  <2>5. skip \in Nat /\ (p.source => p.next + skip = target)
    <3> DEFINE x == p.next
               s == p.skip
               b == p.base
               w == p.written
               n == Len(p.pending)
    <3> HIDE DEF x, s, b, w, n, until
    <3>1. /\ x \in Nat /\ s \in Nat /\ b \in Nat /\ w \in Nat /\ n \in Nat /\ until = b + w + n
          /\ p.source => x + s + 0 = b + w + n
      BY <2>3, <2>4 DEF x, s, b, w, n
    <3>2. s + target - until \in Nat /\ (p.source => x + (s + target - until) = target)
      BY <1>2, <3>1
    <3> QED BY <3>2 DEF x, s
  <2> HIDE DEF skip, r
  <2>6. /\ q \in PlayingType /\ q.at = p.at /\ q.source = p.source /\ q.next = p.next
        /\ q.base = target /\ q.written = 0 /\ q.leadIn = 0 /\ q.pending = <<>> /\ q.done = FALSE
        /\ q.skip = skip
    BY <2>1, <2>5 DEF PlayingType
  <2> HIDE DEF q
  <2>7. /\ engine'.state = engine.state /\ engine'.busy = "no" /\ engine'.playing = q
        /\ engine'.outgoing = NoOutgoing /\ engine.state \in OnTrack
    BY <2>2, InvFacts DEF EngineType, SeekGuard
  <2>8. /\ engine.state = "Seeking" <=> ~p.source
        /\ p.source => download.avail <= Length[p.at]
    BY <2>7, InvFacts DEF Fits, Good, OnTrack
  <2>9. q.at \in Places /\ q.at \in listener.at - 1 .. listener.at + 2
    BY <2>6, SeekStart
  <2> QED BY <2>2, <2>5, <2>6, <2>7, <2>8, <2>9, SoughtGoesOn
<1> QED BY <1>1, <1>2

LEMMA SeekReopenGoesOn ==
  ASSUME Inv, SeekGuard, NEW at,
         at = IF engine.outgoing # NoOutgoing THEN engine.outgoing.at ELSE engine.playing.at,
         NEW target \in Nat, target < Length[at], SeekReopen(at, target)
  PROVE  GoesOn
<1> DEFINE m == [engine EXCEPT !.playing.at = at]
           r == Rebased(m.playing, target)
           q == [r EXCEPT !.source = FALSE]
<1>1. at \in Places /\ at \in listener.at - 1 .. listener.at + 2 /\ at \in Nat
  BY SeekStart, Sizes
<1>2. m \in EngineType /\ m.playing \in PlayingType /\ m.playing.at = at
  BY <1>1, SeekFacts DEF EngineType, PlayingType
<1>3. /\ engine' = [m EXCEPT !.state = "Seeking", !.outgoing = NoOutgoing,
                             !.pauseWhenReady = m.state = "Paused"
                               \/ (m.state = "Seeking" /\ m.pauseWhenReady),
                             !.playing = q]
      /\ FlushSink /\ listener' = Jumped(at, target)
  BY DEF SeekReopen, Reopening
<1>4. m.busy = "no"
  BY SeekFacts DEF EngineType, SeekGuard
<1> HIDE DEF m
<1>5. /\ r \in PlayingType /\ r.at = at
      /\ r.base = target /\ r.written = 0 /\ r.leadIn = 0 /\ r.pending = <<>> /\ r.done = FALSE
  BY <1>2, RebasedFields
<1> HIDE DEF r
<1>6. /\ q \in PlayingType /\ q.at = at /\ q.source = FALSE
      /\ q.base = target /\ q.written = 0 /\ q.leadIn = 0 /\ q.pending = <<>> /\ q.done = FALSE
  BY <1>5 DEF PlayingType
<1> HIDE DEF q
<1>7. /\ engine'.state = "Seeking" /\ engine'.busy = "no" /\ engine'.playing = q
      /\ engine'.outgoing = NoOutgoing
  BY <1>2, <1>3, <1>4 DEF EngineType
<1> QED BY <1>1, <1>3, <1>6, <1>7, SoughtGoesOn DEF OnTrack

LEMMA SeekPastTheEndGoesOn ==
  ASSUME Inv, SeekGuard, NEW at,
         at = IF engine.outgoing # NoOutgoing THEN engine.outgoing.at ELSE engine.playing.at,
         SeekPastTheEnd(at)
  PROVE  GoesOn
<1>1. at \in Places /\ at \in listener.at - 1 .. listener.at + 1 /\ at \in Nat
      /\ listener \in ListenerType /\ listener.at \in Nat
      /\ listener.position <= Length[listener.at] /\ engine \in EngineType
  <2>1. at \in Places /\ at \in listener.at - 1 .. listener.at + 1
    BY SeekStart
  <2>2. /\ listener \in ListenerType /\ listener.position <= Length[listener.at]
        /\ engine \in EngineType
    BY InvFacts
  <2>3. at \in Nat /\ listener.at \in Nat
    BY <2>1, <2>2, Sizes DEF ListenerType
  <2> QED BY <2>1, <2>2, <2>3
<1>2. /\ engine' = LoadAfter(engine, at)
      /\ listener' = IF at < Len(Length) THEN Jumped(at + 1, 0) ELSE listener
  BY DEF SeekPastTheEnd
<1>3. CASE at < Len(Length)
  <2>1. at + 1 \in Places /\ at + 1 \in listener.at - 1 .. listener.at + 2
    <3>1. \A x, y \in Nat : x \in y - 1 .. y + 1 => x + 1 \in y - 1 .. y + 2
      OBVIOUS
    <3>2. at + 1 \in Places
      <4>1. \A x, y \in Nat : x < y => x + 1 \in 1..y
        OBVIOUS
      <4>2. Len(Length) \in Nat /\ Places = 1..Len(Length)
        BY Sizes
      <4> QED BY <1>1, <1>3, <4>1, <4>2
    <3> QED BY <1>1, <3>1, <3>2
  <2>2. 0 \in 0..Length[at + 1]
    BY <2>1, Sizes
  <2>3. listener' = Jumped(at + 1, 0)
    BY <1>2, <1>3
  <2> DEFINE i == at + 1
  <2>4. i = at + 1
    OBVIOUS
  <2> HIDE DEF i
  <2>5. /\ Listens(listener, listener') /\ listener'.position <= Length[listener'.at]
        /\ IsAt(listener', i, 0)
    BY <1>1, <2>1, <2>2, <2>3, <2>4, LeapsTo
  <2>6. Fits(engine', download', Audio(output'), listener')
    BY <1>1, <1>2, <2>4, <2>5, LoadAfterFits
  <2> QED BY <2>5, <2>6 DEF GoesOn
<1>4. CASE ~(at < Len(Length))
  <2>1. listener' = listener
    BY <1>2, <1>4
  <2>2. Fits(engine', download', Audio(output'), listener)
    BY <1>1, <1>2, <1>4, LoadAfterFits
  <2> QED BY <2>1, <2>2 DEF GoesOn, Listens
<1> QED BY <1>3, <1>4

LEMMA SeekGoesOn ==
  ASSUME Inv, Seek, ~Miscounts
  PROVE  GoesOn
<1> DEFINE at == IF engine.outgoing # NoOutgoing THEN engine.outgoing.at ELSE engine.playing.at
<1>1. SeekGuard
  BY InvFacts, AskedSpent DEF Seek, SeekGuard, OnTrack
<1>2. at \in Places /\ Length[at] \in Nat
  BY <1>1, SeekFacts, Sizes
<1>3. PICK target \in 0..Length[at] :
        \/ SeekPastTheEnd(at)
        \/ target # Length[at] /\ SeekReopen(at, target)
        \/ target # Length[at] /\ engine.outgoing = NoOutgoing /\ SeekInPlace(target)
        \/ /\ target # Length[at] /\ engine.outgoing = NoOutgoing
           /\ SeekMode[at] = "ForwardOnly" /\ SeekForwardOnly(target)
  BY DEF Seek
<1>4. target \in Nat /\ (target # Length[at] => target < Length[at])
  BY <1>2, <1>3
<1>5. CASE SeekPastTheEnd(at)
  BY <1>1, <1>5, SeekPastTheEndGoesOn
<1>6. CASE target # Length[at] /\ SeekReopen(at, target)
  BY <1>1, <1>4, <1>6, SeekReopenGoesOn
<1>7. CASE target # Length[at] /\ engine.outgoing = NoOutgoing /\ SeekInPlace(target)
  BY <1>1, <1>4, <1>7, SeekInPlaceGoesOn
<1>8. CASE /\ target # Length[at] /\ engine.outgoing = NoOutgoing
           /\ SeekMode[at] = "ForwardOnly" /\ SeekForwardOnly(target)
  <2>1. target < DecodedUntil(engine.playing) \/ engine.playing.leadIn = 0
    BY <1>4, <1>8 DEF Miscounts
  <2> QED BY <1>1, <1>4, <1>8, <2>1, SeekForwardOnlyGoesOn
<1> QED BY <1>3, <1>5, <1>6, <1>7, <1>8

LEMMA SeekReadyGoesOn ==
  ASSUME Inv, SeekReady
  PROVE  GoesOn
<1> DEFINE p == engine.playing
           start == SegmentStart(engine.playing.base)
           skip == engine.playing.base - start
           state == IF engine.pauseWhenReady THEN "Paused" ELSE "Playing"
           q == engine'.playing
<1>1. /\ engine.state = "Seeking" /\ engine.busy = "no" /\ p.at \in Places /\ p \in PlayingType
      /\ ~p.source /\ p.base \in Nat /\ engine.outgoing \in [at : Nat, end : Nat]
  BY InvFacts DEF SeekReady, BusyGood, TrackBase, OnTrack, Fits, Good, PlayingType
<1>2. CountsGood(p, engine.outgoing, Len(Audio(output)))
  BY <1>1, InvFacts DEF Fits, Good, TapeGood, OnTrack
<1>3. /\ p.pending = <<>> /\ p.written = 0 /\ p.leadIn = 0 /\ p.base < Length[p.at] /\ p.done = FALSE
      /\ engine.outgoing = NoOutgoing
  BY <1>1, <1>2 DEF CountsGood, PlayingType
<1>4. start \in Nat /\ skip \in Nat /\ start <= p.base /\ start + skip = p.base
  <2>1. start \in Nat /\ skip \in Nat /\ start <= p.base
    BY <1>1, SegmentHolds
  <2> HIDE DEF start
  <2> QED BY <1>1, <2>1
<1>5. /\ engine' = [engine EXCEPT !.state = state, !.pauseWhenReady = FALSE,
                                  !.playing.source = TRUE, !.playing.next = start,
                                  !.playing.skip = skip]
      /\ download' = Downloading(p.at, start) /\ output' = output /\ listener' = listener
  BY DEF SeekReady
<1> HIDE DEF start, skip
<1>6. /\ engine'.state \in {"Playing", "Paused"} /\ engine'.busy = "no"
      /\ engine'.outgoing = NoOutgoing
      /\ q \in PlayingType /\ q.at = p.at /\ q.source = TRUE /\ q.next = start /\ q.skip = skip
      /\ q.base = p.base /\ q.written = 0 /\ q.leadIn = 0 /\ q.pending = <<>> /\ q.done = FALSE
  BY <1>1, <1>3, <1>4, <1>5, InvFacts DEF EngineType, PlayingType
<1> HIDE DEF q, state
<1>7. Audio(output) = <<>>
  <2>1. Len(Audio(output)) = 0 /\ Audio(output) \in Seq(Frame)
    BY <1>3, InvFacts
  <2> QED BY <2>1, EmptySeq
<1>8. IsAt(listener, p.at, p.base)
  <2>1. HearsAt(p, NoOutgoing, p.written - Len(Audio(output)), listener)
    BY <1>1, <1>3, InvFacts DEF Fits, Follows, GivesUp, OnTrack
  <2>2. (p.base + (p.written - Len(Audio(output)))) - p.leadIn = p.base
    BY <1>1, <1>3, <1>7, EmptySeq
  <2> QED BY <2>1, <2>2 DEF HearsAt
<1>9. Length[p.at] \in Nat /\ p.base <= Length[p.at] /\ start <= Length[p.at]
  <2>1. Length[p.at] \in Nat
    BY <1>1, Sizes
  <2> QED BY <1>1, <1>3, <1>4, <2>1
<1>10. /\ TapeGood(q, NoOutgoing, <<>>)
       /\ \A l : IsAt(l, q.at, q.base) => HearsAt(q, NoOutgoing, q.written - Len(<<>>), l)
  BY <1>1, <1>4, <1>6, <1>9, NewTape
<1>11. HearsAt(q, NoOutgoing, q.written - Len(<<>>), listener)
  BY <1>6, <1>8, <1>10
<1>12. download'.avail <= Length[p.at]
  BY <1>5, <1>9 DEF Downloading, From
<1>13. Fits(engine', download', <<>>, listener)
  <2>1. Good(engine', download', <<>>)
    BY <1>6, <1>10, <1>12 DEF Good, OnTrack, q
  <2>2. Follows(engine', <<>>, listener)
    BY <1>6, <1>11, InvFacts DEF Follows, GivesUp, OnTrack, q
  <2> QED BY <2>1, <2>2 DEF Fits
<1> QED BY <1>5, <1>7, <1>13 DEF GoesOn, Listens


---------------------------------------------------------------------------
(* The theorems.                                                           *)

LEMMA InvInit == Init => Inv
<1> SUFFICES ASSUME Init PROVE Inv
  OBVIOUS
<1>1. InvBase
  BY InvBaseInit
<1>2. engine.state = "Loading" /\ engine.busy = "no" /\ engine.loading = 1
  BY DEF Init
<1>3. listener.at = 1 /\ listener.position = 0 /\ 0 <= Length[1]
  BY Sizes DEF Init
<1>4. IsAt(listener, 1, 0)
  BY <1>3 DEF IsAt
<1>5. Fits(engine, download, Audio(output), listener)
  BY <1>2, <1>3, <1>4 DEF Fits, Good, Follows, GivesUp, OnTrack
<1> QED BY <1>1, <1>5 DEF Inv

LEMMA InvStep ==
  ASSUME Inv, [Next]_vars, [~Miscounts]_vars
  PROVE  Inv' /\ Listens(listener, listener')
<1>1. InvBase'
  BY InvBaseStep DEF Inv
<1>2. GoesOn
  <2>1. CASE UNCHANGED vars
    BY <2>1, StandsStill DEF vars
  <2>2. CASE Next /\ ~Miscounts
    BY <2>2, FetchGoesOn, PlayStepGoesOn, DecodeGoesOn, WriteGoesOn, OutputLostGoesOn,
       DrainedGoesOn, LoadedGoesOn, PullGoesOn, PlayGoesOn, ServerGoesOn, PauseGoesOn,
       ResumeGoesOn, HandOverOutputGoesOn, SeekGoesOn, SeekReadyGoesOn DEF Next
  <2> QED BY <2>1, <2>2
<1>3. Fits(engine, download, Audio(output), listener)'
  BY <1>2 DEF GoesOn
<1> QED BY <1>1, <1>2, <1>3 DEF Inv, GoesOn

LEMMA AlwaysInv == Spec /\ [][~Miscounts]_vars => []Inv
<1>1. Init => Inv
  BY InvInit
<1>2. Inv /\ [Next]_vars /\ [~Miscounts]_vars => Inv'
  BY InvStep
<1> QED BY <1>1, <1>2, PTL DEF Spec

(* Streams that can only go forward come first: nothing is joined in front *)
(* of one.                                                                 *)
ForwardOnlyIsFirst == \A i \in Places : SeekMode[i] = "ForwardOnly" => i = 1

(* A seek that can only go forward counts what was decoded rightly when no *)
(* track was heard before in the same output: in lists like that, the      *)
(* engine never miscounts, and what follows holds of all behaviours.       *)
THEOREM FirstIsCounted ==
  ASSUME ForwardOnlyIsFirst
  PROVE  Spec => [][~Miscounts]_vars
<1>1. Inv => ~Miscounts
  <2> SUFFICES ASSUME Inv, Miscounts PROVE FALSE
    OBVIOUS
  <2>1. engine.state \in OnTrack
    BY DEF Miscounts, Seek, OnTrack
  <2>2. engine.playing.at \in Places
    BY <2>1, InvFacts DEF TrackBase
  <2>3. engine.playing.at = 1
    BY <2>2 DEF Miscounts, ForwardOnlyIsFirst
  <2>4. CountsGood(engine.playing, engine.outgoing, Len(Audio(output)))
    BY <2>1, InvFacts DEF Fits, Good, TapeGood
  <2> QED BY <2>3, <2>4 DEF CountsGood, Miscounts
<1>2. Init => Inv
  BY InvInit
<1>3. Inv /\ [Next]_vars => Inv' /\ [~Miscounts]_vars
  <2> SUFFICES ASSUME Inv, [Next]_vars PROVE Inv' /\ [~Miscounts]_vars
    OBVIOUS
  <2>1. [~Miscounts]_vars
    BY <1>1
  <2> QED BY <2>1, InvStep
<1> QED BY <1>2, <1>3, PTL DEF Spec

(* The state of the audio thread, the frames in every buffer and the place *)
(* of the listener, which never leaves the track it is in, and the bound   *)
(* of every buffer: whatever the tracks and the sizes, as long as no seek  *)
(* forward miscounts.                                                      *)
THEOREM TypesHold ==
  Spec /\ [][~Miscounts]_vars => []TypeOK
<1>1. Inv => TypeOK
  <2> SUFFICES ASSUME Inv PROVE TypeOK
    OBVIOUS
  <2>1. /\ engine.state \in States
        /\ engine.busy \in {"no", "decoding", "writing", "draining"}
        /\ engine.playing.next \in Nat /\ engine.playing.skip \in Nat
        /\ download.avail \in Nat
    BY InvFacts DEF EngineType, PlayingType, DownloadType
  <2>2. Queues \subseteq Seq(Frame)
    BY InvFacts DEF Queues, PlayingType, OutputType
  <2>3. Len(output.ring) <= Capacity \/ Len(output.ring) <= Silence
    BY InvFacts DEF Base, OutputGood
  <2>4. Len(output.ring) \in Nat
    BY InvFacts, LenProperties DEF OutputType
  <2>5. Len(output.ring) <= Max({Capacity, Silence})
    <3>1. \A x, y \in Nat : Max({x, y}) \in {x, y} /\ x <= Max({x, y}) /\ y <= Max({x, y})
      <4> SUFFICES ASSUME NEW x \in Nat, NEW y \in Nat
                   PROVE  Max({x, y}) \in {x, y} /\ x <= Max({x, y}) /\ y <= Max({x, y})
        OBVIOUS
      <4>1. \E z \in {x, y} : \A u \in {x, y} : u <= z
        <5>1. CASE x <= y
          BY <5>1
        <5>2. CASE y <= x
          BY <5>2
        <5> QED BY <5>1, <5>2
      <4> QED BY <4>1 DEF Max
    <3>2. \A r, x, m \in Nat : r <= x /\ x <= m => r <= m
      OBVIOUS
    <3>3. /\ Max({Capacity, Silence}) \in Nat
          /\ Capacity <= Max({Capacity, Silence}) /\ Silence <= Max({Capacity, Silence})
          /\ Capacity \in Nat /\ Silence \in Nat
      <4>1. Capacity \in Nat /\ Silence \in Nat
        BY Sizes
      <4> QED BY <3>1, <4>1
    <3> HIDE DEF Max
    <3> QED BY <2>3, <2>4, <3>2, <3>3
  <2>6. Len(output.server) <= Target /\ Len(engine.playing.recent) <= 2 * KeptFrames
    BY InvFacts DEF Base, OutputGood, SoundBase
  <2>7. listener.at \in Places /\ listener.position \in 0..Length[listener.at]
    <3>1. listener.at \in Places /\ listener.position \in Nat
      BY InvFacts DEF ListenerType
    <3>2. Length[listener.at] \in Nat
      BY <3>1, Sizes
    <3> QED BY <3>1, <3>2, InvFacts
  <2> QED BY <2>1, <2>2, <2>5, <2>6, <2>7 DEF TypeOK, States
<1> QED BY <1>1, AlwaysInv, PTL

LEMMA SamePoint ==
  ASSUME NEW l \in ListenerType, NEW at \in Places, NEW x, IsAt(l, at, x)
  PROVE  Point(at, x) = Point(l.at, l.position)
<1>1. CASE l.at = at /\ l.position = x
  BY <1>1
<1>2. CASE x = 0 /\ at = l.at + 1 /\ l.position = Length[l.at]
  <2>1. Length[at] # 0
    BY Sizes
  <2>2. l.at < Len(Length)
    <3>1. at \in Nat /\ l.at \in Nat /\ at <= Len(Length) /\ Len(Length) \in Nat
      BY Sizes DEF ListenerType
    <3> QED BY <1>2, <3>1
  <2>3. Point(at, x) = <<at, 0>>
    BY <1>2, <2>1 DEF Point
  <2>4. Point(l.at, l.position) = <<l.at + 1, 0>>
    BY <1>2, <2>2 DEF Point
  <2> QED BY <1>2, <2>3, <2>4
<1> QED BY <1>1, <1>2 DEF IsAt

(* "Position is this plus what has been heard since": the position that is *)
(* reported is the listener's, to the frame, for any tracks and sizes, as  *)
(* long as no seek forward miscounts.                                      *)
THEOREM ReportedIsHeard ==
  Spec /\ [][~Miscounts]_vars => []PositionIsHeard
<1>1. Inv => PositionIsHeard
  <2> SUFFICES ASSUME Inv, engine.playing # NoTrack, output.gone = "no", listener.lost = 0
               PROVE  LET handingOver == engine.outgoing # NoOutgoing
                          reported == Position(engine, IF engine.sink THEN Delay(output) ELSE 0)
                      IN \/ Point(IF handingOver THEN engine.outgoing.at ELSE engine.playing.at,
                                  reported)
                              = Point(listener.at, listener.position)
                         \/ /\ handingOver /\ listener.at = engine.playing.at
                            /\ reported = Length[engine.outgoing.at]
    BY DEF PositionIsHeard
  <2> DEFINE p == engine.playing
             out == engine.outgoing
             n == Len(Audio(output))
             w == p.written
             h == w - n
             l == p.leadIn
             b == p.base
             end == out.end
             queued == IF engine.sink THEN Delay(output) ELSE 0
             reported == Position(engine, queued)
  <2>1. /\ engine.state \in OnTrack /\ p.at \in Places /\ (out # NoOutgoing => out.at \in Places)
        /\ listener \in ListenerType
    BY InvFacts DEF TrackBase
  <2>2. ~GivesUp(engine)
    BY InvFacts DEF Fits, Follows, LosesEnd
  <2>3. HearsAt(p, out, h, listener) /\ CountsGood(p, out, n)
    BY <2>1, <2>2, InvFacts DEF Fits, Follows, Good, TapeGood
  <2>4. /\ w \in Nat /\ n \in Nat /\ n <= w /\ l \in Nat /\ b \in Nat /\ end \in Nat
    BY InvFacts DEF PlayingType
  <2>5. Heard(engine, queued) = h
    <3>1. CASE engine.sink = TRUE
      BY <3>1, InvFacts
    <3>2. CASE engine.sink = FALSE
      <4>1. w = 0
        BY <3>2, InvFacts DEF Base
      <4>2. n = 0 /\ 0 - 0 = 0 /\ Less(0, 0) = 0
        BY <2>4, <4>1 DEF Less
      <4> QED BY <3>2, <4>1, <4>2 DEF Heard
    <3> QED BY <3>1, <3>2, InvFacts
  <2> HIDE DEF queued
  <2>6. reported = IF out # NoOutgoing THEN Less(end, Less(l, h)) ELSE b + Less(h, l)
    BY <2>5 DEF Position
  <2>7. /\ out # NoOutgoing => p.at = out.at + 1 /\ end = Length[out.at] /\ b = 0 /\ l + n <= end + w
        /\ out = NoOutgoing => l + n <= w
    BY <2>3 DEF CountsGood
  <2>8. h \in Nat
    BY <2>4
  <2>9. IF out # NoOutgoing /\ h <= l THEN IsAt(listener, out.at, (end + h) - l)
                                      ELSE IsAt(listener, p.at, (b + h) - l)
    BY <2>3 DEF HearsAt
  <2> HIDE DEF reported, out, p
  <2>10. CASE out # NoOutgoing /\ h <= l
    <3>1. Less(end, Less(l, h)) = (end + h) - l
      <4> HIDE DEF end, l, w, n
      <4> QED BY <2>4, <2>7, <2>10 DEF Less
    <3>2. IsAt(listener, out.at, reported)
      BY <2>6, <2>9, <2>10, <3>1
    <3>3. Point(out.at, reported) = Point(listener.at, listener.position)
      BY <2>1, <2>10, <3>2, SamePoint
    <3> QED BY <2>10, <3>3 DEF reported, out, p, queued
  <2>11. CASE out # NoOutgoing /\ ~(h <= l)
    <3>1. Less(end, Less(l, h)) = end /\ (b + h) - l # 0
      <4> HIDE DEF end, l, b, h
      <4> QED BY <2>4, <2>7, <2>8, <2>11 DEF Less
    <3>2. listener.at = p.at
      BY <2>9, <2>11, <3>1 DEF IsAt
    <3>3. reported = Length[out.at]
      BY <2>6, <2>7, <2>11, <3>1
    <3> QED BY <2>11, <3>2, <3>3 DEF reported, out, p, queued
  <2>12. CASE out = NoOutgoing
    <3>1. b + Less(h, l) = (b + h) - l
      <4> HIDE DEF l, b, w, n
      <4> QED BY <2>4, <2>7, <2>8, <2>12 DEF Less
    <3>2. IsAt(listener, p.at, reported)
      BY <2>6, <2>9, <2>12, <3>1
    <3>3. Point(p.at, reported) = Point(listener.at, listener.position)
      BY <2>1, <3>2, SamePoint
    <3> QED BY <2>12, <3>3 DEF reported, out, p, queued
  <2> QED BY <2>10, <2>11, <2>12
<1> QED BY <1>1, AlwaysInv, PTL

(* Playback implements Listening: whatever the tracks, the chunks, the     *)
(* buffers and the silences, every frame is heard once and in order, and   *)
(* only a seek or a failing output moves the listener, as long as no seek  *)
(* forward miscounts.                                                      *)
THEOREM EveryFrameIsHeard ==
  Spec /\ [][~Miscounts]_vars => HearsEveryFrame
<1>1. Init => Heardwise!Init
  BY DEF Init, Heardwise!Init
<1>2. Inv /\ [Next]_vars /\ [~Miscounts]_vars => [Heardwise!Next]_(Heardwise!vars)
  <2> SUFFICES ASSUME Inv, [Next]_vars, [~Miscounts]_vars
               PROVE  [Heardwise!Next]_(Heardwise!vars)
    OBVIOUS
  <2>1. Listens(listener, listener')
    BY InvStep
  <2>2. CASE listener' = listener
    BY <2>2 DEF Heardwise!vars
  <2>3. CASE /\ listener'.jumps + listener'.lost = listener.jumps + listener.lost
             /\ HearsOn(listener, listener')
    BY <2>3 DEF HearsOn, Heardwise!Next, Heardwise!Hear
  <2>4. CASE /\ listener'.jumps + listener'.lost = listener.jumps + listener.lost
             /\ HearsTheNext(listener, listener')
    BY <2>4 DEF HearsTheNext, Heardwise!Next, Heardwise!HearNext
  <2>5. CASE /\ listener'.jumps + listener'.lost = listener.jumps + listener.lost + 1
             /\ Leaps(listener, listener')
    BY <2>5 DEF Leaps, Heardwise!Next, Heardwise!Jump, Places
  <2> QED BY <2>1, <2>2, <2>3, <2>4, <2>5 DEF Listens
<1>3. Spec /\ [][~Miscounts]_vars => []Inv
  BY AlwaysInv
<1> QED BY <1>1, <1>2, <1>3, PTL DEF Spec, HearsEveryFrame, Heardwise!Spec
=============================================================================
