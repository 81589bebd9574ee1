----------------------- MODULE PredictorHistoryProofs -----------------------
(***************************************************************************)
(* For every set of instants, every retained span and every compaction     *)
(* threshold: the series ascends, no sample falls between the store, the   *)
(* buffer and the file, and the file loses nothing durable, with crashes   *)
(* and failed reads and writes at any moment.                              *)
(*                                                                         *)
(* None of it is inductive alone.  What a restart shows depends on the     *)
(* order of the file's lines, which depends on the order in which batches  *)
(* and snapshots were written; and whether a snapshot may replace the file *)
(* depends on the store showing, or having dropped, all that is in it.     *)
(*                                                                         *)
(* Trim and Loaded are loops of the code; what they compute is shown by    *)
(* induction on the rounds, before the invariant.                          *)
(***************************************************************************)
EXTENDS PredictorHistory, WellFoundedInduction, TLAPS

-----------------------------------------------------------------------------
(* Induction.  The library states it for an operator, which the provers    *)
(* cannot instantiate; of a set of numbers it follows from < being well    *)
(* founded.                                                                *)

(* A set of numbers that is not empty has a least element.                 *)
LEMMA LeastNumber ==
  ASSUME NEW T, T \subseteq Nat, T # {}
  PROVE  \E m \in T : \A k \in T : m <= k
<1>1. \E m \in T : \A k \in T : <<k, m>> \notin OpToRel(<, Nat)
  BY NatLessThanWellFounded, WFMin
<1>2. \A k \in Nat, m \in Nat : k < m => <<k, m>> \in OpToRel(<, Nat)
  BY DEF OpToRel
<1>3. \E m \in T : \A k \in T : ~(k < m)
  BY <1>1, <1>2, Zenon
<1> QED
  BY <1>3

(* A bounded set of numbers that is not empty has a greatest element.      *)
LEMMA GreatestNumber ==
  ASSUME NEW T, T \subseteq Nat, T # {}, NEW bound \in Nat, \A k \in T : k <= bound
  PROVE  \E m \in T : \A k \in T : k <= m
<1> DEFINE U == {bound - k : k \in T}
<1>1. U \subseteq Nat /\ U # {}
  <2>1. PICK k \in T : TRUE
    OBVIOUS
  <2>2. bound - k \in U
    OBVIOUS
  <2>3. \A j \in T : bound - j \in Nat
    OBVIOUS
  <2> QED
    BY <2>2, <2>3
<1> HIDE DEF U
<1>2. PICK u \in U : \A v \in U : u <= v
  BY <1>1, LeastNumber
<1>3. PICK m \in T : u = bound - m
  BY DEF U
<1>4. ASSUME NEW k \in T
      PROVE  k <= m
  <2>1. bound - m <= bound - k
    BY <1>2, <1>3 DEF U
  <2> QED
    BY <2>1
<1> QED
  BY <1>4

(* A set that holds 0 and, up to a bound, with a number its successor,     *)
(* holds all numbers up to that bound.                                     *)
LEMMA BoundedInduction ==
  ASSUME NEW N \in Nat, NEW T, 0 \in T, \A n \in 0..N : n \in T /\ n + 1 <= N => n + 1 \in T
  PROVE  0..N \subseteq T
<1> SUFFICES ASSUME 0..N \ T # {} PROVE FALSE
  OBVIOUS
<1> DEFINE Rest == 0..N \ T
<1>0. Rest \subseteq Nat /\ Rest # {}
  OBVIOUS
<1> HIDE DEF Rest
<1>1. PICK m \in Rest : \A k \in Rest : m <= k
  BY <1>0, LeastNumber
<1> USE DEF Rest
<1>2. m # 0 /\ m - 1 \in 0..N
  BY <1>1
<1>3. m - 1 \in T
  BY <1>1, <1>2
<1>4. (m - 1) + 1 \in T
  BY <1>2, <1>3
<1> QED
  BY <1>1, <1>4

(* A loop of N rounds whose state stays in S can be run: what the          *)
(* recursive functions of the models stand for.                            *)
IsRunOf(f, N, S, base, step) ==
  /\ f \in [0..N -> S] /\ f[0] = base
  /\ \A n \in 1..N : f[n] = step[n][f[n - 1]]

LEMMA RunOfLoop ==
  ASSUME NEW N \in Nat, NEW S, NEW base \in S, NEW step \in [1..N -> [S -> S]]
  PROVE  \E f : IsRunOf(f, N, S, base, step)
<1> DEFINE
     Run(f, m) == /\ f \in [0..m -> S] /\ f[0] = base
                  /\ \A n \in 1..m : f[n] = step[n][f[n - 1]]
     T == {m \in 0..N : \E f : Run(f, m)}
<1>1. 0 \in T
  <2>1. Run([n \in 0..0 |-> base], 0)
    OBVIOUS
  <2> HIDE DEF Run
  <2>2. \E f : Run(f, 0)
    BY <2>1
  <2> QED
    BY <2>2
<1>2. ASSUME NEW m \in 0..N, m \in T, m + 1 <= N
      PROVE  m + 1 \in T
  <2>1. PICK f : Run(f, m)
    BY <1>2
  <2> DEFINE g == [n \in 0..(m + 1) |-> IF n <= m THEN f[n] ELSE step[m + 1][f[m]]]
  <2>2. f[m] \in S /\ step[m + 1][f[m]] \in S
    BY <2>1, <1>2
  <2>3. g \in [0..(m + 1) -> S] /\ g[0] = base
    BY <2>1, <2>2
  <2>4. ASSUME NEW n \in 1..(m + 1)
        PROVE  g[n] = step[n][g[n - 1]]
    <3>1. CASE n <= m
      <4>1. g[n] = f[n] /\ g[n - 1] = f[n - 1]
        BY <3>1
      <4>2. f[n] = step[n][f[n - 1]]
        BY <2>1, <3>1
      <4> HIDE DEF g
      <4> QED
        BY <4>1, <4>2
    <3>2. CASE n = m + 1
      <4>1. g[n] = step[m + 1][f[m]] /\ g[n - 1] = f[m]
        BY <3>2, <1>2
      <4> HIDE DEF g
      <4> QED
        BY <4>1, <3>2
    <3> QED
      BY <3>1, <3>2
  <2> HIDE DEF g
  <2>5. Run(g, m + 1)
    BY <2>3, <2>4
  <2> HIDE DEF Run
  <2> QED
    BY <2>5, <1>2
<1> HIDE DEF T
<1>3. 0..N \subseteq T
  BY <1>1, <1>2, BoundedInduction
<1>4. PICK f : Run(f, N)
  BY <1>3 DEF T
<1> QED
  BY <1>4 DEF IsRunOf

-----------------------------------------------------------------------------
(* What a line of the file decodes to, the samples among some lines, their *)
(* times, and those before a line.                                         *)
Lines == Records \union {Junk}

SamplesIn(ls) == {i \in DOMAIN ls : ls[i].kind = "sample"}

TimesOf(ls) == {ls[i].at : i \in SamplesIn(ls)}

Before(ls, j) == {ls[i].at : i \in {k \in SamplesIn(ls) : k < j}}

(* The samples of a batch, or of a snapshot, are in the order they were    *)
(* taken.                                                                  *)
Rising(ls) == \A i, j \in SamplesIn(ls) : i < j => ls[i].at < ls[j].at

(* A time is still shown, or retention dropped it for a later one.         *)
Kept(t, times) == t \in times \/ Expired(t, times)

(* A sample comes after all of these times, repeats one, or retention      *)
(* drops it.                                                               *)
Placed(t, times) == Kept(t, times) \/ \A u \in times : u < t

(* The order of the file: a load sorts nothing, so every sample must be in *)
(* place when it is read. A batch that fails half-way and the snapshots of *)
(* compaction repeat samples, and a batch drained before a compaction      *)
(* leaves old ones behind newer ones.                                      *)
InPlace(ls) == \A j \in SamplesIn(ls) : Placed(ls[j].at, Before(ls, j))

-----------------------------------------------------------------------------
(* Records, instants and sequences.                                        *)
LEMMA RecordFacts ==
  /\ \A t : Sample(t).kind = "sample" /\ Sample(t).at = t
  /\ \A f : Hour(f).kind = "hour" /\ Hour(f).full = f
  /\ Junk.kind = "junk"
  /\ \A r \in Lines : /\ r.kind \in {"sample", "hour", "junk"}
                      /\ r.kind = "sample" => r.at \in Times /\ r = Sample(r.at)
                      /\ r.kind = "hour" => r.full \in BOOLEAN /\ r = Hour(r.full)
                      /\ r.kind = "junk" => r = Junk
  /\ Records \subseteq Lines /\ Junk \in Lines
  /\ \A t \in Times : Sample(t) \in Records
  /\ \A f \in BOOLEAN : Hour(f) \in Records
<1>1. \A t : Sample(t).kind = "sample" /\ Sample(t).at = t
  BY DEF Sample
<1>2. \A f : Hour(f).kind = "hour" /\ Hour(f).full = f
  BY DEF Hour
<1>3. Junk.kind = "junk"
  BY DEF Junk
<1>4. ASSUME NEW r \in Lines
      PROVE  /\ r.kind \in {"sample", "hour", "junk"}
             /\ r.kind = "sample" => r.at \in Times /\ r = Sample(r.at)
             /\ r.kind = "hour" => r.full \in BOOLEAN /\ r = Hour(r.full)
             /\ r.kind = "junk" => r = Junk
  <2>1. CASE \E t \in Times : r = Sample(t)
    BY <2>1, <1>1
  <2>2. CASE \E f \in BOOLEAN : r = Hour(f)
    BY <2>2, <1>2
  <2>3. CASE r = Junk
    BY <2>3, <1>3
  <2> QED
    BY <2>1, <2>2, <2>3 DEF Lines, Records
<1> QED
  BY <1>1, <1>2, <1>3, <1>4 DEF Lines, Records

LEMMA Instants ==
  /\ Times \subseteq Int /\ History \in Int /\ History >= 0
  /\ \A t \in Times : t > 0
  /\ \A t : t \in Times \union {0} => t \in Int /\ t >= 0
<1>1. \A t \in Times : t \in Int /\ t > 0
  BY HistoryAssumption
<1>2. 0 \in Int /\ 0 >= 0
  OBVIOUS
<1>3. \A t : t \in Times \union {0} => t \in Times \/ t = 0
  OBVIOUS
<1>4. \A t : t \in Times \union {0} => t \in Int /\ t >= 0
  BY <1>1, <1>3
<1>5. History \in Int /\ History >= 0
  BY HistoryAssumption
<1> QED
  BY <1>1, <1>4, <1>5

LEMMA AppendSet ==
  ASSUME NEW S, NEW s \in Seq(S), NEW e \in S
  PROVE  ToSet(Append(s, e)) = ToSet(s) \union {e}
<1>1. /\ DOMAIN s = 1..Len(s) /\ Len(s) \in Nat
      /\ DOMAIN Append(s, e) = 1..(Len(s) + 1)
      /\ \A i \in 1..Len(s) : Append(s, e)[i] = s[i]
      /\ Append(s, e)[Len(s) + 1] = e
  OBVIOUS
<1> QED
  BY <1>1 DEF ToSet

LEMMA ConcatSet ==
  ASSUME NEW S, NEW s \in Seq(S), NEW t \in Seq(S)
  PROVE  ToSet(s \o t) = ToSet(s) \union ToSet(t)
<1>1. /\ DOMAIN s = 1..Len(s) /\ Len(s) \in Nat
      /\ DOMAIN t = 1..Len(t) /\ Len(t) \in Nat
      /\ DOMAIN (s \o t) = 1..(Len(s) + Len(t))
      /\ \A i \in 1..Len(s) : (s \o t)[i] = s[i]
      /\ \A i \in 1..Len(t) : (s \o t)[Len(s) + i] = t[i]
  OBVIOUS
<1>2. ASSUME NEW i \in 1..(Len(s) + Len(t))
      PROVE  i \in 1..Len(s) \/ \E j \in 1..Len(t) : i = Len(s) + j
  <2>1. CASE i > Len(s)
    <3>1. i - Len(s) \in 1..Len(t) /\ i = Len(s) + (i - Len(s))
      BY <1>1, <2>1
    <3> QED
      BY <3>1
  <2> QED
    BY <1>1, <2>1
<1>3. ToSet(s \o t) \subseteq ToSet(s) \union ToSet(t)
  <2> SUFFICES ASSUME NEW i \in 1..(Len(s) + Len(t))
               PROVE  (s \o t)[i] \in ToSet(s) \union ToSet(t)
    BY <1>1 DEF ToSet
  <2>1. CASE i \in 1..Len(s)
    BY <1>1, <2>1 DEF ToSet
  <2>2. CASE \E j \in 1..Len(t) : i = Len(s) + j
    BY <1>1, <2>2 DEF ToSet
  <2> QED
    BY <1>2, <2>1, <2>2
<1>4. ToSet(s) \subseteq ToSet(s \o t)
  BY <1>1 DEF ToSet
<1>5. ToSet(t) \subseteq ToSet(s \o t)
  <2>1. \A i \in 1..Len(t) : Len(s) + i \in 1..(Len(s) + Len(t))
    BY <1>1
  <2> QED
    BY <1>1, <2>1 DEF ToSet
<1> QED
  BY <1>3, <1>4, <1>5

LEMMA ConcatIs ==
  ASSUME NEW S, NEW s \in Seq(S), NEW t \in Seq(S)
  PROVE  /\ s \o t \in Seq(S) /\ Len(s \o t) = Len(s) + Len(t)
         /\ Len(s) \in Nat /\ Len(t) \in Nat
         /\ \A i \in 1..Len(s) : (s \o t)[i] = s[i]
         /\ \A j \in 1..Len(t) : (s \o t)[Len(s) + j] = t[j]
OBVIOUS

LEMMA TailIs ==
  ASSUME NEW S, NEW s \in Seq(S), s # <<>>
  PROVE  /\ Tail(s) \in Seq(S) /\ Len(Tail(s)) = Len(s) - 1
         /\ Len(s) \in Nat /\ Len(s) >= 1
         /\ \A j \in 1..(Len(s) - 1) : Tail(s)[j] = s[j + 1]
OBVIOUS

LEMMA PrefixIs ==
  ASSUME NEW S, NEW s \in Seq(S), NEW n \in 0..Len(s)
  PROVE  /\ SubSeq(s, 1, n) \in Seq(S) /\ Len(SubSeq(s, 1, n)) = n
         /\ \A i \in 1..n : SubSeq(s, 1, n)[i] = s[i]
OBVIOUS

(* The times of some lines are those of the set of the lines.              *)
LEMMA TimesAre ==
  ASSUME NEW ls \in Seq(Lines)
  PROVE  /\ TimesOf(ls) = {t \in Times : Sample(t) \in ToSet(ls)}
         /\ TimesOf(ls) \subseteq Times
         /\ SampleTimes(ToSet(ls)) = TimesOf(ls)
<1>1. \A i \in DOMAIN ls : ls[i] \in Lines
  OBVIOUS
<1>2. ASSUME NEW t \in TimesOf(ls)
      PROVE  t \in Times /\ Sample(t) \in ToSet(ls)
  BY <1>1, RecordFacts DEF TimesOf, SamplesIn, ToSet
<1>3. ASSUME NEW t \in Times, Sample(t) \in ToSet(ls)
      PROVE  t \in TimesOf(ls)
  BY <1>3, RecordFacts DEF TimesOf, SamplesIn, ToSet
<1>4. SampleTimes(ToSet(ls)) = TimesOf(ls)
  BY DEF SampleTimes, TimesOf, SamplesIn, ToSet
<1> QED
  BY <1>2, <1>3, <1>4

-----------------------------------------------------------------------------
(* Store: trimming, ingesting a line, loading a file.                      *)
StrictlyUp(series) == \A i, j \in DOMAIN series : i < j => series[i] < series[j]

(* The recursion of Trim: the series that is kept after each sample.       *)
IsTrimLoop(series, newest, kept) ==
  kept = [n \in 0..Len(series) |->
            IF n = 0 THEN <<>>
            ELSE IF series[n] >= newest - History THEN Append(kept[n - 1], series[n])
            ELSE kept[n - 1]]

LEMMA TrimLoop ==
  ASSUME NEW series \in Seq(Times), NEW newest \in Int
  PROVE  \E kept : /\ IsTrimLoop(series, newest, kept)
                   /\ kept \in [0..Len(series) -> Seq(Times)]
                   /\ Trim(series, newest) = kept[Len(series)]
<1> DEFINE
     N == Len(series)
     S == Seq(Times)
     step == [n \in 1..N |-> [a \in S |->
                IF series[n] >= newest - History THEN Append(a, series[n]) ELSE a]]
<1>1. N \in Nat /\ <<>> \in S
  OBVIOUS
<1>2. step \in [1..N -> [S -> S]]
  OBVIOUS
<1>3. \A a \in S, n \in 1..N :
        step[n][a] = IF series[n] >= newest - History THEN Append(a, series[n]) ELSE a
  OBVIOUS
<1> DEFINE nothing == <<>>
<1>a. nothing \in S
  OBVIOUS
<1> HIDE DEF N, S, step, nothing
<1>b. PICK f : IsRunOf(f, N, S, nothing, step)
  BY <1>a, <1>1, <1>2, RunOfLoop
<1>4. /\ f \in [0..N -> S] /\ f[0] = <<>>
      /\ \A n \in 1..N : f[n] = step[n][f[n - 1]]
  BY <1>b DEF nothing, IsRunOf
<1>5. ASSUME NEW n \in 1..N
      PROVE  f[n] = IF series[n] >= newest - History THEN Append(f[n - 1], series[n]) ELSE f[n - 1]
  <2>1. f[n - 1] \in S
    BY <1>1, <1>4
  <2> QED
    BY <1>3, <1>4, <2>1
<1>6. IsTrimLoop(series, newest, f)
  <2>1. f = [n \in 0..N |-> f[n]]
    BY <1>4
  <2>2. ASSUME NEW n \in 0..N
        PROVE  f[n] = IF n = 0 THEN <<>>
                      ELSE IF series[n] >= newest - History THEN Append(f[n - 1], series[n])
                      ELSE f[n - 1]
    <3>1. CASE n = 0
      BY <1>4, <3>1
    <3>2. CASE n # 0
      <4>1. n \in 1..N
        BY <1>1, <3>2
      <4> QED
        BY <1>5, <3>2, <4>1
    <3> QED
      BY <3>1, <3>2
  <2> QED
    BY <2>1, <2>2, Zenon DEF IsTrimLoop, N
<1> DEFINE k == CHOOSE kept : IsTrimLoop(series, newest, kept)
<1>7. IsTrimLoop(series, newest, k)
  BY <1>6
<1>8. Trim(series, newest) = k[N]
  BY DEF Trim, IsTrimLoop, N
<1> HIDE DEF k
<1>9. k \in [0..N -> S]
  <2> DEFINE T == {n \in 0..N : k[n] \in S}
  <2>1. DOMAIN k = 0..N /\ k = [n \in 0..N |-> k[n]]
    BY <1>7 DEF IsTrimLoop, N
  <2>2. 0 \in T
    BY <1>1, <1>7 DEF IsTrimLoop, N
  <2>3. ASSUME NEW n \in 0..N, n \in T, n + 1 <= N
        PROVE  n + 1 \in T
    <3>1. k[n + 1] = IF series[n + 1] >= newest - History THEN Append(k[n], series[n + 1]) ELSE k[n]
      <4>1. n + 1 \in 0..N /\ n + 1 # 0 /\ (n + 1) - 1 = n
        BY <1>1, <2>3
      <4> QED
        BY <1>7, <4>1 DEF IsTrimLoop, N
    <3>2. series[n + 1] \in Times
      BY <1>1, <2>3 DEF N
    <3>3. k[n + 1] \in Seq(Times)
      BY <2>3, <3>1, <3>2 DEF S
    <3> QED
      BY <1>1, <2>3, <3>3 DEF S
  <2> HIDE DEF T
  <2>4. 0..N \subseteq T
    BY <1>1, <2>2, <2>3, BoundedInduction
  <2> QED
    BY <2>1, <2>4 DEF T
<1> QED
  BY <1>7, <1>8, <1>9 DEF N, S

(* Trim keeps what is recent enough, in its order: it is ascending as soon *)
(* as the samples it keeps were.                                           *)
LEMMA TrimIs ==
  ASSUME NEW series \in Seq(Times), NEW newest \in Int
  PROVE  /\ Trim(series, newest) \in Seq(Times)
         /\ ToSet(Trim(series, newest)) = {t \in ToSet(series) : t >= newest - History}
         /\ (\A i, j \in DOMAIN series :
               i < j /\ series[i] >= newest - History /\ series[j] >= newest - History
                 => series[i] < series[j])
            => StrictlyUp(Trim(series, newest))
<1> DEFINE N == Len(series)
           cut == newest - History
<1>1. PICK k : /\ IsTrimLoop(series, newest, k)
               /\ k \in [0..N -> Seq(Times)]
               /\ Trim(series, newest) = k[N]
  BY TrimLoop
<1>2. N \in Nat /\ cut \in Int /\ \A n \in 1..N : series[n] \in Times /\ series[n] \in Int
  <2>1. \A n \in 1..N : series[n] \in Times
    OBVIOUS
  <2>2. Times \subseteq Int /\ History \in Int
    BY HistoryAssumption
  <2>3. N \in Nat /\ cut \in Int
    BY <2>2
  <2>4. \A n \in 1..N : series[n] \in Int
    BY <2>1, <2>2
  <2> QED
    BY <2>1, <2>3, <2>4
<1>3. k[0] = <<>>
  BY <1>1 DEF IsTrimLoop
<1>4. ASSUME NEW n \in 0..N, n + 1 <= N
      PROVE  /\ series[n + 1] >= cut => k[n + 1] = Append(k[n], series[n + 1])
             /\ ~(series[n + 1] >= cut) => k[n + 1] = k[n]
  <2>1. n + 1 \in 0..N /\ n + 1 # 0 /\ (n + 1) - 1 = n
    BY <1>2, <1>4
  <2> QED
    BY <1>1, <2>1 DEF IsTrimLoop
<1> DEFINE Hold(n) == {t \in Times : \E i \in 1..n : series[i] = t /\ t >= cut}
<1>5. \A n \in 0..N : ToSet(k[n]) = Hold(n)
  <2> DEFINE T == {n \in 0..N : ToSet(k[n]) = Hold(n)}
  <2>1. 0 \in T
    BY <1>3 DEF ToSet
  <2>2. ASSUME NEW n \in 0..N, n \in T, n + 1 <= N
        PROVE  n + 1 \in T
    <3>1. CASE series[n + 1] >= cut
      <4>1. k[n] \in Seq(Times) /\ k[n + 1] = Append(k[n], series[n + 1])
        BY <1>1, <1>4, <2>2, <3>1
      <4>2. ToSet(k[n + 1]) = ToSet(k[n]) \union {series[n + 1]}
        BY <4>1, <1>2, <2>2, AppendSet
      <4>3. Hold(n + 1) = Hold(n) \union {series[n + 1]}
        BY <1>2, <2>2, <3>1
      <4> QED
        BY <4>2, <4>3, <2>2
    <3>2. CASE ~(series[n + 1] >= cut)
      <4>1. Hold(n + 1) = Hold(n)
        BY <1>2, <2>2, <3>2
      <4> QED
        BY <1>4, <2>2, <3>2, <4>1
    <3> QED
      BY <3>1, <3>2
  <2> HIDE DEF T
  <2>3. 0..N \subseteq T
    BY <1>2, <2>1, <2>2, BoundedInduction
  <2> QED
    BY <2>3 DEF T
<1>6. ToSet(k[N]) = {t \in ToSet(series) : t >= cut}
  <2>1. Hold(N) = {t \in ToSet(series) : t >= cut}
    BY <1>2 DEF ToSet
  <2>2. N \in 0..N
    BY <1>2
  <2> HIDE DEF Hold, cut
  <2> QED
    BY <1>5, <2>1, <2>2
<1>7. ASSUME \A i, j \in DOMAIN series :
               i < j /\ series[i] >= cut /\ series[j] >= cut => series[i] < series[j]
      PROVE  StrictlyUp(k[N])
  <2> DEFINE T == {n \in 0..N : StrictlyUp(k[n])}
  <2>1. 0 \in T
    BY <1>3 DEF StrictlyUp
  <2>2. ASSUME NEW n \in 0..N, n \in T, n + 1 <= N
        PROVE  n + 1 \in T
    <3>1. CASE series[n + 1] >= cut
      <4>1. k[n] \in Seq(Times) /\ k[n + 1] = Append(k[n], series[n + 1])
        BY <1>1, <1>4, <2>2, <3>1
      <4>2. \A t \in ToSet(k[n]) : t < series[n + 1]
        <5> SUFFICES ASSUME NEW t \in ToSet(k[n])
                     PROVE  t < series[n + 1]
          OBVIOUS
        <5>1. PICK i \in 1..n : series[i] = t /\ t >= cut
          BY <1>5
        <5>2. i \in DOMAIN series /\ n + 1 \in DOMAIN series /\ i < n + 1
          BY <1>2, <2>2
        <5> QED
          BY <1>7, <3>1, <5>1, <5>2
      <4>3. \A i \in DOMAIN k[n] : k[n][i] < series[n + 1]
        BY <4>2 DEF ToSet
      <4>4. StrictlyUp(k[n])
        BY <2>2
      <4>5. StrictlyUp(k[n + 1])
        BY <4>1, <4>3, <4>4 DEF StrictlyUp
      <4> QED
        BY <4>5, <2>2
    <3>2. CASE ~(series[n + 1] >= cut)
      BY <1>4, <2>2, <3>2
    <3> QED
      BY <3>1, <3>2
  <2> HIDE DEF T
  <2>3. 0..N \subseteq T
    BY <1>2, <2>1, <2>2, BoundedInduction
  <2> QED
    BY <1>2, <2>3 DEF T
<1> QED
  BY <1>1, <1>2, <1>6, <1>7

LEMMA MaxOfTwo ==
  ASSUME NEW a \in Int, NEW b \in Int
  PROVE  Max({a, b}) \in {a, b} /\ a <= Max({a, b}) /\ b <= Max({a, b})
<1>1. \E x \in {a, b} : \A y \in {a, b} : x >= y
  <2>1. CASE a >= b
    BY <2>1
  <2>2. CASE b >= a
    BY <2>2
  <2> QED
    BY <2>1, <2>2
<1>2. Max({a, b}) \in {a, b} /\ \A y \in {a, b} : Max({a, b}) >= y
  BY <1>1 DEF Max
<1> QED
  BY <1>2

(* The newest sample of a series that is not empty is one of it, and none  *)
(* is later.                                                               *)
LEMMA NewestIs ==
  ASSUME NEW series \in Seq(Times), series # <<>>,
         NEW bound \in Nat, \A t \in ToSet(series) : t <= bound
  PROVE  Newest(series) \in ToSet(series) /\ \A t \in ToSet(series) : t <= Newest(series)
<1>1. ToSet(series) \subseteq Nat /\ ToSet(series) # {}
  <2>1. Times \subseteq Nat
    BY HistoryAssumption
  <2>2. 1 \in DOMAIN series /\ \A i \in DOMAIN series : series[i] \in Times
    OBVIOUS
  <2> QED
    BY <2>1, <2>2 DEF ToSet
<1>2. PICK m \in ToSet(series) : \A t \in ToSet(series) : t <= m
  BY <1>1, GreatestNumber
<1>3. \A y \in ToSet(series) : m >= y
  BY <1>1, <1>2
<1>4. Newest(series) \in ToSet(series) /\ \A y \in ToSet(series) : Newest(series) >= y
  BY <1>2, <1>3 DEF Newest, Max
<1> QED
  BY <1>1, <1>4

(* The states of a store.                                                  *)
Stores == [series : Seq(Times), lastOK : Times \union {0}, hour : {"none", "partial", "full"}]

(* What a line does to a store, by its kind.                               *)
LEMMA IngestedIs ==
  ASSUME NEW s \in Stores, NEW line \in Lines
  PROVE  /\ Ingested(s, line) \in Stores
         /\ line.kind = "sample" /\ line.at \notin ToSet(s.series) =>
              /\ Ingested(s, line).series = Append(s.series, line.at)
              /\ s.lastOK <= Ingested(s, line).lastOK /\ line.at <= Ingested(s, line).lastOK
              /\ Ingested(s, line).hour = s.hour
         /\ line.kind = "sample" /\ line.at \in ToSet(s.series) => Ingested(s, line) = s
         /\ line.kind = "junk" => Ingested(s, line) = s
         /\ line.kind = "hour" =>
              /\ Ingested(s, line).series = s.series /\ Ingested(s, line).lastOK = s.lastOK
              /\ line.full \/ s.hour = "full" => Ingested(s, line).hour = "full"
<1>1. CASE line.kind = "sample" /\ line.at \notin ToSet(s.series)
  <2>0. Times \subseteq Int
    BY HistoryAssumption
  <2>1. line.at \in Times /\ line.at \in Int /\ s.lastOK \in Int
    <3>1. line.at \in Times
      BY <1>1, RecordFacts
    <3>2. s.lastOK \in Times \union {0}
      BY DEF Stores
    <3>3. line.at \in Int
      BY <2>0, <3>1
    <3>4. s.lastOK \in Int
      BY <3>2, Instants
    <3> QED
      BY <3>1, <3>3, <3>4
  <2> DEFINE m == Max({s.lastOK, line.at})
  <2>2. m \in {s.lastOK, line.at} /\ s.lastOK <= m /\ line.at <= m
    BY <2>1, MaxOfTwo
  <2>3. Ingested(s, line) = [s EXCEPT !.series = Append(s.series, line.at), !.lastOK = m]
    BY <1>1 DEF Ingested
  <2> HIDE DEF m
  <2>4. Append(s.series, line.at) \in Seq(Times) /\ m \in Times \union {0}
    BY <2>1, <2>2 DEF Stores
  <2> QED
    BY <1>1, <2>2, <2>3, <2>4 DEF Stores
<1>2. CASE line.kind = "sample" /\ line.at \in ToSet(s.series)
  BY <1>2 DEF Ingested
<1>3. CASE line.kind = "junk"
  BY <1>3 DEF Ingested
<1>4. CASE line.kind = "hour"
  <2>1. Ingested(s, line) = [s EXCEPT !.hour = Merged(s.hour, line.full)]
    BY <1>4 DEF Ingested
  <2>2. s.hour \in {"none", "partial", "full"} /\ line.full \in BOOLEAN
    BY <1>4, RecordFacts DEF Stores
  <2>3. /\ Merged(s.hour, line.full) \in {"none", "partial", "full"}
        /\ line.full \/ s.hour = "full" => Merged(s.hour, line.full) = "full"
    BY <2>2 DEF Merged, HourChanges
  <2> QED
    BY <1>4, <2>1, <2>3 DEF Stores
<1> QED
  BY <1>1, <1>2, <1>3, <1>4, RecordFacts

(* The recursion of Loaded: the store after each line.                     *)
IsLoading(ls, loaded) ==
  loaded = [n \in 0..Len(ls) |-> IF n = 0 THEN Empty ELSE Ingested(loaded[n - 1], ls[n])]

LEMMA EmptyStore ==
  Empty \in Stores /\ Empty.series = <<>> /\ Empty.lastOK = 0 /\ Empty.hour = "none"
BY DEF Empty, Stores

LEMMA Loading ==
  ASSUME NEW ls \in Seq(Lines)
  PROVE  \E loaded : /\ loaded \in [0..Len(ls) -> Stores]
                     /\ Loaded(ls) = loaded[Len(ls)]
                     /\ loaded[0] = Empty
                     /\ \A n \in 1..Len(ls) : loaded[n] = Ingested(loaded[n - 1], ls[n])
<1> DEFINE
     N == Len(ls)
     step == [n \in 1..N |-> [a \in Stores |-> Ingested(a, ls[n])]]
<1>1. N \in Nat /\ \A n \in 1..N : ls[n] \in Lines
  OBVIOUS
<1>2. step \in [1..N -> [Stores -> Stores]]
  BY <1>1, IngestedIs
<1>3. \A a \in Stores, n \in 1..N : step[n][a] = Ingested(a, ls[n])
  OBVIOUS
<1> HIDE DEF N, step
<1>4. PICK f : IsRunOf(f, N, Stores, Empty, step)
  BY EmptyStore, <1>1, <1>2, RunOfLoop
<1>5. /\ f \in [0..N -> Stores] /\ f[0] = Empty
      /\ \A n \in 1..N : f[n] = step[n][f[n - 1]]
  BY <1>4 DEF IsRunOf
<1>6. \A n \in 1..N : f[n] = Ingested(f[n - 1], ls[n])
  <2>1. \A n \in 1..N : n - 1 \in 0..N
    BY <1>1
  <2> QED
    BY <1>3, <1>5, <2>1
<1>7. IsLoading(ls, f)
  <2>1. f = [n \in 0..N |-> f[n]]
    BY <1>5
  <2>2. \A n \in 0..N : n # 0 => n \in 1..N
    BY <1>1
  <2>3. \A n \in 0..N : f[n] = IF n = 0 THEN Empty ELSE Ingested(f[n - 1], ls[n])
    BY <1>5, <1>6, <2>2, Zenon
  <2> QED
    BY <2>1, <2>3, Zenon DEF IsLoading, N
<1> DEFINE k == CHOOSE loaded : IsLoading(ls, loaded)
<1>8. IsLoading(ls, k)
  BY <1>7
<1>9. Loaded(ls) = k[N]
  BY DEF Loaded, IsLoading, N
<1> HIDE DEF k
<1>10. k[0] = Empty
  BY <1>1, <1>8 DEF IsLoading, N
<1>11. ASSUME NEW n \in 1..N
       PROVE  k[n] = Ingested(k[n - 1], ls[n])
  <2>1. n \in 0..N /\ n # 0
    BY <1>1
  <2> QED
    BY <1>8, <2>1 DEF IsLoading, N
<1>12. k \in [0..N -> Stores]
  <2> DEFINE T == {n \in 0..N : k[n] \in Stores}
  <2>1. k = [n \in 0..N |-> k[n]]
    BY <1>8 DEF IsLoading, N
  <2>2. 0 \in T
    BY <1>1, <1>10, EmptyStore
  <2>3. ASSUME NEW n \in 0..N, n \in T, n + 1 <= N
        PROVE  n + 1 \in T
    <3>1. n + 1 \in 1..N /\ (n + 1) - 1 = n
      BY <1>1, <2>3
    <3>2. k[n + 1] = Ingested(k[n], ls[n + 1]) /\ ls[n + 1] \in Lines
      BY <1>1, <1>11, <3>1
    <3> QED
      BY <2>3, <3>1, <3>2, <1>1, IngestedIs
  <2> HIDE DEF T
  <2>4. 0..N \subseteq T
    BY <1>1, <2>2, <2>3, BoundedInduction
  <2> QED
    BY <2>1, <2>4 DEF T
<1> QED
  BY <1>9, <1>10, <1>11, <1>12 DEF N

(* The series up to what a load that skips retention leaves.               *)
NearlyUp(series) ==
  \A i, j \in DOMAIN series :
    i < j => series[i] < series[j] \/ Expired(series[j], ToSet(series))

LEMMA AddsSample ==
  ASSUME NEW old \in Stores, NEW line \in Lines, NEW new, new = Ingested(old, line),
         line.kind = "sample", line.at \notin ToSet(old.series)
  PROVE  /\ new.series = Append(old.series, line.at)
         /\ old.lastOK <= new.lastOK /\ line.at <= new.lastOK
         /\ new.hour = old.hour
BY IngestedIs

LEMMA AddsHour ==
  ASSUME NEW old \in Stores, NEW line \in Lines, NEW new, new = Ingested(old, line),
         line.kind = "hour"
  PROVE  /\ new.series = old.series /\ new.lastOK = old.lastOK
         /\ line.full \/ old.hour = "full" => new.hour = "full"
BY IngestedIs

(* The times before a line and after it.                                   *)
LEMMA BeforeNext ==
  ASSUME NEW ls \in Seq(Lines), NEW n \in 0..Len(ls), n + 1 <= Len(ls)
  PROVE  /\ ls[n + 1].kind = "sample" => Before(ls, n + 2) = Before(ls, n + 1) \union {ls[n + 1].at}
         /\ ls[n + 1].kind # "sample" => Before(ls, n + 2) = Before(ls, n + 1)
<1>1. n + 1 \in DOMAIN ls /\ \A k \in DOMAIN ls : k < n + 2 <=> k < n + 1 \/ k = n + 1
  OBVIOUS
<1> QED
  BY <1>1 DEF Before, SamplesIn

(* What a load makes of a file, by induction on its lines: it shows the    *)
(* times of the file, a complete hour of the file is complete, and when    *)
(* every sample of the file is in place the series ascends, but for        *)
(* samples that retention drops.                                           *)
LEMMA LoadedIs ==
  ASSUME NEW ls \in Seq(Lines)
  PROVE  /\ Loaded(ls) \in Stores
         /\ ToSet(Loaded(ls).series) = TimesOf(ls)
         /\ \A t \in TimesOf(ls) : t <= Loaded(ls).lastOK
         /\ Hour(TRUE) \in ToSet(ls) => Loaded(ls).hour = "full"
         /\ InPlace(ls) => NearlyUp(Loaded(ls).series)
<1> DEFINE N == Len(ls)
<1>1. PICK k : /\ k \in [0..N -> Stores] /\ Loaded(ls) = k[N] /\ k[0] = Empty
               /\ \A n \in 1..N : k[n] = Ingested(k[n - 1], ls[n])
  BY Loading
<1>2. N \in Nat /\ DOMAIN ls = 1..N /\ (\A n \in 1..N : ls[n] \in Lines)
  OBVIOUS
<1>3. Times \subseteq Int /\ History \in Int
  BY HistoryAssumption
<1> HIDE DEF N
<1>4. ASSUME NEW n \in 0..N, n + 1 <= N
      PROVE  /\ k[n] \in Stores /\ k[n + 1] \in Stores /\ ls[n + 1] \in Lines
             /\ k[n + 1] = Ingested(k[n], ls[n + 1])
  <2>1. n + 1 \in 1..N /\ (n + 1) - 1 = n /\ n + 1 \in 0..N
    BY <1>2, <1>4
  <2> QED
    BY <1>1, <1>2, <2>1
<1> DEFINE Good(n) ==
     /\ ToSet(k[n].series) = Before(ls, n + 1)
     /\ \A t \in Before(ls, n + 1) : t <= k[n].lastOK
     /\ (\E i \in 1..n : ls[i] = Hour(TRUE)) => k[n].hour = "full"
     /\ InPlace(ls) => NearlyUp(k[n].series)
<1>5. Good(0)
  <2>1. Before(ls, 1) = {}
    BY <1>2 DEF Before, SamplesIn
  <2>2. k[0].series = <<>>
    BY <1>1, EmptyStore
  <2>3. ToSet(k[0].series) = {} /\ NearlyUp(k[0].series)
    BY <2>2 DEF ToSet, NearlyUp
  <2> QED
    BY <2>1, <2>3
<1>6. ASSUME NEW n \in 0..N, Good(n), n + 1 <= N
      PROVE  Good(n + 1)
  <2> DEFINE line == ls[n + 1]
             new == k[n + 1]
             old == k[n]
  <2>1. old \in Stores /\ new \in Stores /\ line \in Lines /\ new = Ingested(old, line)
    BY <1>4, <1>6
  <2>2. line.kind \in {"sample", "hour", "junk"}
    BY <2>1, RecordFacts
  <2>3. /\ line.kind = "sample" => Before(ls, n + 2) = Before(ls, n + 1) \union {line.at}
        /\ line.kind # "sample" => Before(ls, n + 2) = Before(ls, n + 1)
    BY <1>6, BeforeNext DEF N
  <2>4. (n + 1) + 1 = n + 2 /\ \A i \in 1..(n + 1) : i \in 1..n \/ i = n + 1
    BY <1>2
  <2>5. line.kind # "hour" => line # Hour(TRUE)
    BY RecordFacts
  <2>6. old.series \in Seq(Times) /\ old.lastOK \in Int /\ new.lastOK \in Int
        /\ ToSet(old.series) \subseteq Times
    <3>1. old.lastOK \in Times \union {0} /\ new.lastOK \in Times \union {0}
      BY <2>1 DEF Stores
    <3>2. old.series \in Seq(Times)
      BY <2>1 DEF Stores
    <3>3. ToSet(old.series) \subseteq Times
      BY <3>2 DEF ToSet
    <3>4. old.lastOK \in Int /\ new.lastOK \in Int
      BY <3>1, Instants
    <3> QED
      BY <3>2, <3>3, <3>4
  <2>7. /\ ToSet(old.series) = Before(ls, n + 1)
        /\ \A t \in Before(ls, n + 1) : t <= old.lastOK
        /\ (\E i \in 1..n : ls[i] = Hour(TRUE)) => old.hour = "full"
        /\ InPlace(ls) => NearlyUp(old.series)
    BY <1>6
  <2> SUFFICES
        /\ ToSet(new.series) = Before(ls, n + 2)
        /\ \A t \in Before(ls, n + 2) : t <= new.lastOK
        /\ (\E i \in 1..(n + 1) : ls[i] = Hour(TRUE)) => new.hour = "full"
        /\ InPlace(ls) => NearlyUp(new.series)
    BY <2>4
  <2> HIDE DEF Good
  <2>8. CASE line.kind = "sample" /\ line.at \notin ToSet(old.series)
    <3>1. line.at \in Times /\ line.at \in Int
      BY <1>3, <2>1, <2>8, RecordFacts
    <3>2. /\ new.series = Append(old.series, line.at)
          /\ old.lastOK <= new.lastOK /\ line.at <= new.lastOK
          /\ new.hour = old.hour
      BY <2>1, <2>8, AddsSample
    <3>3. ToSet(new.series) = ToSet(old.series) \union {line.at}
      BY <2>6, <3>1, <3>2, AppendSet
    <3>4. ToSet(new.series) = Before(ls, n + 2)
      BY <2>3, <2>7, <2>8, <3>3
    <3>5. \A t \in Before(ls, n + 2) : t <= new.lastOK
      <4>1. \A t \in ToSet(old.series) : t \in Int /\ t <= old.lastOK
        BY <1>3, <2>6, <2>7
      <4>2. \A t \in ToSet(old.series) : t <= new.lastOK
        BY <2>6, <3>2, <4>1
      <4> QED
        BY <2>3, <2>7, <2>8, <3>2, <4>2
    <3>6. (\E i \in 1..(n + 1) : ls[i] = Hour(TRUE)) => new.hour = "full"
      BY <2>4, <2>5, <2>7, <2>8, <3>2
    <3>7. ASSUME InPlace(ls)
          PROVE  NearlyUp(new.series)
      <4>1. n + 1 \in SamplesIn(ls)
        BY <1>2, <1>6, <2>8 DEF SamplesIn
      <4>2. Placed(line.at, ToSet(old.series))
        BY <2>7, <3>7, <4>1 DEF InPlace
      <4>3. Expired(line.at, ToSet(old.series)) \/ \A u \in ToSet(old.series) : u < line.at
        BY <2>8, <4>2 DEF Placed, Kept
      <4>4. NearlyUp(old.series)
        BY <2>7, <3>7
      <4>5. \A t : Expired(t, ToSet(old.series)) => Expired(t, ToSet(new.series))
        BY <3>3 DEF Expired
      <4> SUFFICES ASSUME NEW i \in DOMAIN new.series, NEW j \in DOMAIN new.series, i < j
                   PROVE  new.series[i] < new.series[j]
                          \/ Expired(new.series[j], ToSet(new.series))
        BY DEF NearlyUp
      <4>6. /\ i \in DOMAIN old.series /\ new.series[i] = old.series[i]
            /\ \/ j \in DOMAIN old.series /\ new.series[j] = old.series[j]
               \/ new.series[j] = line.at
        <5> DEFINE m == Len(old.series)
        <5>1. /\ m \in Nat /\ DOMAIN old.series = 1..m /\ DOMAIN new.series = 1..(m + 1)
              /\ \A p \in 1..m : new.series[p] = old.series[p]
              /\ new.series[m + 1] = line.at
          BY <2>6, <3>1, <3>2
        <5> HIDE DEF m
        <5>2. i \in 1..m /\ (j \in 1..m \/ j = m + 1)
          BY <5>1
        <5> QED
          BY <5>1, <5>2
      <4>7. CASE j \in DOMAIN old.series /\ new.series[j] = old.series[j]
        BY <4>4, <4>5, <4>6, <4>7 DEF NearlyUp
      <4>8. CASE new.series[j] = line.at
        <5>1. new.series[i] \in ToSet(old.series)
          BY <4>6 DEF ToSet
        <5> QED
          BY <4>3, <4>5, <4>8, <5>1
      <4> QED
        BY <4>6, <4>7, <4>8
    <3> QED
      BY <3>4, <3>5, <3>6, <3>7
  <2>9. CASE line.kind = "sample" /\ line.at \in ToSet(old.series)
    <3>1. new = old
      BY <2>1, <2>9, IngestedIs
    <3>2. Before(ls, n + 2) = Before(ls, n + 1)
      BY <2>3, <2>7, <2>9
    <3> QED
      BY <2>4, <2>5, <2>7, <2>9, <3>1, <3>2
  <2>10. CASE line.kind = "junk"
    <3>1. new = old
      BY <2>1, <2>10, IngestedIs
    <3> QED
      BY <2>3, <2>4, <2>5, <2>7, <2>10, <3>1
  <2>11. CASE line.kind = "hour"
    <3>1. /\ new.series = old.series /\ new.lastOK = old.lastOK
          /\ line.full \/ old.hour = "full" => new.hour = "full"
      BY <2>1, <2>11, AddsHour
    <3>2. line = Hour(TRUE) => line.full
      BY RecordFacts
    <3> QED
      BY <2>3, <2>4, <2>7, <2>11, <3>1, <3>2
  <2> QED
    BY <2>2, <2>8, <2>9, <2>10, <2>11
<1>7. Good(N)
  <2> DEFINE T == {n \in 0..N : Good(n)}
  <2> HIDE DEF Good
  <2>1. 0 \in T
    BY <1>2, <1>5
  <2>2. \A n \in 0..N : n \in T /\ n + 1 <= N => n + 1 \in T
    BY <1>2, <1>6
  <2> HIDE DEF T
  <2>3. 0..N \subseteq T
    BY <1>2, <2>1, <2>2, BoundedInduction
  <2> QED
    BY <1>2, <2>3 DEF T
<1>8. Before(ls, N + 1) = TimesOf(ls)
  BY <1>2 DEF Before, TimesOf, SamplesIn
<1>9. Hour(TRUE) \in ToSet(ls) => \E i \in 1..N : ls[i] = Hour(TRUE)
  BY <1>2 DEF ToSet
<1>10. k[N] \in Stores
  BY <1>1, <1>2
<1> QED
  BY <1>1, <1>7, <1>8, <1>9, <1>10

-----------------------------------------------------------------------------
(* The file: snapshots, writes, and what is durable.                       *)
(* A snapshot holds the times of the store in its order, and a complete    *)
(* hour exactly when the store has one.                                    *)
LEMMA SnapshotIs ==
  ASSUME NEW s \in Stores
  PROVE  /\ SnapshotRecords(s) \in Seq(Records)
         /\ TimesOf(SnapshotRecords(s)) = ToSet(s.series)
         /\ StrictlyUp(s.series) => Rising(SnapshotRecords(s))
         /\ Hour(TRUE) \in ToSet(SnapshotRecords(s)) <=> s.hour = "full"
<1> DEFINE samples == [i \in 1..Len(s.series) |-> Sample(s.series[i])]
           hours == IF s.hour = "none" THEN <<>> ELSE <<Hour(s.hour = "full")>>
<1>1. s.series \in Seq(Times) /\ s.hour \in {"none", "partial", "full"}
  BY DEF Stores
<1>2. samples \in Seq(Records) /\ Len(samples) = Len(s.series) /\ Len(samples) \in Nat
      /\ \A i \in 1..Len(s.series) : samples[i] = Sample(s.series[i])
  BY <1>1, RecordFacts
<1>3. /\ hours \in Seq(Records)
      /\ ToSet(hours) = IF s.hour = "none" THEN {} ELSE {Hour(s.hour = "full")}
  <2>1. CASE s.hour = "none"
    BY <2>1 DEF ToSet
  <2>2. CASE s.hour # "none"
    <3>1. Hour(s.hour = "full") \in Records
      BY RecordFacts
    <3>2. ToSet(<<Hour(s.hour = "full")>>) = {Hour(s.hour = "full")}
      BY DEF ToSet
    <3> QED
      BY <2>2, <3>1, <3>2
  <2> QED
    BY <2>1, <2>2
<1>4. SnapshotRecords(s) = samples \o hours
  BY DEF SnapshotRecords
<1> DEFINE rec == SnapshotRecords(s)
<1>5. ToSet(samples) = {Sample(t) : t \in ToSet(s.series)}
  <2>1. DOMAIN samples = 1..Len(s.series) /\ DOMAIN s.series = 1..Len(s.series)
    BY <1>1
  <2> HIDE DEF samples
  <2> QED
    BY <1>2, <2>1 DEF ToSet
<1> HIDE DEF samples, hours
<1>6. rec \in Seq(Records) /\ ToSet(rec) = ToSet(samples) \union ToSet(hours)
  BY <1>2, <1>3, <1>4, ConcatSet
<1>7. \A t, f : Sample(t) # Hour(f)
  BY RecordFacts
<1>8. TimesOf(rec) = ToSet(s.series)
  <2>1. rec \in Seq(Lines)
    BY <1>6, RecordFacts
  <2>2. ToSet(s.series) \subseteq Times
    BY <1>1 DEF ToSet
  <2>3. \A t \in Times : Sample(t) \in ToSet(rec) <=> t \in ToSet(s.series)
    BY <1>3, <1>5, <1>6, <1>7, RecordFacts
  <2> QED
    BY <2>1, <2>2, <2>3, TimesAre
<1>9. Hour(TRUE) \in ToSet(rec) <=> s.hour = "full"
  <2>1. Hour(TRUE) \notin ToSet(samples)
    BY <1>5, <1>7
  <2>2. Hour(TRUE) \in ToSet(hours) <=> s.hour = "full"
    <3>1. \A f \in BOOLEAN : Hour(TRUE) = Hour(f) => f
      BY RecordFacts
    <3> QED
      BY <1>3, <3>1
  <2> QED
    BY <1>6, <2>1, <2>2
<1>10. ASSUME StrictlyUp(s.series)
       PROVE  Rising(rec)
  <2>1. \A i \in SamplesIn(rec) :
          i \in DOMAIN s.series /\ rec[i] = Sample(s.series[i])
    <3> SUFFICES ASSUME NEW i \in SamplesIn(rec)
                 PROVE  i \in DOMAIN s.series /\ rec[i] = Sample(s.series[i])
      OBVIOUS
    <3>1. i \in DOMAIN rec /\ rec[i].kind = "sample"
      BY DEF SamplesIn
    <3>2. CASE i <= Len(s.series)
      BY <1>1, <1>2, <1>3, <1>4, <3>1, <3>2
    <3>3. CASE i > Len(s.series)
      <4>1. rec[i] \in ToSet(hours)
        <5>1. i - Len(samples) \in DOMAIN hours /\ rec[i] = hours[i - Len(samples)]
          BY <1>2, <1>3, <1>4, <3>1, <3>3
        <5> QED
          BY <5>1 DEF ToSet
      <4> QED
        BY <1>3, <3>1, <4>1, RecordFacts
    <3> QED
      BY <1>1, <1>6, <3>1, <3>2, <3>3
  <2> QED
    BY <1>10, <2>1, RecordFacts DEF Rising, StrictlyUp
<1> QED
  BY <1>6, <1>8, <1>9, <1>10

LEMMA WrittenOnto ==
  ASSUME NEW ls \in Seq(Lines), ls # <<>>, NEW piece \in Seq(Lines), piece # <<>>
  PROVE  \E w :
         /\ w = Front(ls) \o <<Junk>> \o Tail(piece)
         /\ w \in Seq(Lines)
         /\ Len(w) = Len(ls) + (Len(piece) - 1) /\ Len(ls) >= 1 /\ Len(piece) >= 1
         /\ \A i \in 1..(Len(ls) - 1) : w[i] = ls[i]
         /\ w[Len(ls)] = Junk
         /\ \A j \in 1..(Len(piece) - 1) : w[Len(ls) + j] = piece[j + 1]
<1> DEFINE front == SubSeq(ls, 1, Len(ls) - 1)
           tail == Tail(piece)
           junk == <<Junk>>
           head == front \o junk
           w == head \o tail
<1>0. w = Front(ls) \o <<Junk>> \o Tail(piece)
  BY DEF Front
<1>1. w = head \o tail
  OBVIOUS
<1> HIDE DEF w
<1>2. Len(ls) \in Nat /\ Len(ls) >= 1 /\ Len(piece) \in Nat /\ Len(piece) >= 1
  BY TailIs
<1>3. front \in Seq(Lines) /\ Len(front) = Len(ls) - 1
      /\ \A i \in 1..(Len(ls) - 1) : front[i] = ls[i]
  <2>1. Len(ls) - 1 \in 0..Len(ls)
    BY <1>2
  <2> QED
    BY <2>1, PrefixIs
<1>6. junk \in Seq(Lines) /\ Len(junk) = 1 /\ junk[1] = Junk
  BY RecordFacts
<1>7. tail \in Seq(Lines) /\ Len(tail) = Len(piece) - 1
  BY TailIs
<1>8. \A j \in 1..(Len(piece) - 1) : tail[j] = piece[j + 1]
  BY TailIs
<1> HIDE DEF front, tail, junk
<1>9. head = front \o junk
  OBVIOUS
<1> HIDE DEF head
<1>10. /\ head \in Seq(Lines) /\ Len(head) = Len(front) + Len(junk)
       /\ \A i \in 1..Len(front) : head[i] = front[i]
  BY <1>3, <1>6, <1>9, ConcatIs
<1>11. \A j \in 1..Len(junk) : head[Len(front) + j] = junk[j]
  <2>1. front \in Seq(Lines) /\ junk \in Seq(Lines)
    BY <1>3, <1>6
  <2> QED
    BY <2>1, <1>9, ConcatIs
<1>12. Len(head) = Len(ls) /\ head[Len(ls)] = Junk
  BY <1>2, <1>3, <1>6, <1>10, <1>11
<1>13. \A i \in 1..(Len(ls) - 1) : head[i] = ls[i]
  BY <1>2, <1>3, <1>10
<1>14. w \in Seq(Lines) /\ Len(w) = Len(head) + Len(tail)
  BY <1>1, <1>7, <1>10, ConcatIs
<1>15. \A i \in 1..Len(head) : w[i] = head[i]
  BY <1>1, <1>7, <1>10, ConcatIs
<1>16. \A j \in 1..Len(tail) : w[Len(head) + j] = tail[j]
  BY <1>1, <1>7, <1>10, ConcatIs
<1>17. Len(w) = Len(ls) + (Len(piece) - 1)
  BY <1>7, <1>12, <1>14
<1>18. \A i \in 1..(Len(ls) - 1) : w[i] = ls[i]
  BY <1>2, <1>12, <1>13, <1>15
<1>19. w[Len(ls)] = Junk
  BY <1>2, <1>12, <1>15
<1>20. \A j \in 1..(Len(piece) - 1) : w[Len(ls) + j] = piece[j + 1]
  BY <1>2, <1>7, <1>8, <1>12, <1>16
<1> QED
  BY <1>0, <1>2, <1>14, <1>17, <1>18, <1>19, <1>20

(* What is left of the lines, and where the piece goes, when it is written *)
(* onto an open line.                                                      *)
Onto(ls, piece, w) ==
  /\ w \in Seq(Lines)
  /\ Len(w) = Len(ls) + (Len(piece) - 1) /\ Len(ls) >= 1 /\ Len(piece) >= 1
  /\ \A i \in 1..(Len(ls) - 1) : w[i] = ls[i]
  /\ w[Len(ls)] = Junk
  /\ \A j \in 1..(Len(piece) - 1) : w[Len(ls) + j] = piece[j + 1]

LEMMA OntoIs ==
  ASSUME NEW ls \in Seq(Lines), NEW piece \in Seq(Lines),
         ls # <<>>, piece # <<>>, NEW w, w = Written(ls, TRUE, piece)
  PROVE  Onto(ls, piece, w)
<1>1. w = Front(ls) \o <<Junk>> \o Tail(piece)
  BY Zenon DEF Written
<1>2. PICK v : v = Front(ls) \o <<Junk>> \o Tail(piece) /\ Onto(ls, piece, v)
  BY WrittenOnto, Zenon DEF Onto
<1>3. v = w
  BY <1>1, <1>2, Zenon
<1> QED
  BY <1>2, <1>3, Zenon

LEMMA WrittenIs ==
  ASSUME NEW ls \in Seq(Lines), NEW isOpen \in BOOLEAN, isOpen => ls # <<>>,
         NEW piece \in Seq(Lines), NEW w, w = Written(ls, isOpen, piece)
  PROVE  /\ w \in Seq(Lines)
         /\ ~(isOpen /\ piece # <<>>) => w = ls \o piece
         /\ isOpen /\ piece # <<>> => Onto(ls, piece, w)
<1>1. CASE isOpen /\ piece # <<>>
  <2>1. w = Written(ls, TRUE, piece) /\ ls # <<>> /\ piece # <<>>
    BY <1>1
  <2>2. Onto(ls, piece, w)
    BY <2>1, OntoIs
  <2> QED
    BY <1>1, <2>2 DEF Onto
<1>2. CASE ~(isOpen /\ piece # <<>>)
  <2>1. w = ls \o piece
    BY <1>2, Zenon DEF Written
  <2>2. w \in Seq(Lines)
    BY <2>1, ConcatIs
  <2> QED
    BY <1>2, <2>1, <2>2
<1> QED
  BY <1>1, <1>2

(* What is written holds nothing but the lines and the piece, and all of   *)
(* both when the file is not open.                                         *)
LEMMA WrittenHolds ==
  ASSUME NEW ls \in Seq(Lines), NEW isOpen \in BOOLEAN, isOpen => ls # <<>>,
         NEW piece \in Seq(Lines), NEW w, w = Written(ls, isOpen, piece)
  PROVE  /\ ToSet(w) \subseteq ToSet(ls) \union ToSet(piece) \union {Junk}
         /\ TimesOf(w) \subseteq TimesOf(ls) \union TimesOf(piece)
         /\ ~isOpen => TimesOf(w) = TimesOf(ls) \union TimesOf(piece)
<1>1. w \in Seq(Lines)
  BY WrittenIs
<1>2. CASE ~(isOpen /\ piece # <<>>)
  <2>1. w = ls \o piece
    BY <1>2 DEF Written
  <2>2. ToSet(w) = ToSet(ls) \union ToSet(piece)
    BY <2>1, ConcatSet
  <2> QED
    BY <1>1, <2>2, TimesAre
<1>3. CASE isOpen /\ piece # <<>>
  <2>0. Onto(ls, piece, w)
    BY <1>3, WrittenIs
  <2>1. /\ Len(w) = Len(ls) + (Len(piece) - 1) /\ Len(ls) >= 1 /\ Len(piece) >= 1
        /\ \A i \in 1..(Len(ls) - 1) : w[i] = ls[i]
        /\ w[Len(ls)] = Junk
        /\ \A j \in 1..(Len(piece) - 1) : w[Len(ls) + j] = piece[j + 1]
    BY <2>0 DEF Onto
  <2>2. Len(ls) \in Nat /\ Len(piece) \in Nat /\ DOMAIN ls = 1..Len(ls)
        /\ DOMAIN piece = 1..Len(piece) /\ DOMAIN w = 1..Len(w)
    BY <1>1
  <2>3. ASSUME NEW i \in DOMAIN w
        PROVE  w[i] \in ToSet(ls) \union ToSet(piece) \union {Junk}
    <3>1. CASE i <= Len(ls) - 1
      <4>1. w[i] = ls[i] /\ i \in DOMAIN ls
        BY <2>1, <2>2, <3>1
      <4> QED
        BY <4>1 DEF ToSet
    <3>2. CASE i = Len(ls)
      BY <2>1, <3>2
    <3>3. CASE i > Len(ls)
      <4>1. i - Len(ls) \in 1..(Len(piece) - 1) /\ Len(ls) + (i - Len(ls)) = i
        BY <2>1, <2>2, <3>3
      <4>2. w[i] = piece[(i - Len(ls)) + 1] /\ (i - Len(ls)) + 1 \in DOMAIN piece
        BY <2>1, <2>2, <4>1
      <4> QED
        BY <4>2 DEF ToSet
    <3> QED
      BY <2>1, <2>2, <3>1, <3>2, <3>3
  <2>4. ToSet(w) \subseteq ToSet(ls) \union ToSet(piece) \union {Junk}
    BY <2>3 DEF ToSet
  <2>5. \A t : Sample(t) # Junk
    BY RecordFacts
  <2> QED
    BY <1>1, <1>3, <2>4, <2>5, TimesAre
<1> QED
  BY <1>2, <1>3

(* Where a sample of what is written stands: as before, or after the old   *)
(* lines that are left and the samples of the piece before it.             *)
LEMMA WrittenBefore ==
  ASSUME NEW ls \in Seq(Lines), NEW isOpen \in BOOLEAN, isOpen => ls # <<>>,
         NEW piece \in Seq(Lines), NEW w, w = Written(ls, isOpen, piece),
         NEW j \in SamplesIn(w)
  PROVE  \/ j \in SamplesIn(ls) /\ w[j] = ls[j] /\ Before(w, j) = Before(ls, j)
         \/ \E p \in SamplesIn(piece) :
              /\ w[j] = piece[p]
              /\ Before(w, j) \subseteq TimesOf(ls) \union Before(piece, p)
              /\ ~isOpen => TimesOf(ls) \subseteq Before(w, j)
<1>1. w \in Seq(Lines)
  BY WrittenIs
<1>2. Len(ls) \in Nat /\ Len(piece) \in Nat /\ DOMAIN ls = 1..Len(ls)
      /\ DOMAIN piece = 1..Len(piece) /\ DOMAIN w = 1..Len(w)
  BY <1>1
<1>3. j \in DOMAIN w /\ w[j].kind = "sample"
  BY DEF SamplesIn
<1>4. CASE ~(isOpen /\ piece # <<>>)
  <2>1. /\ Len(w) = Len(ls) + Len(piece)
        /\ \A i \in 1..Len(ls) : w[i] = ls[i]
        /\ \A i \in 1..Len(piece) : w[Len(ls) + i] = piece[i]
    <3>1. w = ls \o piece
      BY <1>4, WrittenIs
    <3> QED
      BY <3>1, ConcatIs
  <2>2. CASE j <= Len(ls)
    <3>1. \A k \in DOMAIN w : k <= j => k \in DOMAIN ls /\ w[k] = ls[k]
      BY <1>2, <1>3, <2>1, <2>2
    <3>2. \A k \in DOMAIN ls : k <= j => k \in DOMAIN w /\ w[k] = ls[k]
      BY <1>2, <2>1
    <3>3. \A k : k \in SamplesIn(w) /\ k < j <=> k \in SamplesIn(ls) /\ k < j
      BY <1>2, <1>3, <3>1, <3>2 DEF SamplesIn
    <3>4. Before(w, j) = Before(ls, j)
      BY <1>2, <1>3, <3>1, <3>3 DEF Before, SamplesIn
    <3> QED
      BY <1>2, <1>3, <3>1, <3>4 DEF SamplesIn
  <2>3. CASE j > Len(ls)
    <3> DEFINE p == j - Len(ls)
    <3>1. p \in 1..Len(piece) /\ Len(ls) + p = j
      BY <1>2, <1>3, <2>1, <2>3
    <3>2. w[j] = piece[p] /\ p \in SamplesIn(piece)
      <4>1. w[Len(ls) + p] = piece[p]
        BY <2>1, <3>1
      <4> QED
        BY <1>2, <1>3, <3>1, <4>1 DEF SamplesIn
    <3>3. ASSUME NEW k \in SamplesIn(w), k < j
          PROVE  w[k].at \in TimesOf(ls) \union Before(piece, p)
      <4>1. k \in 1..Len(w) /\ w[k].kind = "sample"
        BY <1>2 DEF SamplesIn
      <4>2. CASE k <= Len(ls)
        <5>1. k \in SamplesIn(ls) /\ w[k] = ls[k]
          BY <1>2, <2>1, <4>1, <4>2 DEF SamplesIn
        <5> QED
          BY <5>1 DEF TimesOf
      <4>3. CASE k > Len(ls)
        <5>1. k - Len(ls) \in 1..Len(piece) /\ Len(ls) + (k - Len(ls)) = k /\ k - Len(ls) < p
          BY <1>2, <1>3, <2>1, <2>3, <3>3, <4>1, <4>3
        <5>2. w[k] = piece[k - Len(ls)]
          BY <2>1, <5>1
        <5> QED
          BY <1>2, <4>1, <5>1, <5>2 DEF SamplesIn, Before
      <4> QED
        BY <1>2, <4>1, <4>2, <4>3
    <3>4. Before(w, j) \subseteq TimesOf(ls) \union Before(piece, p)
      BY <3>3 DEF Before
    <3>5. TimesOf(ls) \subseteq Before(w, j)
      <4>1. ASSUME NEW k \in SamplesIn(ls)
            PROVE  ls[k].at \in Before(w, j)
        <5>1. k \in DOMAIN w /\ k < j /\ w[k] = ls[k] /\ ls[k].kind = "sample"
          BY <1>2, <2>1, <2>3 DEF SamplesIn
        <5> QED
          BY <5>1 DEF Before, SamplesIn
      <4> QED
        BY <4>1 DEF TimesOf
    <3> HIDE DEF p
    <3> QED
      BY <3>2, <3>4, <3>5
  <2> QED
    BY <1>2, <1>3, <2>2, <2>3
<1>5. CASE isOpen /\ piece # <<>>
  <2>0. Onto(ls, piece, w)
    BY <1>5, WrittenIs
  <2>1. /\ Len(w) = Len(ls) + (Len(piece) - 1) /\ Len(ls) >= 1 /\ Len(piece) >= 1
        /\ \A i \in 1..(Len(ls) - 1) : w[i] = ls[i]
        /\ w[Len(ls)] = Junk
        /\ \A i \in 1..(Len(piece) - 1) : w[Len(ls) + i] = piece[i + 1]
    BY <2>0 DEF Onto
  <2>2. CASE j < Len(ls)
    <3>1. \A k \in DOMAIN w : k <= j => k \in DOMAIN ls /\ w[k] = ls[k]
      BY <1>2, <1>3, <2>1, <2>2
    <3>2. \A k \in DOMAIN ls : k <= j => k \in DOMAIN w /\ w[k] = ls[k]
      BY <1>2, <1>3, <2>1, <2>2
    <3>3. \A k : k \in SamplesIn(w) /\ k < j <=> k \in SamplesIn(ls) /\ k < j
      BY <1>2, <1>3, <3>1, <3>2 DEF SamplesIn
    <3>4. Before(w, j) = Before(ls, j)
      BY <1>2, <1>3, <3>1, <3>3 DEF Before, SamplesIn
    <3> QED
      BY <1>2, <1>3, <3>1, <3>4 DEF SamplesIn
  <2>3. CASE j > Len(ls)
    <3> DEFINE p == j - Len(ls) + 1
    <3>1. p - 1 \in 1..(Len(piece) - 1) /\ Len(ls) + (p - 1) = j /\ p \in 1..Len(piece)
          /\ (p - 1) + 1 = p
      BY <1>2, <1>3, <2>1, <2>3
    <3>2. w[j] = piece[p] /\ p \in SamplesIn(piece)
      <4>1. w[Len(ls) + (p - 1)] = piece[(p - 1) + 1]
        BY <2>1, <3>1
      <4> QED
        BY <1>2, <1>3, <3>1, <4>1 DEF SamplesIn
    <3>3. ASSUME NEW k \in SamplesIn(w), k < j
          PROVE  w[k].at \in TimesOf(ls) \union Before(piece, p)
      <4>1. k \in 1..Len(w) /\ w[k].kind = "sample"
        BY <1>2 DEF SamplesIn
      <4>2. CASE k < Len(ls)
        <5>1. k \in SamplesIn(ls) /\ w[k] = ls[k]
          BY <1>2, <2>1, <4>1, <4>2 DEF SamplesIn
        <5> QED
          BY <5>1 DEF TimesOf
      <4>3. CASE k = Len(ls)
        BY <2>1, <4>1, <4>3, RecordFacts
      <4>4. CASE k > Len(ls)
        <5>1. k - Len(ls) \in 1..(Len(piece) - 1) /\ Len(ls) + (k - Len(ls)) = k
              /\ (k - Len(ls)) + 1 < p /\ (k - Len(ls)) + 1 \in 1..Len(piece)
          BY <1>2, <2>1, <3>3, <4>1, <4>4
        <5>2. w[k] = piece[(k - Len(ls)) + 1]
          BY <2>1, <5>1
        <5> QED
          BY <1>2, <4>1, <5>1, <5>2 DEF SamplesIn, Before
      <4>5. k < Len(ls) \/ k = Len(ls) \/ k > Len(ls)
        <5>1. k \in Int /\ Len(ls) \in Int
          BY <1>1, <1>2, <4>1
        <5> QED
          BY <5>1
      <4> QED
        BY <4>2, <4>3, <4>4, <4>5
    <3>4. Before(w, j) \subseteq TimesOf(ls) \union Before(piece, p)
      BY <3>3 DEF Before
    <3> HIDE DEF p
    <3> QED
      BY <1>5, <3>2, <3>4
  <2>4. CASE j = Len(ls)
    BY <1>3, <2>1, <2>4, RecordFacts
  <2> QED
    BY <1>2, <1>3, <2>2, <2>3, <2>4
<1> QED
  BY <1>4, <1>5

(* Writing keeps every sample in place when the piece rises and each of    *)
(* its samples is in place after the lines; onto an open line, where old   *)
(* samples vanish, each must be later than all of them.                    *)
LEMMA WrittenInPlace ==
  ASSUME NEW ls \in Seq(Lines), NEW isOpen \in BOOLEAN, isOpen => ls # <<>>,
         NEW piece \in Seq(Lines), NEW w, w = Written(ls, isOpen, piece),
         InPlace(ls), Rising(piece), \A t \in TimesOf(piece) : Placed(t, TimesOf(ls)),
         isOpen => \A t \in TimesOf(piece), u \in TimesOf(ls) : u < t
  PROVE  InPlace(w)
<1> SUFFICES ASSUME NEW j \in SamplesIn(w)
             PROVE  Placed(w[j].at, Before(w, j))
  BY DEF InPlace
<1>1. CASE j \in SamplesIn(ls) /\ w[j] = ls[j] /\ Before(w, j) = Before(ls, j)
  BY <1>1 DEF InPlace
<1>2. CASE \E p \in SamplesIn(piece) :
              /\ w[j] = piece[p]
              /\ Before(w, j) \subseteq TimesOf(ls) \union Before(piece, p)
              /\ ~isOpen => TimesOf(ls) \subseteq Before(w, j)
  <2>1. PICK p \in SamplesIn(piece) :
              /\ w[j] = piece[p]
              /\ Before(w, j) \subseteq TimesOf(ls) \union Before(piece, p)
              /\ ~isOpen => TimesOf(ls) \subseteq Before(w, j)
    BY <1>2
  <2> DEFINE t == piece[p].at
  <2>2. t \in TimesOf(piece)
    BY DEF TimesOf
  <2>3. \A u \in Before(piece, p) : u < t
    BY DEF Rising, Before
  <2>4. Placed(t, TimesOf(ls))
    BY <2>2
  <2> HIDE DEF t
  <2>5. CASE \A u \in TimesOf(ls) : u < t
    BY <2>1, <2>3, <2>5 DEF Placed, t
  <2>6. CASE ~isOpen /\ Kept(t, TimesOf(ls))
    BY <2>1, <2>6 DEF Placed, Kept, Expired, t
  <2> QED
    BY <2>2, <2>4, <2>5, <2>6 DEF Placed
<1> QED
  BY <1>1, <1>2, WrittenBefore

LEMMA AppendIs ==
  ASSUME NEW S, NEW s \in Seq(S), NEW e \in S
  PROVE  /\ Append(s, e) # <<>> /\ Append(s, e) \in Seq(S)
         /\ Len(Append(s, e)) = Len(s) + 1 /\ Append(s, e)[Len(s) + 1] = e
         /\ \A i \in 1..Len(s) : Append(s, e)[i] = s[i]
<1>1. /\ Append(s, e) \in Seq(S) /\ Len(Append(s, e)) = Len(s) + 1 /\ Len(s) \in Nat
      /\ Append(s, e)[Len(s) + 1] = e
      /\ \A i \in 1..Len(s) : Append(s, e)[i] = s[i]
  OBVIOUS
<1>2. Append(s, e) # <<>>
  <2> DEFINE a == Append(s, e)
  <2>1. a \in Seq(S) /\ Len(a) # 0
    BY <1>1
  <2> HIDE DEF a
  <2>2. a # <<>>
    BY <2>1
  <2> QED
    BY <2>2 DEF a
<1> QED
  BY <1>1, <1>2

(* What a write that stops half-way leaves of the records: a prefix, whose *)
(* last line may be torn.                                                  *)
IsPiece(piece, recs) ==
  /\ piece \in Seq(Lines) /\ Len(piece) <= Len(recs)
  /\ \A i \in 1..Len(piece) : piece[i] = recs[i] \/ piece[i] = Junk

(* Such a piece holds no more than the records, and rises when they do.    *)
LEMMA PieceIs ==
  ASSUME NEW recs \in Seq(Lines), NEW piece, IsPiece(piece, recs)
  PROVE  /\ TimesOf(piece) \subseteq TimesOf(recs)
         /\ ToSet(piece) \subseteq ToSet(recs) \union {Junk}
         /\ Rising(recs) => Rising(piece)
<1>1. /\ DOMAIN recs = 1..Len(recs) /\ DOMAIN piece = 1..Len(piece)
      /\ Len(recs) \in Nat /\ Len(piece) \in Nat /\ Len(piece) <= Len(recs)
  BY DEF IsPiece
<1>2. \A i \in SamplesIn(piece) : i \in SamplesIn(recs) /\ piece[i] = recs[i]
  <2> SUFFICES ASSUME NEW i \in SamplesIn(piece)
               PROVE  i \in SamplesIn(recs) /\ piece[i] = recs[i]
    OBVIOUS
  <2>1. i \in DOMAIN piece /\ piece[i].kind = "sample" /\ i \in DOMAIN recs
    BY <1>1 DEF SamplesIn
  <2>2. piece[i] = recs[i] \/ piece[i] = Junk
    BY <1>1, <2>1 DEF IsPiece
  <2> QED
    BY <2>1, <2>2, RecordFacts DEF SamplesIn
<1>3. \A i \in DOMAIN piece : i \in DOMAIN recs /\ (piece[i] = recs[i] \/ piece[i] = Junk)
  BY <1>1 DEF IsPiece
<1> QED
  BY <1>2, <1>3 DEF TimesOf, ToSet, Rising

(* The lines of a history that a restart can count on.                     *)
DurableIn(ls, isOpen) ==
  {ls[i] : i \in Decodable(ls) \ (IF isOpen THEN {Len(ls)} ELSE {})}

(* What a write of these records may make of the file.                     *)
Writes(recs, complete) ==
  \E piece :
    /\ IsPiece(piece, recs)
    /\ complete => piece = recs /\ open' = FALSE
    /\ lines' = Written(lines, open, piece)
    /\ open' \in BOOLEAN
    /\ open' => open \/ piece # <<>>
    /\ piece = <<>> => (open' => open)

(* Both outcomes of an append, and a crash in it, write such a piece.      *)
LEMMA WritesPieces ==
  ASSUME NEW recs \in Seq(Records), open \in BOOLEAN
  PROVE  /\ WritesPart(recs) => Writes(recs, FALSE)
         /\ lines' = Written(lines, open, recs) /\ open' = FALSE => Writes(recs, TRUE)
<1>0. recs \in Seq(Lines) /\ Len(recs) \in Nat
  BY RecordFacts
<1>1. ASSUME WritesPart(recs)
      PROVE  Writes(recs, FALSE)
  <2>1. PICK n \in 0..(Len(recs) - 1) :
          \/ /\ lines' = Written(lines, open, SubSeq(recs, 1, n))
             /\ open' = (open /\ SubSeq(recs, 1, n) = <<>>)
          \/ /\ lines' = Written(lines, open, Append(SubSeq(recs, 1, n), Junk))
             /\ open' = TRUE
          \/ /\ lines' = Written(lines, open, Append(SubSeq(recs, 1, n), recs[n + 1]))
             /\ open' = TRUE
    BY <1>1, Zenon DEF WritesPart
  <2> DEFINE whole == SubSeq(recs, 1, n)
  <2>2. n \in 0..Len(recs) /\ n \in Nat /\ n + 1 <= Len(recs)
    BY <1>0
  <2>3. whole \in Seq(Lines) /\ Len(whole) = n /\ \A i \in 1..n : whole[i] = recs[i]
    BY <1>0, <2>2, PrefixIs
  <2>4. IsPiece(whole, recs)
    BY <2>2, <2>3 DEF IsPiece
  <2>5. recs[n + 1] \in Lines /\ Junk \in Lines
    BY <1>0, <2>2, RecordFacts
  <2> HIDE DEF whole
  <2>6. \A e \in Lines :
          /\ Append(whole, e) # <<>> /\ Append(whole, e) \in Seq(Lines)
          /\ Len(Append(whole, e)) = n + 1 /\ Append(whole, e)[n + 1] = e
          /\ \A i \in 1..n : Append(whole, e)[i] = recs[i]
    BY <2>2, <2>3, AppendIs
  <2>7. \A e \in Lines : e \in {Junk, recs[n + 1]} => IsPiece(Append(whole, e), recs)
    <3> SUFFICES ASSUME NEW e \in {Junk, recs[n + 1]}
                 PROVE  IsPiece(Append(whole, e), recs)
      OBVIOUS
    <3> DEFINE piece == Append(whole, e)
    <3>1. /\ piece \in Seq(Lines) /\ Len(piece) = n + 1 /\ piece[n + 1] = e
          /\ \A i \in 1..n : piece[i] = recs[i]
      BY <2>5, <2>6
    <3> HIDE DEF piece
    <3>2. \A i \in 1..(n + 1) : i \in 1..n \/ i = n + 1
      BY <2>2
    <3>3. \A i \in 1..Len(piece) : piece[i] = recs[i] \/ piece[i] = Junk
      BY <3>1, <3>2
    <3>4. IsPiece(piece, recs)
      BY <2>2, <3>1, <3>3 DEF IsPiece
    <3> QED
      BY <3>4 DEF piece
  <2>8. CASE lines' = Written(lines, open, whole) /\ open' = (open /\ whole = <<>>)
    BY <2>4, <2>8, Zenon DEF Writes
  <2>9. ASSUME NEW e \in {Junk, recs[n + 1]},
               lines' = Written(lines, open, Append(whole, e)), open' = TRUE
        PROVE  Writes(recs, FALSE)
    <3> DEFINE piece == Append(whole, e)
    <3>1. IsPiece(piece, recs) /\ piece # <<>> /\ lines' = Written(lines, open, piece)
      BY <2>5, <2>6, <2>7, <2>9
    <3> HIDE DEF piece
    <3>2. open' \in BOOLEAN
      BY <2>9
    <3> QED
      BY <3>1, <3>2, Zenon DEF Writes
  <2> QED
    BY <2>1, <2>8, <2>9 DEF whole
<1>2. ASSUME lines' = Written(lines, open, recs), open' = FALSE
      PROVE  Writes(recs, TRUE)
  <2>1. IsPiece(recs, recs)
    BY <1>0 DEF IsPiece
  <2> QED
    BY <1>2, <2>1, Zenon DEF Writes
<1> QED
  BY <1>1, <1>2

LEMMA BelowLast ==
  ASSUME NEW n \in Nat, NEW i \in 1..n, i # n
  PROVE  i < n /\ i \in 1..(n - 1)
OBVIOUS

(* Writing loses nothing durable: an open line was not.                    *)
LEMMA DurableGrows ==
  ASSUME NEW ls \in Seq(Lines), NEW isOpen \in BOOLEAN, isOpen => ls # <<>>,
         NEW piece \in Seq(Lines), NEW w, w = Written(ls, isOpen, piece),
         NEW nowOpen \in BOOLEAN, piece = <<>> => (nowOpen => isOpen)
  PROVE  DurableIn(ls, isOpen) \subseteq DurableIn(w, nowOpen)
<1>1. w \in Seq(Lines)
  BY WrittenIs
<1>2. Len(ls) \in Nat /\ Len(piece) \in Nat /\ DOMAIN ls = 1..Len(ls) /\ DOMAIN w = 1..Len(w)
      /\ Len(w) \in Nat /\ (piece # <<>> => Len(piece) > 0)
  BY <1>1
<1> SUFFICES ASSUME NEW i \in Decodable(ls), isOpen => i # Len(ls)
             PROVE  /\ i \in Decodable(w) /\ w[i] = ls[i]
                    /\ nowOpen => i # Len(w)
  BY DEF DurableIn
<1>3. i \in 1..Len(ls) /\ ls[i].kind # "junk"
  BY <1>2 DEF Decodable
<1>4. CASE ~(isOpen /\ piece # <<>>)
  <2>1. w = ls \o piece
    BY <1>4, WrittenIs
  <2>2. Len(w) = Len(ls) + Len(piece) /\ w[i] = ls[i]
    BY <1>3, <2>1, ConcatIs
  <2> QED
    BY <1>2, <1>3, <1>4, <2>2 DEF Decodable
<1>5. CASE isOpen /\ piece # <<>>
  <2>1. Onto(ls, piece, w)
    BY <1>5, WrittenIs
  <2>2. Len(w) = Len(ls) + (Len(piece) - 1) /\ Len(piece) >= 1
        /\ \A k \in 1..(Len(ls) - 1) : w[k] = ls[k]
    BY <2>1 DEF Onto
  <2>3. i < Len(ls) /\ i \in 1..(Len(ls) - 1)
    <3>1. i # Len(ls)
      BY <1>5
    <3> QED
      BY <1>2, <1>3, <3>1, BelowLast, Zenon
  <2> QED
    BY <1>2, <1>3, <2>2, <2>3 DEF Decodable
<1> QED
  BY <1>4, <1>5

LEMMA WrittenSome ==
  ASSUME NEW ls \in Seq(Lines), NEW isOpen \in BOOLEAN, isOpen => ls # <<>>,
         NEW piece \in Seq(Lines), NEW w, w = Written(ls, isOpen, piece),
         ls # <<>> \/ piece # <<>>
  PROVE  w # <<>>
<1>1. Len(ls) + Len(piece) > 0 /\ Len(ls) \in Nat /\ Len(piece) \in Nat
  OBVIOUS
<1>2. Len(w) > 0
  <2>1. CASE ~(isOpen /\ piece # <<>>)
    <3>1. w = ls \o piece
      BY <2>1, WrittenIs
    <3>2. Len(w) = Len(ls) + Len(piece)
      BY <3>1, ConcatIs
    <3> QED
      BY <1>1, <3>2
  <2>2. CASE isOpen /\ piece # <<>>
    <3>1. Len(w) = Len(ls) + (Len(piece) - 1) /\ Len(ls) >= 1 /\ Len(piece) >= 1
      BY <2>2, WrittenIs DEF Onto
    <3> QED
      BY <1>1, <3>1
  <2> QED
    BY <2>1, <2>2
<1> QED
  BY <1>2

(* What is durable is in the file, and all of the file is when it is not   *)
(* open.                                                                   *)
LEMMA DurableHolds ==
  ASSUME NEW ls \in Seq(Lines), NEW isOpen \in BOOLEAN
  PROVE  /\ SampleTimes(DurableIn(ls, isOpen)) \subseteq TimesOf(ls)
         /\ Hour(TRUE) \in DurableIn(ls, isOpen) => Hour(TRUE) \in ToSet(ls)
         /\ ~isOpen => /\ TimesOf(ls) \subseteq SampleTimes(DurableIn(ls, isOpen))
                       /\ Hour(TRUE) \in ToSet(ls) => Hour(TRUE) \in DurableIn(ls, isOpen)
<1>1. \A r \in ToSet(ls) : r.kind # "junk" /\ ~isOpen => r \in DurableIn(ls, isOpen)
  BY DEF ToSet, DurableIn, Decodable
<1>2. DurableIn(ls, isOpen) \subseteq ToSet(ls)
  BY DEF ToSet, DurableIn, Decodable
<1>3. SampleTimes(ToSet(ls)) = TimesOf(ls)
  BY TimesAre
<1>4. Hour(TRUE).kind # "junk"
  BY RecordFacts
<1>5. SampleTimes(DurableIn(ls, isOpen)) \subseteq SampleTimes(ToSet(ls))
  BY <1>2 DEF SampleTimes
<1>6. ASSUME ~isOpen
      PROVE  SampleTimes(ToSet(ls)) \subseteq SampleTimes(DurableIn(ls, isOpen))
  BY <1>1, <1>6 DEF SampleTimes
<1> QED
  BY <1>1, <1>2, <1>3, <1>4, <1>5, <1>6

-----------------------------------------------------------------------------
(* Sets of times, and sequences the invariant speaks of.                   *)
AllKept(T, U)    == \A t \in T : Kept(t, U)
AllPlaced(T, U)  == \A t \in T : Placed(t, U)
AllBefore(U, T)  == \A t \in T, u \in U : u < t
AllUpTo(T, last) == \A t \in T : t <= last

(* To be kept is transitive: what retention dropped for a time that is     *)
(* dropped itself is dropped for the later one.                            *)
LEMMA KeptFacts ==
  ASSUME NEW T, T \subseteq Times, NEW U, U \subseteq Times, NEW V, V \subseteq Times
  PROVE  /\ AllKept(T, U) /\ AllKept(U, V) => AllKept(T, V)
         /\ U \subseteq V /\ AllKept(T, U) => AllKept(T, V)
         /\ AllKept(T, T)
         /\ AllKept(T, U) \/ AllBefore(U, T) => AllPlaced(T, U)
         /\ AllPlaced({}, U) /\ AllKept({}, U) /\ AllBefore(U, {}) /\ AllBefore({}, T)
<1>1. Times \subseteq Int /\ History \in Int /\ History >= 0
  BY Instants
<1>2. ASSUME AllKept(T, U), AllKept(U, V), NEW t \in T
      PROVE  Kept(t, V)
  <2>1. Kept(t, U) /\ \A u \in U : Kept(u, V)
    BY <1>2 DEF AllKept
  <2>2. CASE t \in U
    BY <2>1, <2>2
  <2>3. CASE Expired(t, U)
    <3>1. PICK u \in U : t < u - History
      BY <2>3 DEF Expired
    <3>2. u \in V \/ \E v \in V : u < v - History
      BY <2>1 DEF Kept, Expired
    <3>3. CASE u \in V
      BY <3>1, <3>3 DEF Kept, Expired
    <3>4. CASE \E v \in V : u < v - History
      <4>1. PICK v \in V : u < v - History
        BY <3>4
      <4>2. t \in Int /\ u \in Int /\ v \in Int
        BY <1>1
      <4>3. t < v - History
        BY <1>1, <3>1, <4>1, <4>2
      <4> QED
        BY <4>3 DEF Kept, Expired
    <3> QED
      BY <3>2, <3>3, <3>4
  <2> QED
    BY <2>1, <2>2, <2>3 DEF Kept
<1> QED
  BY <1>2 DEF AllKept, AllPlaced, AllBefore, Kept, Placed, Expired

LEMMA NoRecords ==
  /\ <<>> \in Seq(Records) /\ <<>> \in Seq(Lines)
  /\ TimesOf(<<>>) = {} /\ ToSet(<<>>) = {}
  /\ Rising(<<>>) /\ InPlace(<<>>)
<1>1. DOMAIN <<>> = {}
  OBVIOUS
<1>2. SamplesIn(<<>>) = {}
  BY <1>1 DEF SamplesIn
<1> QED
  BY <1>1, <1>2 DEF TimesOf, ToSet, Rising, InPlace

(* A snapshot is in place.                                                 *)
LEMMA RisingInPlace ==
  ASSUME NEW ls \in Seq(Lines), Rising(ls)
  PROVE  InPlace(ls)
BY DEF Rising, InPlace, Placed, Before

(* So is what was read of a file before reading failed.                    *)
LEMMA PrefixInPlace ==
  ASSUME NEW ls \in Seq(Lines), NEW n \in 0..Len(ls), InPlace(ls)
  PROVE  SubSeq(ls, 1, n) \in Seq(Lines) /\ InPlace(SubSeq(ls, 1, n))
<1> DEFINE p == SubSeq(ls, 1, n)
<1>1. p \in Seq(Lines) /\ Len(p) = n /\ \A i \in 1..n : p[i] = ls[i]
  BY PrefixIs
<1>2. DOMAIN p = 1..n /\ DOMAIN ls = 1..Len(ls) /\ Len(ls) \in Nat
  BY <1>1
<1> HIDE DEF p
<1>3. SamplesIn(p) = {i \in SamplesIn(ls) : i <= n}
  BY <1>1, <1>2 DEF SamplesIn
<1>4. \A i \in SamplesIn(p) : p[i] = ls[i]
  BY <1>1, <1>2 DEF SamplesIn
<1>5. ASSUME NEW j \in SamplesIn(p)
      PROVE  Placed(p[j].at, Before(p, j))
  <2>1. j \in SamplesIn(ls) /\ p[j] = ls[j] /\ j \in 1..n
    BY <1>2, <1>3, <1>4 DEF SamplesIn
  <2>2. \A k \in SamplesIn(ls) : k < j => k \in SamplesIn(p)
    BY <1>2, <1>3, <2>1 DEF SamplesIn
  <2>3. \A k \in SamplesIn(p) : k \in SamplesIn(ls)
    BY <1>3
  <2>4. Before(p, j) = Before(ls, j)
    BY <1>4, <2>2, <2>3 DEF Before
  <2> QED
    BY <2>1, <2>4 DEF InPlace
<1> QED
  BY <1>1, <1>5 DEF InPlace, p

LEMMA SingleRecord ==
  /\ \A t \in Times : /\ <<Sample(t)>> \in Seq(Records) /\ Rising(<<Sample(t)>>)
                      /\ TimesOf(<<Sample(t)>>) = {t} /\ Hour(TRUE) \notin ToSet(<<Sample(t)>>)
  /\ \A f \in BOOLEAN : /\ <<Hour(f)>> \in Seq(Records) /\ Rising(<<Hour(f)>>)
                        /\ TimesOf(<<Hour(f)>>) = {}
                        /\ Hour(TRUE) \in ToSet(<<Hour(f)>>) <=> f
<1>1. ASSUME NEW r \in Records
      PROVE  <<r>> \in Seq(Records) /\ <<r>> \in Seq(Lines) /\ ToSet(<<r>>) = {r} /\ Rising(<<r>>)
  <2> DEFINE s == <<r>>
  <2>1. s \in Seq(Records) /\ DOMAIN s = {1} /\ s[1] = r
    OBVIOUS
  <2>2. \A i, j \in DOMAIN s : ~(i < j)
    BY <2>1
  <2> HIDE DEF s
  <2>3. s \in Seq(Lines)
    BY <2>1, RecordFacts
  <2>4. ToSet(s) = {r}
    BY <2>1 DEF ToSet
  <2>5. Rising(s)
    BY <2>2 DEF Rising, SamplesIn
  <2> QED
    BY <2>1, <2>3, <2>4, <2>5 DEF s
<1>2. ASSUME NEW t \in Times
      PROVE  /\ <<Sample(t)>> \in Seq(Records) /\ Rising(<<Sample(t)>>)
             /\ TimesOf(<<Sample(t)>>) = {t} /\ Hour(TRUE) \notin ToSet(<<Sample(t)>>)
  <2> DEFINE s == <<Sample(t)>>
  <2>1. s \in Seq(Records) /\ s \in Seq(Lines) /\ ToSet(s) = {Sample(t)} /\ Rising(s)
    BY <1>1, RecordFacts
  <2> HIDE DEF s
  <2>2. TimesOf(s) = {t}
    <3>1. \A u \in Times : Sample(u) = Sample(t) <=> u = t
      BY RecordFacts
    <3>2. TimesOf(s) = {u \in Times : Sample(u) \in ToSet(s)}
      BY <2>1, TimesAre
    <3> QED
      BY <2>1, <3>1, <3>2
  <2>3. Hour(TRUE) # Sample(t)
    BY RecordFacts
  <2> QED
    BY <2>1, <2>2, <2>3 DEF s
<1>3. ASSUME NEW f \in BOOLEAN
      PROVE  /\ <<Hour(f)>> \in Seq(Records) /\ Rising(<<Hour(f)>>)
             /\ TimesOf(<<Hour(f)>>) = {}
             /\ Hour(TRUE) \in ToSet(<<Hour(f)>>) <=> f
  <2> DEFINE s == <<Hour(f)>>
  <2>1. s \in Seq(Records) /\ s \in Seq(Lines) /\ ToSet(s) = {Hour(f)} /\ Rising(s)
    BY <1>1, RecordFacts
  <2> HIDE DEF s
  <2>2. TimesOf(s) = {}
    <3>1. \A u \in Times : Sample(u) # Hour(f)
      BY RecordFacts
    <3>2. TimesOf(s) = {u \in Times : Sample(u) \in ToSet(s)}
      BY <2>1, TimesAre
    <3> QED
      BY <2>1, <3>1, <3>2
  <2>3. Hour(TRUE) = Hour(f) <=> f
    BY RecordFacts
  <2> QED
    BY <2>1, <2>2, <2>3 DEF s
<1> QED
  BY <1>2, <1>3

LEMMA RisingJoins ==
  ASSUME NEW recs \in Seq(Lines), NEW more \in Seq(Lines), NEW all \in Seq(Lines),
         Len(all) = Len(recs) + Len(more),
         \A i \in 1..Len(recs) : all[i] = recs[i],
         \A j \in 1..Len(more) : all[Len(recs) + j] = more[j],
         Rising(recs), Rising(more), AllBefore(TimesOf(recs), TimesOf(more))
  PROVE  Rising(all)
<1> DEFINE n == Len(recs)
<1>1. /\ n \in Int /\ SamplesIn(all) \subseteq Int
      /\ DOMAIN recs = 1..n /\ DOMAIN more = 1..Len(more) /\ DOMAIN all = 1..Len(all)
      /\ Len(more) \in Nat
  BY DEF SamplesIn
<1>2. ASSUME NEW i \in SamplesIn(all)
      PROVE  /\ i <= n => i \in SamplesIn(recs) /\ all[i] = recs[i]
             /\ i > n => i - n \in SamplesIn(more) /\ all[i] = more[i - n]
  <2>1. i \in 1..Len(all) /\ all[i].kind = "sample" /\ i \in Int
    BY <1>1 DEF SamplesIn
  <2>2. CASE i <= n
    BY <1>1, <2>1, <2>2 DEF SamplesIn
  <2>3. CASE i > n
    <3>1. i - n \in 1..Len(more) /\ n + (i - n) = i
      BY <1>1, <2>1, <2>3
    <3>2. all[i] = more[i - n]
      BY <1>1, <3>1
    <3> QED
      BY <1>1, <2>1, <2>3, <3>1, <3>2 DEF SamplesIn
  <2> QED
    BY <1>1, <2>1, <2>2, <2>3
<1>3. \A i \in SamplesIn(recs), j \in SamplesIn(more) : recs[i].at < more[j].at
  BY DEF AllBefore, TimesOf
<1> HIDE DEF n
<1> SUFFICES ASSUME NEW i \in Int, NEW j \in Int, i \in SamplesIn(all), j \in SamplesIn(all), i < j
             PROVE  all[i].at < all[j].at
  BY <1>1 DEF Rising
<1>4. CASE j <= n
  <2>1. i <= n
    BY <1>1, <1>4
  <2> QED
    BY <1>2, <1>4, <2>1 DEF Rising
<1>5. CASE i > n
  <2>1. j > n /\ i - n < j - n
    BY <1>1, <1>5
  <2> QED
    BY <1>2, <1>5, <2>1 DEF Rising
<1>6. CASE i <= n /\ j > n
  BY <1>2, <1>3, <1>6
<1> QED
  BY <1>1, <1>4, <1>5, <1>6

(* What Apply makes of the buffer.                                         *)
LEMMA BufferGrows ==
  ASSUME NEW recs \in Seq(Records), NEW more \in Seq(Records), NEW all, all = recs \o more
  PROVE  /\ all \in Seq(Records)
         /\ TimesOf(all) = TimesOf(recs) \union TimesOf(more)
         /\ Hour(TRUE) \in ToSet(all) <=> Hour(TRUE) \in ToSet(recs) \/ Hour(TRUE) \in ToSet(more)
         /\ Rising(recs) /\ Rising(more) /\ AllBefore(TimesOf(recs), TimesOf(more)) => Rising(all)
<1>1. /\ all \in Seq(Records) /\ Len(all) = Len(recs) + Len(more)
      /\ Len(recs) \in Nat /\ Len(more) \in Nat
      /\ \A i \in 1..Len(recs) : all[i] = recs[i]
      /\ \A j \in 1..Len(more) : all[Len(recs) + j] = more[j]
  BY ConcatIs
<1>2. ToSet(all) = ToSet(recs) \union ToSet(more)
  BY ConcatSet
<1>3. recs \in Seq(Lines) /\ more \in Seq(Lines) /\ all \in Seq(Lines)
  BY <1>1, RecordFacts
<1>5. TimesOf(all) = TimesOf(recs) \union TimesOf(more)
  BY <1>2, <1>3, TimesAre
<1>6. Rising(recs) /\ Rising(more) /\ AllBefore(TimesOf(recs), TimesOf(more)) => Rising(all)
  BY <1>1, <1>3, RisingJoins
<1> QED
  BY <1>1, <1>2, <1>5, <1>6

-----------------------------------------------------------------------------
(* The inductive invariant.                                                *)

Shown == ToSet(store.series)

(* All sample times that are in the file or on their way to it.            *)
Filed == TimesOf(lines) \union TimesOf(batch) \union TimesOf(dirty)

(* An hour that is complete anywhere is complete in the store.             *)
HourShown ==
  Hour(TRUE) \in ToSet(lines) \union ToSet(batch) \union ToSet(dirty) => store.hour = "full"

(* The engine: what drained the buffer for the last time has not been      *)
(* followed by a sample; an engine whose appends all succeeded did not     *)
(* start on an open line; a half-way load does not save.                   *)
EngineInv ==
  /\ at # "idle" => saving
  /\ at \in {"idle", "compact"} => batch = <<>>
  /\ final => alive = {} /\ dirty = <<>>
  /\ phase = "joined" /\ saving => final
  /\ open => lines # <<>>
  /\ saving /\ ~soiled => ~open
  /\ saving => status # "load-failed"

(* The store: nothing in the series is later than the last observation,    *)
(* which is what makes the next sample the newest.                         *)
StoreInv ==
  /\ store \in Stores
  /\ AllUpTo(Shown, store.lastOK)
  /\ Ascending

(* The file: every sample in place, whoever wrote it; while the engine     *)
(* saves, the store shows, or has dropped, everything that is in the file  *)
(* or on its way.                                                          *)
FileInv ==
  /\ InPlace(lines)
  /\ saving => AllUpTo(Filed, store.lastOK) /\ AllKept(Filed, Shown) /\ HourShown

(* The buffer: its samples rise and go in place after the file; they are   *)
(* later than the whole file when an append is under way, or when the next *)
(* one would swallow an open line.                                         *)
WaitInv ==
  saving =>
    /\ Rising(dirty) /\ AllPlaced(TimesOf(dirty), TimesOf(lines))
    /\ at = "append" \/ open => AllBefore(TimesOf(lines), TimesOf(dirty))
    /\ ~soiled => Shown \subseteq TimesOf(lines) \union TimesOf(dirty)
                                    \union (IF at = "append" THEN TimesOf(batch) ELSE {})

(* The batch that is being appended, likewise, and the buffer after it.    *)
AppendInv ==
  at = "append" =>
    /\ Rising(batch) /\ AllPlaced(TimesOf(batch), TimesOf(lines))
    /\ AllBefore(TimesOf(batch), TimesOf(dirty))
    /\ open => AllBefore(TimesOf(lines), TimesOf(batch))

(* The snapshot that is about to replace the file: nothing durable is lost *)
(* by it, and with the buffer it has everything that is shown.             *)
RewriteInv ==
  at = "rewrite" =>
    /\ Rising(batch) /\ AllPlaced(TimesOf(dirty), TimesOf(batch))
    /\ AllKept(TimesOf(lines), TimesOf(batch))
    /\ Shown \subseteq TimesOf(batch) \union TimesOf(dirty)
    /\ Hour(TRUE) \in ToSet(lines) => Hour(TRUE) \in ToSet(batch)

IInv == TypeOK /\ EngineInv /\ StoreInv /\ FileInv /\ WaitInv /\ AppendInv /\ RewriteInv

(* What TypeOK says of the sequences.                                      *)
LEMMA SequencesAre ==
  ASSUME TypeOK
  PROVE  /\ lines \in Seq(Lines) /\ TimesOf(lines) \subseteq Times
         /\ batch \in Seq(Lines) /\ TimesOf(batch) \subseteq Times
         /\ dirty \in Seq(Lines) /\ TimesOf(dirty) \subseteq Times
         /\ Filed \subseteq Times /\ Shown \subseteq Times
<1>1. lines \in Seq(Lines) /\ batch \in Seq(Records) /\ dirty \in Seq(Records)
      /\ store.series \in Seq(Times)
  BY DEF TypeOK, Lines
<1>2. batch \in Seq(Lines) /\ dirty \in Seq(Lines)
  BY <1>1, RecordFacts
<1>3. Shown \subseteq Times
  BY <1>1 DEF Shown, ToSet
<1> QED
  BY <1>1, <1>2, <1>3, TimesAre DEF Filed

LEMMA SeriesUp ==
  ASSUME Ascending, status # "load-failed"
  PROVE  StrictlyUp(store.series)
BY DEF Ascending, StrictlyUp

(* Ascending holds after a step that leaves the series ascending.          *)
LEMMA UpAscends ==
  ASSUME StrictlyUp(store'.series)
  PROVE  Ascending'
BY DEF Ascending, StrictlyUp

(* Nothing has been observed or saved yet.                                 *)
LEMMA InitHolds == Init => IInv
<1> SUFFICES ASSUME Init
             PROVE  IInv
  OBVIOUS
<1>1. store = Empty /\ store \in Stores /\ store.series = <<>>
  BY EmptyStore DEF Init
<1>2. lines = <<>> /\ batch = <<>> /\ dirty = <<>> /\ Filed = {} /\ Shown = {}
  BY <1>1, NoRecords DEF Init, Filed, Shown
<1>3. TypeOK
  <2>1. 0 \in 0..MaxObservations
    BY HistoryAssumption
  <2>2. <<>> \in Seq(Records \union {Junk})
    OBVIOUS
  <2> QED
    BY <1>1, <1>2, <2>1, <2>2, NoRecords DEF Init, TypeOK, Stores
<1>4. EngineInv
  BY <1>2 DEF Init, EngineInv
<1>5. StoreInv
  BY <1>1, <1>2 DEF StoreInv, AllUpTo, Ascending
<1>6. FileInv
  BY <1>2, NoRecords DEF Init, FileInv
<1> QED
  BY <1>3, <1>4, <1>5, <1>6 DEF Init, IInv, WaitInv, AppendInv, RewriteInv

-----------------------------------------------------------------------------
(* What Apply makes of the store: the new sample is its newest.            *)
LEMMA SampleJoins ==
  ASSUME NEW series \in Seq(Times), NEW last \in Times \union {0}, NEW t \in Times, t > last,
         AllUpTo(ToSet(series), last),
         \A i, j \in DOMAIN series :
           i < j => series[i] < series[j] \/ Expired(series[j], ToSet(series)),
         NEW new, new = Trim(Append(series, t), t)
  PROVE  /\ new \in Seq(Times) /\ StrictlyUp(new)
         /\ AllUpTo(ToSet(new), t) /\ AllKept(ToSet(series), ToSet(new))
         /\ ToSet(new) \subseteq ToSet(series) \union {t} /\ t \in ToSet(new)
<1> DEFINE longer == Append(series, t)
<1>1. Times \subseteq Int /\ History \in Int /\ History >= 0 /\ last \in Int /\ t \in Int
  BY Instants
<1>2. /\ longer \in Seq(Times) /\ Len(longer) = Len(series) + 1
      /\ longer[Len(series) + 1] = t /\ \A i \in 1..Len(series) : longer[i] = series[i]
      /\ ToSet(longer) = ToSet(series) \union {t}
  <2>1. /\ longer \in Seq(Times) /\ Len(longer) = Len(series) + 1
        /\ longer[Len(series) + 1] = t /\ \A i \in 1..Len(series) : longer[i] = series[i]
    BY AppendIs
  <2>2. ToSet(longer) = ToSet(series) \union {t}
    BY AppendSet
  <2> QED
    BY <2>1, <2>2
<1>3. new = Trim(longer, t)
  OBVIOUS
<1> HIDE DEF longer
<1>4. new \in Seq(Times) /\ ToSet(new) = {u \in ToSet(longer) : u >= t - History}
  BY <1>1, <1>2, <1>3, TrimIs
<1>5. ToSet(series) \subseteq Times
  BY DEF ToSet
<1>6. \A u \in ToSet(series) : u \in Int /\ u < t
  <2>1. \A u, m, k \in Int : u <= m /\ k > m => u < k
    OBVIOUS
  <2>2. \A u \in ToSet(series) : u \in Int /\ u <= last
    BY <1>1, <1>5 DEF AllUpTo
  <2> QED
    BY <1>1, <2>1, <2>2
<1>7. t \in ToSet(new)
  <2>1. t >= t - History
    BY <1>1
  <2> QED
    BY <1>2, <1>4, <2>1
<1>8. AllUpTo(ToSet(new), t)
  BY <1>1, <1>2, <1>4, <1>6 DEF AllUpTo
<1>9. AllKept(ToSet(series), ToSet(new))
  <2>2. \A u \in ToSet(series) : u >= t - History \/ u < t - History
    BY <1>1, <1>6
  <2> QED
    BY <1>2, <1>4, <1>7, <2>2 DEF AllKept, Kept, Expired
<1>10. StrictlyUp(new)
  <2>1. DOMAIN longer = 1..(Len(series) + 1) /\ DOMAIN series = 1..Len(series)
        /\ Len(series) \in Nat
    BY <1>2
  <2>2. ASSUME NEW i \in Int, NEW j \in Int, i \in DOMAIN longer, j \in DOMAIN longer, i < j,
               longer[j] >= t - History
        PROVE  longer[i] < longer[j]
    <3>1. i \in 1..Len(series) /\ longer[i] = series[i] /\ series[i] \in ToSet(series)
      BY <1>2, <2>1, <2>2 DEF ToSet
    <3>2. CASE j = Len(series) + 1
      BY <1>2, <1>6, <3>1, <3>2
    <3>3. CASE j # Len(series) + 1
      <4>1. j \in 1..Len(series) /\ longer[j] = series[j]
        BY <1>2, <2>1, <2>2, <3>3
      <4>2. series[i] < series[j] \/ Expired(series[j], ToSet(series))
        BY <2>1, <2>2, <3>1, <4>1
      <4>3. ~Expired(series[j], ToSet(series))
        <5>1. series[j] \in ToSet(series)
          BY <2>1, <4>1 DEF ToSet
        <5>2. \A u \in ToSet(series) : ~(series[j] < u - History)
          BY <1>1, <1>6, <2>2, <4>1, <5>1
        <5> QED
          BY <5>2 DEF Expired
      <4> QED
        BY <3>1, <4>1, <4>2, <4>3
    <3> QED
      BY <3>2, <3>3
  <2>3. DOMAIN longer \subseteq Int
    BY <2>1
  <2> QED
    BY <1>1, <1>2, <1>3, <2>2, <2>3, TrimIs
<1> QED
  BY <1>2, <1>4, <1>7, <1>8, <1>9, <1>10

(* Apply, in terms of what it adds to the store and to the buffer.         *)
Adds(t, samples, hours) ==
  /\ t > store.lastOK
  /\ samples \in Seq(Records) /\ Rising(samples) /\ TimesOf(samples) \in {{}, {t}}
  /\ Hour(TRUE) \notin ToSet(samples)
  /\ hours \in Seq(Records) /\ Rising(hours) /\ TimesOf(hours) = {}
  /\ dirty' = (dirty \o samples) \o hours
  /\ store' \in Stores /\ store'.lastOK = t /\ Ascending'
  /\ AllUpTo(Shown', t) /\ AllKept(Shown, Shown')
  /\ Shown' \subseteq Shown \union TimesOf(samples) /\ TimesOf(samples) \subseteq Shown'
  /\ store.hour = "full" \/ Hour(TRUE) \in ToSet(hours) => store'.hour = "full"

LEMMA ApplyAdds ==
  ASSUME TypeOK, StoreInv, Apply
  PROVE  \E t \in Times : \E samples, hours : Adds(t, samples, hours)
<1>1. PICK t \in Times, sampled \in BOOLEAN, revised \in BOOLEAN,
           report \in {"none", "partial", "full"} :
        /\ t > store.lastOK
        /\ LET merges == \/ report # "none" /\ HourChanges(store.hour, report = "full")
                         \/ report = "full" /\ revised
           IN
             /\ store' = [series |-> IF sampled THEN Trim(Append(store.series, t), t)
                                     ELSE store.series,
                          lastOK |-> t,
                          hour   |-> IF merges THEN report ELSE store.hour]
             /\ dirty' = dirty \o (IF sampled THEN <<Sample(t)>> ELSE <<>>)
                               \o (IF merges THEN <<Hour(report = "full")>> ELSE <<>>)
  BY Zenon DEF Apply
<1> DEFINE merges == \/ report # "none" /\ HourChanges(store.hour, report = "full")
                     \/ report = "full" /\ revised
           samples == IF sampled THEN <<Sample(t)>> ELSE <<>>
           hours == IF merges THEN <<Hour(report = "full")>> ELSE <<>>
           series == IF sampled THEN Trim(Append(store.series, t), t) ELSE store.series
           hour == IF merges THEN report ELSE store.hour
<1>2. /\ t > store.lastOK
      /\ store' = [series |-> series, lastOK |-> t, hour |-> hour]
      /\ dirty' = (dirty \o samples) \o hours
  BY <1>1, Zenon
<1>3. /\ samples \in Seq(Records) /\ Rising(samples)
      /\ TimesOf(samples) = IF sampled THEN {t} ELSE {}
      /\ Hour(TRUE) \notin ToSet(samples)
  <2>1. CASE sampled
    BY <2>1, SingleRecord
  <2>2. CASE ~sampled
    BY <2>2, NoRecords
  <2> QED
    BY <2>1, <2>2
<1>4. /\ hours \in Seq(Records) /\ Rising(hours) /\ TimesOf(hours) = {}
      /\ Hour(TRUE) \in ToSet(hours) => merges /\ report = "full"
  <2>1. CASE merges
    <3> DEFINE full == report = "full"
    <3>1. hours = <<Hour(full)>> /\ full \in BOOLEAN
      BY <2>1
    <3>2. full => report = "full"
      OBVIOUS
    <3> HIDE DEF full, hours, merges
    <3> QED
      BY <2>1, <3>1, <3>2, SingleRecord
  <2>2. CASE ~merges
    <3>1. hours = <<>>
      BY <2>2
    <3> QED
      BY <3>1, NoRecords
  <2> QED
    BY <2>1, <2>2
<1>5. /\ hour \in {"none", "partial", "full"}
      /\ store.hour = "full" => hour = "full"
      /\ merges /\ report = "full" => hour = "full"
  <2>1. store.hour \in {"none", "partial", "full"}
    BY DEF TypeOK
  <2>2. merges => report # "none" /\ (store.hour = "full" => report = "full")
    BY DEF HourChanges
  <2> HIDE DEF merges
  <2> QED
    BY <2>1, <2>2
<1> HIDE DEF samples, hours, hour, merges
<1>6. /\ store.series \in Seq(Times) /\ store.lastOK \in Times \union {0}
      /\ AllUpTo(ToSet(store.series), store.lastOK)
      /\ \A i, j \in DOMAIN store.series :
           i < j => store.series[i] < store.series[j]
                    \/ Expired(store.series[j], ToSet(store.series))
  BY DEF TypeOK, StoreInv, Ascending, Shown
<1>7. /\ series \in Seq(Times)
      /\ AllUpTo(ToSet(series), t) /\ AllKept(Shown, ToSet(series))
      /\ ToSet(series) \subseteq Shown \union TimesOf(samples)
      /\ TimesOf(samples) \subseteq ToSet(series)
      /\ series = store.series \/ StrictlyUp(series)
  <2>1. CASE sampled
    <3>1. series = Trim(Append(store.series, t), t)
      BY <2>1
    <3> HIDE DEF series
    <3>2. /\ series \in Seq(Times) /\ StrictlyUp(series)
          /\ AllUpTo(ToSet(series), t) /\ AllKept(ToSet(store.series), ToSet(series))
          /\ ToSet(series) \subseteq ToSet(store.series) \union {t} /\ t \in ToSet(series)
      BY <1>2, <1>6, <3>1, SampleJoins
    <3> QED
      BY <1>3, <2>1, <3>2 DEF Shown
  <2>2. CASE ~sampled
    <3>1. series = store.series
      BY <2>2
    <3>2. AllUpTo(Shown, t)
      <4>1. \A u, m, k \in Int : u <= m /\ k > m => u <= k
        OBVIOUS
      <4>2. Shown \subseteq Int /\ store.lastOK \in Int /\ t \in Int
        <5>1. Shown \subseteq Times
          BY SequencesAre
        <5> QED
          BY <1>6, <5>1, Instants
      <4> QED
        BY <1>2, <1>6, <4>1, <4>2 DEF AllUpTo, Shown
    <3>3. AllKept(Shown, Shown)
      BY DEF AllKept, Kept
    <3> QED
      BY <1>3, <1>6, <2>2, <3>1, <3>2, <3>3 DEF Shown
  <2> QED
    BY <2>1, <2>2
<1> HIDE DEF series
<1>8. store'.series = series /\ store'.lastOK = t /\ store'.hour = hour /\ store' \in Stores
  BY <1>2, <1>5, <1>7 DEF Stores
<1>9. status' = status
  BY DEF Apply
<1>10. Ascending'
  <2>1. CASE StrictlyUp(series)
    BY <1>8, <2>1, UpAscends
  <2>2. CASE series = store.series
    BY <1>8, <1>9, <2>2 DEF StoreInv, Ascending
  <2> QED
    BY <1>7, <2>1, <2>2
<1>11. Shown' = ToSet(series)
  BY <1>8 DEF Shown
<1>12. TimesOf(samples) \in {{}, {t}}
  BY <1>3
<1>13. Adds(t, samples, hours)
  BY <1>2, <1>3, <1>4, <1>5, <1>7, <1>8, <1>10, <1>11, <1>12 DEF Adds
<1> QED
  BY <1>13

-----------------------------------------------------------------------------
(* One step of the engine after the other.                                 *)
LEMMA ApplyKeeps ==
  ASSUME IInv, Apply
  PROVE  IInv'
<1>1. TypeOK /\ EngineInv /\ StoreInv /\ FileInv /\ WaitInv /\ AppendInv /\ RewriteInv
  BY DEF IInv
<1>a. PICK t \in Times : \E samples, hours : Adds(t, samples, hours)
  BY <1>1, ApplyAdds
<1>2. PICK samples, hours : Adds(t, samples, hours)
  BY <1>a, Zenon
<1>3. /\ "sampler" \in alive /\ observed < MaxObservations /\ observed' = observed + 1
      /\ UNCHANGED <<engine, flush, file, saving, status, soiled>>
  BY DEF Apply
<1> DEFINE mid == dirty \o samples
<1>4. /\ t > store.lastOK
      /\ samples \in Seq(Records) /\ Rising(samples) /\ TimesOf(samples) \in {{}, {t}}
      /\ Hour(TRUE) \notin ToSet(samples)
      /\ hours \in Seq(Records) /\ Rising(hours) /\ TimesOf(hours) = {}
      /\ dirty' = mid \o hours
      /\ store' \in Stores /\ store'.lastOK = t /\ Ascending'
      /\ AllUpTo(Shown', t) /\ AllKept(Shown, Shown')
      /\ Shown' \subseteq Shown \union TimesOf(samples) /\ TimesOf(samples) \subseteq Shown'
      /\ store.hour = "full" \/ Hour(TRUE) \in ToSet(hours) => store'.hour = "full"
  BY <1>2 DEF Adds
<1> HIDE DEF mid
<1>5. /\ lines' = lines /\ open' = open /\ at' = at /\ batch' = batch /\ saving' = saving
      /\ status' = status /\ soiled' = soiled /\ phase' = phase /\ alive' = alive
      /\ final' = final
  BY <1>3 DEF engine, flush, file
<1>6. /\ mid \in Seq(Records) /\ TimesOf(mid) = TimesOf(dirty) \union TimesOf(samples)
      /\ Hour(TRUE) \in ToSet(mid) <=> Hour(TRUE) \in ToSet(dirty)
      /\ Rising(dirty) /\ AllBefore(TimesOf(dirty), TimesOf(samples)) => Rising(mid)
  <2>1. dirty \in Seq(Records)
    BY <1>1 DEF TypeOK
  <2>2. mid = dirty \o samples
    BY DEF mid
  <2> QED
    BY <1>4, <2>1, <2>2, BufferGrows
<1>7. /\ dirty' \in Seq(Records) /\ TimesOf(dirty') = TimesOf(dirty) \union TimesOf(samples)
      /\ Hour(TRUE) \in ToSet(dirty') =>
           Hour(TRUE) \in ToSet(dirty) \/ Hour(TRUE) \in ToSet(hours)
      /\ Rising(mid) => Rising(dirty')
  <2>1. /\ hours \in Seq(Records) /\ Rising(hours) /\ TimesOf(hours) = {}
        /\ dirty' = mid \o hours
    BY <1>4
  <2>2. mid \in Seq(Records) /\ AllBefore(TimesOf(mid), TimesOf(hours))
    BY <1>6, <2>1 DEF AllBefore
  <2>3. /\ dirty' \in Seq(Records) /\ TimesOf(dirty') = TimesOf(mid) \union TimesOf(hours)
        /\ Hour(TRUE) \in ToSet(dirty') =>
             Hour(TRUE) \in ToSet(mid) \/ Hour(TRUE) \in ToSet(hours)
        /\ Rising(mid) => Rising(dirty')
    BY <2>1, <2>2, BufferGrows
  <2> QED
    BY <1>6, <2>1, <2>3
<1>8. /\ Filed \subseteq Times /\ Shown \subseteq Times /\ Times \subseteq Int
      /\ TimesOf(lines) \subseteq Filed /\ TimesOf(batch) \subseteq Filed
      /\ TimesOf(dirty) \subseteq Filed
      /\ Filed' = Filed \union TimesOf(samples) /\ TimesOf(samples) \subseteq {t}
      /\ store.lastOK \in Int /\ t \in Int
  <2>1. store.lastOK \in Times \union {0}
    BY <1>1 DEF TypeOK
  <2> QED
    BY <1>1, <1>4, <1>5, <1>7, <2>1, SequencesAre, Instants DEF Filed
<1>9. ASSUME saving
      PROVE  AllBefore(Filed, {t}) /\ AllUpTo(Filed, store.lastOK) /\ AllKept(Filed, Shown)
             /\ HourShown
  <2>1. AllUpTo(Filed, store.lastOK) /\ AllKept(Filed, Shown) /\ HourShown
    BY <1>1, <1>9 DEF FileInv
  <2>2. \A u, m, k \in Int : u <= m /\ k > m => u < k
    OBVIOUS
  <2>3. \A u \in Filed : u \in Int /\ u <= store.lastOK
    BY <1>8, <2>1 DEF AllUpTo
  <2>4. AllBefore(Filed, {t})
    BY <1>4, <1>8, <2>2, <2>3 DEF AllBefore
  <2> QED
    BY <2>1, <2>4
<1>10. Shown' \subseteq Times
  BY <1>4, <1>8
<1>11. TypeOK'
  <2>1. observed' \in 0..MaxObservations
    BY <1>1, <1>3, HistoryAssumption DEF TypeOK
  <2> QED
    BY <1>1, <1>4, <1>5, <1>7, <2>1 DEF TypeOK, Stores
<1>12. EngineInv'
  <2>1. ~final
    BY <1>1, <1>3 DEF EngineInv
  <2> QED
    BY <1>1, <1>5, <2>1 DEF EngineInv
<1>13. StoreInv'
  BY <1>4 DEF StoreInv
<1>14. FileInv'
  <2> SUFFICES ASSUME saving
               PROVE  AllUpTo(Filed', t) /\ AllKept(Filed', Shown') /\ HourShown'
    BY <1>1, <1>4, <1>5 DEF FileInv
  <2>1. AllUpTo(Filed', t)
    BY <1>8, <1>9 DEF AllBefore, AllUpTo
  <2>2. AllKept(Filed', Shown')
    <3>1. AllKept(Filed, Shown')
      BY <1>4, <1>8, <1>9, <1>10, KeptFacts
    <3>2. CASE TimesOf(samples) = {}
      BY <1>8, <3>1, <3>2
    <3>3. CASE TimesOf(samples) = {t}
      BY <1>4, <1>8, <3>1, <3>3 DEF AllKept, Kept
    <3> QED
      BY <1>4, <3>2, <3>3
  <2>3. HourShown'
    BY <1>4, <1>5, <1>7, <1>9 DEF HourShown
  <2> QED
    BY <2>1, <2>2, <2>3
<1>15. WaitInv'
  <2> SUFFICES ASSUME saving
               PROVE  WaitInv'
    BY <1>5 DEF WaitInv
  <2>1. AllBefore(TimesOf(lines), TimesOf(samples)) /\ AllBefore(TimesOf(dirty), TimesOf(samples))
        /\ AllBefore(TimesOf(batch), TimesOf(samples))
    BY <1>8, <1>9 DEF AllBefore
  <2> QED
    BY <1>1, <1>4, <1>5, <1>6, <1>7, <2>1 DEF WaitInv, AllBefore, AllPlaced, Placed
<1>16. AppendInv' /\ RewriteInv'
  <2> SUFFICES ASSUME saving
               PROVE  AppendInv' /\ RewriteInv'
    BY <1>1, <1>5 DEF AppendInv, RewriteInv, EngineInv
  <2>1. AllBefore(TimesOf(batch), TimesOf(samples))
    BY <1>8, <1>9 DEF AllBefore
  <2>2. AppendInv'
    BY <1>1, <1>5, <1>7, <2>1 DEF AppendInv, AllBefore
  <2>3. RewriteInv'
    BY <1>1, <1>4, <1>5, <1>7, <2>1 DEF RewriteInv, AllBefore, AllPlaced, Placed
  <2> QED
    BY <2>2, <2>3
<1> QED
  BY <1>11, <1>12, <1>13, <1>14, <1>15, <1>16 DEF IInv

(* A flush begins: what was the buffer is the batch.                       *)
LEMMA DrainKeeps ==
  ASSUME IInv, DrainDirty
  PROVE  IInv'
<1>1. TypeOK /\ EngineInv /\ StoreInv /\ FileInv /\ WaitInv
  BY DEF IInv
<1>2. /\ at = "idle" /\ saving /\ FlushBegins /\ batch' = dirty /\ dirty' = <<>>
      /\ at' = IF dirty = <<>> THEN "compact" ELSE "append"
      /\ phase' = phase /\ alive' = alive /\ store' = store /\ lines' = lines /\ open' = open
      /\ saving' = saving /\ status' = status /\ soiled' = soiled /\ observed' = observed
  BY DEF DrainDirty, file
<1>3. TimesOf(dirty') = {} /\ ToSet(dirty') = {} /\ Rising(dirty') /\ dirty' \in Seq(Records)
      /\ TimesOf(batch) = {} /\ ToSet(batch) = {}
  <2>1. batch = <<>>
    BY <1>1, <1>2 DEF EngineInv
  <2> QED
    BY <1>2, <2>1, NoRecords
<1>4. Filed' = Filed /\ Shown' = Shown
  BY <1>2, <1>3 DEF Filed, Shown
<1>5. TypeOK'
  <2>1. final' \in BOOLEAN /\ phase' \notin {"down", "joined"}
    BY <1>1, <1>2 DEF FlushBegins, TypeOK
  <2> QED
    BY <1>1, <1>2, <1>3, <2>1 DEF TypeOK
<1>6. EngineInv'
  <2>1. final' => alive = {}
    BY <1>1, <1>2 DEF FlushBegins, EngineInv
  <2>2. at' # "idle" /\ (at' = "compact" => batch' = <<>>)
    BY <1>2
  <2>3. phase \notin {"down", "joined"}
    BY <1>1, <1>2 DEF FlushBegins, TypeOK
  <2> QED
    BY <1>1, <1>2, <2>1, <2>2, <2>3 DEF EngineInv
<1>7. StoreInv'
  BY <1>1, <1>2, <1>4 DEF StoreInv, Ascending
<1>8. FileInv'
  BY <1>1, <1>2, <1>3, <1>4 DEF FileInv, HourShown
<1>9. WaitInv'
  <2>1. AllPlaced(TimesOf(dirty'), TimesOf(lines)) /\ AllBefore(TimesOf(lines), TimesOf(dirty'))
    BY <1>3 DEF AllPlaced, AllBefore
  <2>2. ~soiled => Shown \subseteq TimesOf(lines) \union TimesOf(dirty)
    BY <1>1, <1>2 DEF WaitInv
  <2>3. dirty = <<>> => TimesOf(dirty) = {}
    BY NoRecords
  <2>4. ~soiled => Shown \subseteq TimesOf(lines)
                                     \union (IF at' = "append" THEN TimesOf(batch') ELSE {})
    BY <1>2, <2>2, <2>3
  <2> QED
    BY <1>2, <1>3, <1>4, <2>1, <2>4 DEF WaitInv
<1>10. AppendInv'
  <2>1. AllBefore(TimesOf(batch'), TimesOf(dirty'))
    BY <1>3 DEF AllBefore
  <2> QED
    BY <1>1, <1>2, <2>1 DEF AppendInv, WaitInv
<1>11. RewriteInv'
  BY <1>2 DEF RewriteInv
<1> QED
  BY <1>5, <1>6, <1>7, <1>8, <1>9, <1>10, <1>11 DEF IInv

(* What appending a piece of the batch makes of the file.                  *)
LEMMA AppendIsSafe ==
  ASSUME IInv, at = "append", NEW complete \in BOOLEAN, Writes(batch, complete)
  PROVE  /\ lines' \in Seq(Lines) /\ open' \in BOOLEAN /\ (open' => lines' # <<>>)
         /\ InPlace(lines') /\ (complete => ~open')
         /\ TimesOf(lines') \subseteq TimesOf(lines) \union TimesOf(batch)
         /\ Hour(TRUE) \in ToSet(lines') => Hour(TRUE) \in ToSet(lines) \union ToSet(batch)
         /\ complete /\ ~open => TimesOf(lines') = TimesOf(lines) \union TimesOf(batch)
         /\ DurableIn(lines, open) \subseteq DurableIn(lines', open')
<1>1. TypeOK /\ EngineInv /\ FileInv /\ AppendInv
  BY DEF IInv
<1>2. lines \in Seq(Lines) /\ batch \in Seq(Lines) /\ open \in BOOLEAN /\ (open => lines # <<>>)
  BY <1>1, SequencesAre DEF TypeOK, EngineInv
<1>3. PICK piece :
        /\ IsPiece(piece, batch)
        /\ complete => piece = batch /\ open' = FALSE
        /\ lines' = Written(lines, open, piece)
        /\ open' \in BOOLEAN
        /\ open' => open \/ piece # <<>>
        /\ piece = <<>> => (open' => open)
  BY DEF Writes
<1>4. piece \in Seq(Lines) /\ TimesOf(piece) \subseteq TimesOf(batch)
      /\ ToSet(piece) \subseteq ToSet(batch) \union {Junk} /\ (Rising(batch) => Rising(piece))
  <2>1. IsPiece(piece, batch)
    BY <1>3
  <2> QED
    BY <1>2, <2>1, PieceIs DEF IsPiece
<1>5. lines' = Written(lines, open, piece) /\ open' \in BOOLEAN
      /\ (piece = <<>> => (open' => open))
  BY <1>3
<1>6. lines' \in Seq(Lines)
  BY <1>2, <1>4, <1>5, WrittenIs
<1>7. /\ ToSet(lines') \subseteq ToSet(lines) \union ToSet(piece) \union {Junk}
      /\ TimesOf(lines') \subseteq TimesOf(lines) \union TimesOf(piece)
      /\ ~open => TimesOf(lines') = TimesOf(lines) \union TimesOf(piece)
  BY <1>2, <1>4, <1>5, WrittenHolds
<1>8. Hour(TRUE) # Junk
  BY RecordFacts
<1>9. DurableIn(lines, open) \subseteq DurableIn(lines', open')
  BY <1>2, <1>4, <1>5, DurableGrows
<1>10. InPlace(lines')
  <2>1. Rising(piece) /\ InPlace(lines)
    BY <1>1, <1>4 DEF AppendInv, FileInv
  <2>2. \A t \in TimesOf(piece) : Placed(t, TimesOf(lines))
    BY <1>1, <1>4 DEF AppendInv, AllPlaced
  <2>3. open => \A t \in TimesOf(piece), u \in TimesOf(lines) : u < t
    BY <1>1, <1>4 DEF AppendInv, AllBefore
  <2> QED
    BY <1>2, <1>4, <1>5, <2>1, <2>2, <2>3, WrittenInPlace
<1>11. open' => lines' # <<>>
  <2>1. open' => lines # <<>> \/ piece # <<>>
    BY <1>2, <1>3
  <2> QED
    BY <1>2, <1>4, <1>5, <2>1, WrittenSome
<1>12. complete => ~open' /\ piece = batch
  BY <1>3
<1> QED
  BY <1>4, <1>5, <1>6, <1>7, <1>8, <1>9, <1>10, <1>11, <1>12

(* The batch is appended, wholly or in part.                               *)
LEMMA AppendKeeps ==
  ASSUME IInv, AppendBatch
  PROVE  IInv'
<1>1. TypeOK /\ EngineInv /\ StoreInv /\ FileInv /\ WaitInv /\ AppendInv
  BY DEF IInv
<1>2. /\ at = "append" /\ at' = "compact" /\ batch' = <<>> /\ saving
      /\ phase' = phase /\ alive' = alive /\ final' = final /\ store' = store
      /\ dirty' = dirty /\ saving' = saving /\ observed' = observed
  BY <1>1 DEF AppendBatch, engine, EngineInv
<1>3. PICK complete \in BOOLEAN :
        /\ Writes(batch, complete)
        /\ status' \in {"ok", "write-failed"}
        /\ IF complete THEN soiled' = soiled ELSE soiled' = TRUE
  <2>1. batch \in Seq(Records) /\ open \in BOOLEAN
        /\ status \in {"ok", "write-failed"}
    BY <1>1, <1>2 DEF TypeOK, EngineInv
  <2>2. CASE lines' = Written(lines, open, batch) /\ open' = FALSE
             /\ status' = "ok" /\ UNCHANGED soiled
    <3>1. Writes(batch, TRUE)
      BY <2>1, <2>2, WritesPieces
    <3> QED
      BY <2>2, <3>1
  <2>3. CASE WritesPart(batch) /\ soiled' = TRUE
             /\ status' = IF status = "ok" THEN "write-failed" ELSE status
    <3>1. Writes(batch, FALSE)
      BY <2>1, <2>3, WritesPieces
    <3> QED
      BY <2>1, <2>3, <3>1
  <2> QED
    BY <2>2, <2>3 DEF AppendBatch
<1>4. /\ lines' \in Seq(Lines) /\ open' \in BOOLEAN /\ (open' => lines' # <<>>)
      /\ InPlace(lines') /\ (complete => ~open')
      /\ TimesOf(lines') \subseteq TimesOf(lines) \union TimesOf(batch)
      /\ Hour(TRUE) \in ToSet(lines') => Hour(TRUE) \in ToSet(lines) \union ToSet(batch)
      /\ complete /\ ~open => TimesOf(lines') = TimesOf(lines) \union TimesOf(batch)
  BY <1>2, <1>3, AppendIsSafe
<1>5. TimesOf(batch') = {} /\ ToSet(batch') = {} /\ batch' \in Seq(Records)
  BY <1>2, NoRecords
<1>6. Filed' \subseteq Filed /\ Shown' = Shown
  BY <1>2, <1>4, <1>5 DEF Filed, Shown
<1>7. TypeOK'
  <2>1. soiled' \in BOOLEAN /\ status' \in {"ok", "load-failed", "write-failed"}
        /\ lines' \in Seq(Records \union {Junk})
    BY <1>1, <1>3, <1>4 DEF TypeOK, Lines
  <2> QED
    BY <1>1, <1>2, <1>4, <1>5, <2>1 DEF TypeOK
<1>8. EngineInv'
  <2>1. saving' /\ ~soiled' => ~open'
    BY <1>3, <1>4
  <2>2. status' # "load-failed"
    BY <1>3
  <2> QED
    BY <1>1, <1>2, <1>4, <2>1, <2>2 DEF EngineInv
<1>9. StoreInv'
  <2>1. StrictlyUp(store'.series)
    BY <1>1, <1>2, SeriesUp DEF StoreInv, EngineInv
  <2> QED
    BY <1>1, <1>2, <1>6, <2>1, UpAscends DEF StoreInv
<1>10. FileInv'
  <2>1. AllUpTo(Filed', store.lastOK) /\ AllKept(Filed', Shown)
    BY <1>1, <1>2, <1>6 DEF FileInv, AllUpTo, AllKept
  <2>2. HourShown'
    BY <1>1, <1>2, <1>4, <1>5 DEF FileInv, HourShown
  <2> QED
    BY <1>2, <1>4, <1>6, <2>1, <2>2 DEF FileInv
<1>11. WaitInv'
  <2>1. Rising(dirty) /\ AllBefore(TimesOf(lines), TimesOf(dirty))
        /\ AllBefore(TimesOf(batch), TimesOf(dirty))
    BY <1>1, <1>2 DEF WaitInv, AppendInv
  <2>2. AllBefore(TimesOf(lines'), TimesOf(dirty))
    BY <1>4, <2>1 DEF AllBefore
  <2>3. AllPlaced(TimesOf(dirty), TimesOf(lines'))
    BY <2>2 DEF AllPlaced, Placed, AllBefore
  <2>4. ~soiled' => Shown \subseteq TimesOf(lines') \union TimesOf(dirty)
    <3> SUFFICES ASSUME ~soiled'
                 PROVE  Shown \subseteq TimesOf(lines') \union TimesOf(dirty)
      OBVIOUS
    <3>1. complete /\ ~soiled
      BY <1>3
    <3>2. ~open
      BY <1>1, <1>2, <3>1 DEF EngineInv
    <3>3. TimesOf(lines') = TimesOf(lines) \union TimesOf(batch)
      BY <1>4, <3>1, <3>2
    <3> QED
      BY <1>1, <1>2, <3>1, <3>3 DEF WaitInv
  <2> QED
    BY <1>2, <1>6, <2>1, <2>2, <2>3, <2>4 DEF WaitInv
<1>12. AppendInv' /\ RewriteInv'
  BY <1>2 DEF AppendInv, RewriteInv
<1> QED
  BY <1>7, <1>8, <1>9, <1>10, <1>11, <1>12 DEF IInv

(* The snapshot of compactIfLarge is taken under the lock of the store:    *)
(* the buffer may hold a sample that is in the snapshot, and one that      *)
(* retention has dropped since.                                            *)
LEMMA CompactKeeps ==
  ASSUME IInv, Compact
  PROVE  IInv'
<1>1. TypeOK /\ EngineInv /\ StoreInv /\ FileInv /\ WaitInv
  BY DEF IInv
<1>2. /\ at = "compact" /\ saving /\ batch = <<>>
      /\ \/ at' = "rewrite" /\ batch' = SnapshotRecords(store)
         \/ at' = "idle" /\ batch' = <<>>
      /\ phase' = phase /\ alive' = alive /\ final' = final /\ store' = store
      /\ dirty' = dirty /\ lines' = lines /\ open' = open /\ saving' = saving
      /\ status' = status /\ soiled' = soiled /\ observed' = observed
  BY <1>1 DEF Compact, engine, file, EngineInv
<1>3. store \in Stores /\ StrictlyUp(store.series)
  BY <1>1, <1>2, SeriesUp DEF StoreInv, EngineInv
<1>4. \/ /\ at' = "rewrite" /\ batch' \in Seq(Records) /\ TimesOf(batch') = Shown /\ Rising(batch')
         /\ Hour(TRUE) \in ToSet(batch') <=> store.hour = "full"
      \/ /\ at' = "idle" /\ batch' = <<>> /\ batch' \in Seq(Records) /\ TimesOf(batch') = {}
         /\ Hour(TRUE) \notin ToSet(batch')
  BY <1>2, <1>3, SnapshotIs, NoRecords DEF Shown
<1>5. Shown' = Shown /\ TimesOf(batch') \subseteq Shown
      /\ (Hour(TRUE) \in ToSet(batch') => store.hour = "full") /\ batch' \in Seq(Records)
      /\ at' \in {"idle", "rewrite"} /\ (at' = "idle" => batch' = <<>>)
  BY <1>2, <1>4 DEF Shown
<1>6. TypeOK'
  BY <1>1, <1>2, <1>5 DEF TypeOK
<1>7. EngineInv'
  BY <1>1, <1>2, <1>5 DEF EngineInv
<1>8. StoreInv'
  BY <1>1, <1>2, <1>5 DEF StoreInv, Ascending
<1>9. FileInv'
  <2>1. AllUpTo(Filed, store.lastOK) /\ AllKept(Filed, Shown) /\ HourShown /\ InPlace(lines)
        /\ AllUpTo(Shown, store.lastOK)
    BY <1>1, <1>2 DEF FileInv, StoreInv
  <2>2. Filed' \subseteq Filed \union Shown
    BY <1>2, <1>5 DEF Filed
  <2>3. AllUpTo(Filed', store.lastOK) /\ AllKept(Filed', Shown)
    BY <2>1, <2>2 DEF AllUpTo, AllKept, Kept
  <2>4. HourShown'
    BY <1>2, <1>5, <2>1 DEF HourShown
  <2> QED
    BY <1>2, <1>5, <2>1, <2>3, <2>4 DEF FileInv
<1>10. WaitInv'
  BY <1>1, <1>2, <1>5 DEF WaitInv
<1>11. AppendInv'
  BY <1>5 DEF AppendInv
<1>12. RewriteInv'
  <2> SUFFICES ASSUME at' = "rewrite"
               PROVE  RewriteInv'
    BY DEF RewriteInv
  <2>1. /\ TimesOf(batch') = Shown /\ Rising(batch')
        /\ Hour(TRUE) \in ToSet(batch') <=> store.hour = "full"
    BY <1>4
  <2>2. AllKept(TimesOf(lines), Shown) /\ AllKept(TimesOf(dirty), Shown) /\ HourShown
    BY <1>1, <1>2 DEF FileInv, Filed, AllKept
  <2>3. AllPlaced(TimesOf(dirty), Shown)
    BY <2>2 DEF AllPlaced, Placed, AllKept
  <2>4. Hour(TRUE) \in ToSet(lines) => Hour(TRUE) \in ToSet(batch')
    BY <2>1, <2>2 DEF HourShown
  <2> QED
    BY <1>2, <1>5, <2>1, <2>2, <2>3, <2>4 DEF RewriteInv
<1> QED
  BY <1>6, <1>7, <1>8, <1>9, <1>10, <1>11, <1>12 DEF IInv

(* The snapshot replaces the file, or does not.                            *)
LEMMA RewriteKeeps ==
  ASSUME IInv, Rewrite
  PROVE  IInv'
<1>1. TypeOK /\ EngineInv /\ StoreInv /\ FileInv /\ WaitInv /\ RewriteInv
  BY DEF IInv
<1>2. /\ at = "rewrite" /\ at' = "idle" /\ saving /\ batch' = <<>>
      /\ \/ lines' = batch /\ open' = FALSE
         \/ lines' = lines /\ open' = open
      /\ phase' = phase /\ alive' = alive /\ final' = final /\ store' = store
      /\ dirty' = dirty /\ saving' = saving
      /\ status' = status /\ soiled' = soiled /\ observed' = observed
  BY <1>1 DEF Rewrite, Rewritten, engine, file, EngineInv
<1>3. TimesOf(batch') = {} /\ ToSet(batch') = {} /\ batch' \in Seq(Records)
  BY <1>2, NoRecords
<1>4. Rising(batch) /\ AllPlaced(TimesOf(dirty), TimesOf(batch))
      /\ Shown \subseteq TimesOf(batch) \union TimesOf(dirty)
  BY <1>1, <1>2 DEF RewriteInv
<1>5. batch \in Seq(Lines) /\ InPlace(batch) /\ lines \in Seq(Lines) /\ InPlace(lines)
  BY <1>1, <1>4, SequencesAre, RisingInPlace DEF FileInv
<1>6. Shown' = Shown /\ lines' \in Seq(Lines) /\ InPlace(lines')
      /\ TimesOf(lines') \subseteq TimesOf(lines) \union TimesOf(batch)
      /\ ToSet(lines') \subseteq ToSet(lines) \union ToSet(batch)
      /\ open' \in BOOLEAN /\ (open' => open /\ lines' = lines)
  <2>1. Shown' = Shown /\ open \in BOOLEAN
    BY <1>1, <1>2 DEF Shown, TypeOK
  <2>2. CASE lines' = batch /\ open' = FALSE
    BY <1>5, <2>1, <2>2
  <2>3. CASE lines' = lines /\ open' = open
    BY <1>5, <2>1, <2>3
  <2> QED
    BY <1>2, <2>2, <2>3
<1>7. TypeOK'
  <2>1. lines' \in Seq(Records \union {Junk})
    BY <1>6 DEF Lines
  <2> QED
    BY <1>1, <1>2, <1>3, <1>6, <2>1 DEF TypeOK
<1>8. EngineInv'
  BY <1>1, <1>2, <1>6 DEF EngineInv
<1>9. StoreInv'
  BY <1>1, <1>2, <1>6 DEF StoreInv, Ascending
<1>10. FileInv'
  <2>1. Filed' \subseteq Filed
    BY <1>2, <1>3, <1>6 DEF Filed
  <2>2. AllUpTo(Filed', store.lastOK) /\ AllKept(Filed', Shown)
    BY <1>1, <1>2, <2>1 DEF FileInv, AllUpTo, AllKept
  <2>3. HourShown'
    BY <1>1, <1>2, <1>3, <1>6 DEF FileInv, HourShown
  <2> QED
    BY <1>2, <1>6, <2>2, <2>3 DEF FileInv
<1>11. WaitInv'
  <2>1. /\ Rising(dirty) /\ AllPlaced(TimesOf(dirty), TimesOf(lines))
        /\ open => AllBefore(TimesOf(lines), TimesOf(dirty))
        /\ ~soiled => Shown \subseteq TimesOf(lines) \union TimesOf(dirty)
    BY <1>1, <1>2 DEF WaitInv
  <2>2. CASE lines' = batch /\ open' = FALSE
    BY <1>2, <1>4, <1>6, <2>1, <2>2 DEF WaitInv
  <2>3. CASE lines' = lines /\ open' = open
    BY <1>2, <1>6, <2>1, <2>3 DEF WaitInv
  <2> QED
    BY <1>2, <2>2, <2>3
<1>12. AppendInv' /\ RewriteInv'
  BY <1>2 DEF AppendInv, RewriteInv
<1> QED
  BY <1>7, <1>8, <1>9, <1>10, <1>11, <1>12 DEF IInv

(* What a complete restore shows: the file, but for what retention drops.  *)
LEMMA RestoredIs ==
  ASSUME NEW ls \in Seq(Lines), InPlace(ls), NEW s, s = TrimRetention(Loaded(ls))
  PROVE  /\ s \in Stores /\ StrictlyUp(s.series) /\ AllUpTo(ToSet(s.series), s.lastOK)
         /\ ToSet(s.series) \subseteq TimesOf(ls) /\ AllKept(TimesOf(ls), ToSet(s.series))
         /\ Hour(TRUE) \in ToSet(ls) => s.hour = "full"
<1> DEFINE old == Loaded(ls)
           series == old.series
<1>1. /\ old \in Stores /\ ToSet(series) = TimesOf(ls)
      /\ \A t \in TimesOf(ls) : t <= old.lastOK
      /\ Hour(TRUE) \in ToSet(ls) => old.hour = "full"
      /\ NearlyUp(series)
  BY LoadedIs
<1>2. s = TrimRetention(old)
  OBVIOUS
<1> HIDE DEF old
<1>3. series \in Seq(Times) /\ old.lastOK \in Times \union {0}
  BY <1>1 DEF Stores
<1>4. CASE series = <<>>
  <2>1. s = old
    BY <1>2, <1>4 DEF TrimRetention
  <2>2. ToSet(series) = {} /\ StrictlyUp(series)
    BY <1>4, NoRecords DEF StrictlyUp
  <2> QED
    BY <1>1, <2>1, <2>2 DEF AllUpTo, AllKept
<1>5. CASE series # <<>>
  <2> DEFINE newest == Newest(series)
             new == Trim(series, newest)
  <2>1. s = [old EXCEPT !.series = new]
    BY <1>2, <1>5 DEF TrimRetention
  <2>2. newest \in ToSet(series) /\ \A t \in ToSet(series) : t <= newest
    <3>1. old.lastOK \in Nat
      <4>1. Times \subseteq Nat /\ 0 \in Nat
        BY HistoryAssumption
      <4> QED
        BY <1>3, <4>1
    <3> QED
      BY <1>1, <1>3, <1>5, <3>1, NewestIs
  <2>3. ToSet(series) \subseteq Times /\ Times \subseteq Int /\ History \in Int /\ newest \in Int
    <3>1. ToSet(series) \subseteq Times
      BY <1>3 DEF ToSet
    <3> QED
      BY <2>2, <3>1, Instants
  <2> HIDE DEF newest
  <2>4. new \in Seq(Times) /\ ToSet(new) = {t \in ToSet(series) : t >= newest - History}
    BY <1>3, <2>3, TrimIs
  <2>5. StrictlyUp(new)
    <3>1. ASSUME NEW i \in DOMAIN series, NEW j \in DOMAIN series, i < j,
                 series[j] >= newest - History
          PROVE  series[i] < series[j]
      <4>1. series[j] \in ToSet(series) /\ series[j] \in Int
        BY <2>3 DEF ToSet
      <4>2. ~Expired(series[j], ToSet(series))
        <5>1. \A u \in ToSet(series) : ~(series[j] < u - History)
          BY <2>2, <2>3, <3>1, <4>1
        <5> QED
          BY <5>1 DEF Expired
      <4> QED
        BY <1>1, <3>1, <4>2 DEF NearlyUp
    <3> QED
      BY <1>3, <2>3, <3>1, TrimIs
  <2> HIDE DEF new
  <2>6. s \in Stores /\ s.series = new /\ s.lastOK = old.lastOK /\ s.hour = old.hour
    BY <1>1, <2>1, <2>4 DEF Stores
  <2>7. AllKept(TimesOf(ls), ToSet(new))
    <3>1. newest \in ToSet(new)
      <4>1. newest >= newest - History
        BY <2>3, Instants
      <4> QED
        BY <2>2, <2>4, <4>1
    <3>2. \A t \in ToSet(series) : t >= newest - History \/ t < newest - History
      <4>1. \A t, m \in Int : t >= m \/ t < m
        OBVIOUS
      <4>2. newest - History \in Int
        BY <2>3
      <4>3. ToSet(series) \subseteq Int
        BY <2>3, Zenon
      <4> QED
        BY <4>1, <4>2, <4>3, Zenon
    <3> QED
      BY <1>1, <2>4, <3>1, <3>2 DEF AllKept, Kept, Expired
  <2> QED
    BY <1>1, <2>4, <2>5, <2>6, <2>7 DEF AllUpTo
<1> QED
  BY <1>4, <1>5

(* What an engine starts from: a store that shows the file, unless it will *)
(* not write to it.                                                        *)
StartsFrom ==
  /\ store' \in Stores /\ AllUpTo(Shown', store'.lastOK) /\ Ascending'
  /\ lines' \in Seq(Lines) /\ InPlace(lines')
  /\ open' \in BOOLEAN /\ (open' => lines' # <<>>)
  /\ saving' \in BOOLEAN /\ status' \in {"ok", "load-failed", "write-failed"}
  /\ saving' =>
       /\ status' # "load-failed"
       /\ Shown' \subseteq TimesOf(lines') /\ AllKept(TimesOf(lines'), Shown')
       /\ AllUpTo(TimesOf(lines'), store'.lastOK)
       /\ Hour(TRUE) \in ToSet(lines') => store'.hour = "full"
  /\ \/ lines' = lines /\ open' = open
     \/ /\ open' = FALSE /\ AllKept(TimesOf(lines), TimesOf(lines'))
        /\ Hour(TRUE) \in ToSet(lines) => Hour(TRUE) \in ToSet(lines')

(* All outcomes of restorePersisted.                                       *)
LEMMA StartIs ==
  ASSUME IInv, Start
  PROVE  StartsFrom
<1>1. TypeOK /\ EngineInv /\ FileInv
  BY DEF IInv
<1>2. lines \in Seq(Lines) /\ InPlace(lines) /\ open \in BOOLEAN /\ (open => lines # <<>>)
      /\ TimesOf(lines) \subseteq Times
  BY <1>1, SequencesAre DEF TypeOK, EngineInv, FileInv
<1>3. CASE LoadFails
  <2>1. PICK n \in 0..Len(lines) : store' = Loaded(SubSeq(lines, 1, n))
    BY <1>3 DEF LoadFails
  <2>2. saving' = FALSE /\ status' = "load-failed" /\ lines' = lines /\ open' = open
    BY <1>3 DEF LoadFails, file
  <2> DEFINE some == SubSeq(lines, 1, n)
  <2>3. some \in Seq(Lines) /\ InPlace(some) /\ store' = Loaded(some)
    BY <1>2, <2>1, PrefixInPlace
  <2> HIDE DEF some
  <2>4. /\ store' \in Stores /\ ToSet(store'.series) = TimesOf(some)
        /\ \A t \in TimesOf(some) : t <= store'.lastOK
        /\ NearlyUp(store'.series)
    BY <2>3, LoadedIs
  <2>5. Ascending'
    BY <2>2, <2>4 DEF Ascending, NearlyUp
  <2>6. AllUpTo(Shown', store'.lastOK)
    BY <2>4 DEF AllUpTo, Shown
  <2> QED
    BY <1>2, <2>2, <2>4, <2>5, <2>6 DEF StartsFrom
<1>4. CASE NothingToRestore
  <2>1. /\ Decodable(lines) = {} /\ store' = Empty /\ saving' = TRUE /\ status' = "ok"
        /\ lines' = lines /\ open' = open
    BY <1>4 DEF NothingToRestore, file
  <2>2. store' \in Stores /\ store'.series = <<>>
    BY <2>1, EmptyStore
  <2>3. Shown' = {} /\ StrictlyUp(store'.series)
    BY <2>2, NoRecords DEF Shown, StrictlyUp
  <2>4. TimesOf(lines) = {} /\ Hour(TRUE) \notin ToSet(lines)
    <3>1. \A i \in DOMAIN lines : lines[i].kind = "junk"
      BY <2>1 DEF Decodable
    <3>2. Hour(TRUE).kind # "junk"
      BY RecordFacts
    <3> QED
      BY <3>1, <3>2 DEF TimesOf, SamplesIn, ToSet
  <2>5. Ascending'
    BY <2>3, UpAscends
  <2> QED
    BY <1>2, <2>1, <2>2, <2>3, <2>4, <2>5 DEF StartsFrom, AllUpTo, AllKept
<1>5. CASE Restores
  <2>1. /\ store' \in Stores /\ StrictlyUp(store'.series)
        /\ AllUpTo(ToSet(store'.series), store'.lastOK)
        /\ ToSet(store'.series) \subseteq TimesOf(lines)
        /\ AllKept(TimesOf(lines), ToSet(store'.series))
        /\ Hour(TRUE) \in ToSet(lines) => store'.hour = "full"
    <3>1. store' = TrimRetention(Loaded(lines))
      BY <1>5 DEF Restores
    <3> QED
      BY <1>2, <3>1, RestoredIs
  <2>2. Ascending'
    BY <2>1, UpAscends
  <2>3. CASE Rewritten(SnapshotRecords(store')) /\ saving' = TRUE /\ status' = "ok"
    <3>1. /\ lines' \in Seq(Records) /\ TimesOf(lines') = Shown' /\ Rising(lines')
          /\ Hour(TRUE) \in ToSet(lines') <=> store'.hour = "full"
      BY <2>1, <2>3, SnapshotIs DEF Rewritten, Shown
    <3>2. lines' \in Seq(Lines) /\ InPlace(lines')
      BY <3>1, RecordFacts, RisingInPlace
    <3>3. open' = FALSE /\ AllKept(Shown', Shown')
      BY <2>3 DEF Rewritten, AllKept, Kept
    <3>4. AllUpTo(Shown', store'.lastOK) /\ AllKept(TimesOf(lines), Shown')
      BY <2>1 DEF Shown
    <3> QED
      BY <2>1, <2>2, <2>3, <3>1, <3>2, <3>3, <3>4 DEF StartsFrom
  <2>4. CASE saving' = FALSE /\ status' = "write-failed" /\ UNCHANGED file
    <3>1. lines' = lines /\ open' = open
      BY <2>4 DEF file
    <3> QED
      BY <1>2, <2>1, <2>2, <2>4, <3>1 DEF StartsFrom, Shown
  <2> QED
    BY <1>5, <2>3, <2>4 DEF Restores
<1> QED
  BY <1>3, <1>4, <1>5 DEF Start

LEMMA StartKeeps ==
  ASSUME IInv, Start
  PROVE  IInv'
<1>1. TypeOK /\ EngineInv
  BY DEF IInv
<1>2. /\ phase \in {"down", "joined"} /\ phase' = "running" /\ alive' = Loops /\ final' = FALSE
      /\ soiled' = open' /\ dirty' = <<>> /\ at' = at /\ batch' = batch /\ observed' = observed
      /\ at = "idle" /\ batch = <<>>
  BY <1>1 DEF Start, flush, TypeOK, EngineInv
<1>3. /\ store' \in Stores /\ AllUpTo(Shown', store'.lastOK) /\ Ascending'
      /\ lines' \in Seq(Lines) /\ InPlace(lines')
      /\ open' \in BOOLEAN /\ (open' => lines' # <<>>)
      /\ saving' \in BOOLEAN /\ status' \in {"ok", "load-failed", "write-failed"}
      /\ saving' =>
           /\ status' # "load-failed"
           /\ Shown' \subseteq TimesOf(lines') /\ AllKept(TimesOf(lines'), Shown')
           /\ AllUpTo(TimesOf(lines'), store'.lastOK)
           /\ Hour(TRUE) \in ToSet(lines') => store'.hour = "full"
  BY StartIs DEF StartsFrom
<1>4. /\ TimesOf(batch') = {} /\ ToSet(batch') = {} /\ TimesOf(dirty') = {}
      /\ ToSet(dirty') = {} /\ Rising(dirty') /\ dirty' \in Seq(Records)
  BY <1>2, NoRecords
<1>5. Filed' = TimesOf(lines')
  BY <1>4 DEF Filed
<1>6. TypeOK'
  <2>1. store'.series \in Seq(Times) /\ store'.lastOK \in Times \union {0}
        /\ store'.hour \in {"none", "partial", "full"}
    BY <1>3 DEF Stores
  <2>2. lines' \in Seq(Records \union {Junk})
    BY <1>3 DEF Lines
  <2>3. open' \in BOOLEAN /\ saving' \in BOOLEAN /\ status' \in {"ok", "load-failed", "write-failed"}
    BY <1>3
  <2> QED
    BY <1>1, <1>2, <1>4, <2>1, <2>2, <2>3 DEF TypeOK
<1>7. EngineInv'
  BY <1>2, <1>3 DEF EngineInv
<1>8. StoreInv'
  BY <1>3 DEF StoreInv
<1>9. FileInv'
  BY <1>3, <1>4, <1>5 DEF FileInv, HourShown
<1>10. WaitInv'
  BY <1>2, <1>3, <1>4 DEF WaitInv, AllPlaced, AllBefore
<1>11. AppendInv' /\ RewriteInv'
  BY <1>2 DEF AppendInv, RewriteInv
<1> QED
  BY <1>6, <1>7, <1>8, <1>9, <1>10, <1>11 DEF IInv

(* A step that leaves the store, the file and the flush alone.             *)
LEMMA OthersKeep ==
  ASSUME IInv, UNCHANGED <<final, store, dirty, flush, file, saving, status, soiled, observed>>,
         phase' \in {"down", "running", "stopping", "joined"}, alive' \subseteq alive,
         phase' \in {"down", "joined"} => alive' = {} /\ at = "idle",
         phase' = "joined" /\ saving => final
  PROVE  IInv'
<1>1. /\ final' = final /\ store' = store /\ dirty' = dirty /\ at' = at /\ batch' = batch
      /\ lines' = lines /\ open' = open /\ saving' = saving /\ status' = status
      /\ soiled' = soiled /\ observed' = observed
  BY DEF flush, file
<1>2. Shown' = Shown /\ Filed' = Filed
  BY <1>1 DEF Shown, Filed
<1>3. TypeOK'
  BY <1>1 DEF IInv, TypeOK
<1>4. EngineInv'
  <2>1. EngineInv
    BY DEF IInv
  <2>2. final' => alive' = {} /\ dirty' = <<>>
    BY <1>1, <2>1 DEF EngineInv
  <2> QED
    BY <1>1, <2>1, <2>2 DEF EngineInv
<1>5. StoreInv' /\ FileInv'
  <2>1. StoreInv /\ FileInv
    BY DEF IInv
  <2>2. StoreInv'
    BY <1>1, <1>2, <2>1 DEF StoreInv, Ascending
  <2>3. HourShown' <=> HourShown
    BY <1>1, Zenon DEF HourShown
  <2>4. FileInv'
    BY <1>1, <1>2, <2>1, <2>3 DEF FileInv
  <2> QED
    BY <2>2, <2>4
<1>6. WaitInv' /\ AppendInv' /\ RewriteInv'
  <2>1. WaitInv /\ AppendInv /\ RewriteInv
    BY DEF IInv
  <2>2. WaitInv'
    BY <1>1, <1>2, <2>1 DEF WaitInv
  <2>3. AppendInv'
    BY <1>1, <2>1, Zenon DEF AppendInv
  <2>4. RewriteInv'
    BY <1>1, <1>2, <2>1, Zenon DEF RewriteInv
  <2> QED
    BY <2>2, <2>3, <2>4
<1> QED
  BY <1>3, <1>4, <1>5, <1>6 DEF IInv

(* The process dies with a part of the batch, or the snapshot, in the      *)
(* file.                                                                   *)
LEMMA CrashKeeps ==
  ASSUME IInv, Crash
  PROVE  IInv'
<1>1. TypeOK /\ EngineInv /\ StoreInv /\ FileInv /\ RewriteInv
  BY DEF IInv
<1>2. /\ phase' = "down" /\ alive' = {} /\ final' = FALSE /\ store' = Empty /\ dirty' = <<>>
      /\ at' = "idle" /\ batch' = <<>> /\ saving' = FALSE
      /\ status' = status /\ soiled' = soiled /\ observed' = observed
  BY DEF Crash
<1>3. lines' \in Seq(Lines) /\ InPlace(lines') /\ open' \in BOOLEAN /\ (open' => lines' # <<>>)
  <2>1. CASE UNCHANGED file
    BY <1>1, <2>1, SequencesAre DEF file, FileInv, TypeOK, EngineInv
  <2>2. CASE at = "append" /\ WritesPart(batch)
    <3>1. Writes(batch, FALSE)
      BY <1>1, <2>2, WritesPieces DEF TypeOK
    <3> QED
      BY <2>2, <3>1, AppendIsSafe
  <2>3. CASE at = "rewrite" /\ Rewritten(batch)
    <3>1. batch \in Seq(Lines) /\ Rising(batch)
      BY <1>1, <2>3, SequencesAre DEF RewriteInv
    <3>2. lines' = batch /\ open' = FALSE
      BY <2>3 DEF Rewritten
    <3> QED
      BY <3>1, <3>2, RisingInPlace
  <2> QED
    BY <2>1, <2>2, <2>3 DEF Crash
<1>4. store' \in Stores /\ store'.series = <<>>
  BY <1>2, EmptyStore
<1>5. Shown' = {} /\ StrictlyUp(store'.series)
  BY <1>4, NoRecords DEF Shown, StrictlyUp
<1>6. TypeOK'
  <2>1. store'.series \in Seq(Times) /\ store'.lastOK \in Times \union {0}
        /\ store'.hour \in {"none", "partial", "full"}
    BY <1>4 DEF Stores
  <2>2. lines' \in Seq(Records \union {Junk})
    BY <1>3 DEF Lines
  <2> QED
    BY <1>1, <1>2, <1>3, <2>1, <2>2, NoRecords DEF TypeOK
<1>7. EngineInv'
  BY <1>2, <1>3 DEF EngineInv
<1>8. StoreInv'
  BY <1>4, <1>5, UpAscends DEF StoreInv, AllUpTo
<1>9. FileInv' /\ WaitInv' /\ AppendInv' /\ RewriteInv'
  BY <1>2, <1>3 DEF FileInv, WaitInv, AppendInv, RewriteInv
<1> QED
  BY <1>6, <1>7, <1>8, <1>9 DEF IInv

LEMMA StepKeeps ==
  ASSUME IInv, [Next]_vars
  PROVE  IInv'
<1>1. CASE Stop
  <2>1. phase' = "stopping" /\ alive' = alive
        /\ UNCHANGED <<final, store, dirty, flush, file, saving, status, soiled, observed>>
    BY <1>1 DEF Stop
  <2> QED
    BY <2>1, OthersKeep
<1>2. ASSUME NEW l \in Loops, LoopReturns(l)
      PROVE  IInv'
  <2>1. phase = "stopping" /\ phase' = phase /\ alive' \subseteq alive
        /\ UNCHANGED <<final, store, dirty, flush, file, saving, status, soiled, observed>>
    BY <1>2 DEF LoopReturns
  <2> QED
    BY <2>1, OthersKeep
<1>3. CASE Joins
  <2>1. phase' = "joined" /\ alive = {} /\ alive' = alive /\ at = "idle" /\ (saving => final)
        /\ UNCHANGED <<final, store, dirty, flush, file, saving, status, soiled, observed>>
    BY <1>3 DEF Joins
  <2> QED
    BY <2>1, OthersKeep
<1>4. CASE UNCHANGED vars
  <2>1. phase' = phase /\ alive' = alive
        /\ UNCHANGED <<final, store, dirty, flush, file, saving, status, soiled, observed>>
    BY <1>4 DEF vars, engine
  <2>2. /\ phase \in {"down", "running", "stopping", "joined"}
        /\ phase \in {"down", "joined"} => alive = {} /\ at = "idle"
        /\ phase = "joined" /\ saving => final
    BY DEF IInv, TypeOK, EngineInv
  <2> QED
    BY <2>1, <2>2, OthersKeep
<1> QED
  BY <1>1, <1>2, <1>3, <1>4, ApplyKeeps, DrainKeeps, AppendKeeps, CompactKeeps, RewriteKeeps,
     StartKeeps, CrashKeeps DEF Next

-----------------------------------------------------------------------------
(* The theorems.                                                           *)
(* The invariant holds of every behaviour.                                 *)
THEOREM Invariance == Spec => []IInv
<1>1. IInv /\ [Next]_vars => IInv'
  BY StepKeeps
<1> QED
  BY InitHolds, <1>1, PTL DEF Spec

(* Every variable keeps its type, and an engine that is not running has no *)
(* loop and no flush under way.                                            *)
THEOREM TypeCorrect == Spec => []TypeOK
<1>1. IInv => TypeOK
  BY DEF IInv
<1> QED
  BY Invariance, <1>1, PTL

(* The series the fits of the predictor rely on ascends, also when it was  *)
(* restored from a file with repeated, torn and lost lines; only a load    *)
(* that failed half-way leaves what retention would have dropped out of    *)
(* place.                                                                  *)
THEOREM SeriesAscend == Spec => []Ascending
<1>1. IInv => Ascending
  BY DEF IInv, StoreInv
<1> QED
  BY Invariance, <1>1, PTL

LEMMA SamplesOfUnion ==
  ASSUME NEW R, NEW S
  PROVE  SampleTimes(R \union S) = SampleTimes(R) \union SampleTimes(S)
BY DEF SampleTimes

LEMMA ShownIsSomewhere ==
  ASSUME IInv, saving, ~soiled
  PROVE  Shown \subseteq SampleTimes(Durable) \union TimesOf(dirty)
                           \union (IF at = "append" THEN TimesOf(batch) ELSE {})
<1>1. lines \in Seq(Lines) /\ open \in BOOLEAN /\ ~open
  BY SequencesAre DEF IInv, EngineInv, TypeOK
<1>2. Durable = DurableIn(lines, open)
  BY DEF Durable, DurableIn
<1>3. TimesOf(lines) \subseteq SampleTimes(Durable)
  BY <1>1, <1>2, DurableHolds
<1> QED
  BY <1>3 DEF IInv, WaitInv

(* While no append has failed, every sample the engine shows is in the     *)
(* file, in Store.dirty or in the batch that is being appended.            *)
THEOREM NothingIsForgotten == Spec => []NothingForgotten
<1>1. ASSUME IInv
      PROVE  NothingForgotten
  <2> SUFFICES ASSUME saving, ~soiled
               PROVE  Shown \subseteq SampleTimes(Durable \union ToSet(dirty) \union InFlight)
    BY DEF NothingForgotten, Shown
  <2>1. SampleTimes(ToSet(dirty)) = TimesOf(dirty) /\ SampleTimes(ToSet(batch)) = TimesOf(batch)
    BY <1>1, SequencesAre, TimesAre DEF IInv
  <2>2. SampleTimes(InFlight) = IF at = "append" THEN TimesOf(batch) ELSE {}
    <3>1. SampleTimes({}) = {}
      BY DEF SampleTimes
    <3> QED
      BY <2>1, <3>1 DEF InFlight
  <2>3. SampleTimes(Durable \union ToSet(dirty) \union InFlight)
          = SampleTimes(Durable) \union TimesOf(dirty) \union SampleTimes(InFlight)
    <3>1. SampleTimes(Durable \union ToSet(dirty) \union InFlight)
            = SampleTimes(Durable \union ToSet(dirty)) \union SampleTimes(InFlight)
      BY SamplesOfUnion, Zenon
    <3>2. SampleTimes(Durable \union ToSet(dirty))
            = SampleTimes(Durable) \union SampleTimes(ToSet(dirty))
      BY SamplesOfUnion, Zenon
    <3> QED
      BY <2>1, <3>1, <3>2, Zenon
  <2> QED
    BY <1>1, <2>2, <2>3, ShownIsSomewhere
<1> QED
  BY Invariance, <1>1, PTL

(* An engine that has joined has saved every sample it shows: its loops    *)
(* return before finalFlush drains Store.dirty.                            *)
THEOREM StopSavesAll == Spec => []CleanStopSavesAll
<1>1. ASSUME IInv
      PROVE  CleanStopSavesAll
  <2> SUFFICES ASSUME phase = "joined", saving, ~soiled
               PROVE  Shown \subseteq SampleTimes(Durable)
    BY DEF CleanStopSavesAll, Shown
  <2>1. at = "idle" /\ dirty = <<>>
    BY <1>1 DEF IInv, TypeOK, EngineInv
  <2>2. TimesOf(dirty) = {}
    BY <2>1, NoRecords
  <2> QED
    BY <1>1, <2>1, <2>2, ShownIsSomewhere
<1> QED
  BY Invariance, <1>1, PTL

(* What DurableHistoryKept asks of a step.                                 *)
KeepsDurable ==
  LET kept == SampleTimes(Durable') IN
    /\ \A t \in SampleTimes(Durable) : t \in kept \/ Expired(t, kept)
    /\ Hour(TRUE) \in Durable => Hour(TRUE) \in Durable'

LEMMA StepKeepsDurable ==
  ASSUME IInv, [Next]_vars
  PROVE  KeepsDurable
<1>1. TypeOK /\ EngineInv /\ RewriteInv
  BY DEF IInv
<1>2. Durable = DurableIn(lines, open) /\ Durable' = DurableIn(lines', open')
  BY DEF Durable, DurableIn, Decodable
<1>3. ASSUME Durable \subseteq Durable'
      PROVE  KeepsDurable
  <2>1. SampleTimes(Durable) \subseteq SampleTimes(Durable')
    BY <1>3 DEF SampleTimes
  <2> QED
    BY <1>3, <2>1 DEF KeepsDurable
<1>4. ASSUME open' = FALSE, lines' \in Seq(Lines), AllKept(TimesOf(lines), TimesOf(lines')),
             Hour(TRUE) \in ToSet(lines) => Hour(TRUE) \in ToSet(lines')
      PROVE  KeepsDurable
  <2>1. lines \in Seq(Lines) /\ open \in BOOLEAN
    BY <1>1, SequencesAre DEF TypeOK
  <2>2. /\ SampleTimes(Durable) \subseteq TimesOf(lines)
        /\ Hour(TRUE) \in Durable => Hour(TRUE) \in ToSet(lines)
    BY <1>2, <2>1, DurableHolds
  <2>3. /\ TimesOf(lines') = SampleTimes(Durable')
        /\ Hour(TRUE) \in ToSet(lines') => Hour(TRUE) \in Durable'
    <3>1. open' \in BOOLEAN /\ ~open'
      BY <1>4
    <3> QED
      BY <1>2, <1>4, <3>1, DurableHolds
  <2> QED
    BY <1>4, <2>2, <2>3 DEF KeepsDurable, AllKept, Kept
<1>5. ASSUME lines' = lines, open' = open
      PROVE  KeepsDurable
  BY <1>2, <1>3, <1>5
<1>6. ASSUME at = "append", NEW complete \in BOOLEAN, Writes(batch, complete)
      PROVE  KeepsDurable
  BY <1>2, <1>3, <1>6, AppendIsSafe
<1>7. ASSUME at = "rewrite", Rewritten(batch)
      PROVE  KeepsDurable
  <2>1. lines' = batch /\ open' = FALSE /\ batch \in Seq(Lines)
    BY <1>1, <1>7, SequencesAre DEF Rewritten
  <2> QED
    BY <1>1, <1>4, <1>7, <2>1 DEF RewriteInv
<1>8. CASE AppendBatch
  <2>1. at = "append" /\ batch \in Seq(Records) /\ open \in BOOLEAN
    BY <1>1, <1>8 DEF AppendBatch, TypeOK
  <2>2. Writes(batch, TRUE) \/ Writes(batch, FALSE)
    BY <1>8, <2>1, WritesPieces DEF AppendBatch
  <2> QED
    BY <1>6, <2>1, <2>2
<1>9. CASE Start
  BY <1>4, <1>5, <1>9, StartIs DEF StartsFrom
<1>10. CASE Crash
  <2>1. CASE at = "append" /\ WritesPart(batch)
    <3>1. Writes(batch, FALSE)
      BY <1>1, <2>1, WritesPieces DEF TypeOK
    <3> QED
      BY <1>6, <2>1, <3>1
  <2> QED
    BY <1>5, <1>7, <1>10, <2>1 DEF Crash, file
<1>11. CASE Rewrite
  BY <1>5, <1>7, <1>11 DEF Rewrite, file
<1>12. CASE Apply \/ DrainDirty \/ Compact \/ Stop \/ Joins \/ (\E l \in Loops : LoopReturns(l))
            \/ UNCHANGED vars
  <2>1. lines' = lines /\ open' = open
    BY <1>12 DEF Apply, DrainDirty, Compact, Stop, Joins, LoopReturns, vars, file
  <2> QED
    BY <1>5, <2>1
<1> QED
  BY <1>8, <1>9, <1>10, <1>11, <1>12 DEF Next

(* No append, compaction, restore or crash loses a sample of the file,     *)
(* unless retention drops it, nor makes a complete hour partial.           *)
THEOREM DurableIsKept == Spec => DurableHistoryKept
<1>1. IInv /\ [Next]_vars => [KeepsDurable]_vars
  BY StepKeepsDurable
<1>2. [][IInv /\ [Next]_vars]_vars => DurableHistoryKept
  <2>1. [KeepsDurable]_vars <=> [LET kept == SampleTimes(Durable') IN
       /\ \A t \in SampleTimes(Durable) : t \in kept \/ Expired(t, kept)
       /\ Hour(TRUE) \in Durable => Hour(TRUE) \in Durable']_vars
    BY DEF KeepsDurable
  <2> QED
    BY <1>1, <2>1, PTL DEF DurableHistoryKept
<1> QED
  BY Invariance, <1>2, PTL DEF Spec

=============================================================================
