----------------------- MODULE StreamConvertersProofs -----------------------
(***************************************************************************)
(* Proofs about the three stream converters: for every set of lines and    *)
(* every bound on their number, the fields of a converter have their types *)
(* and the blocks, items and tool calls its client is told of are well     *)
(* formed.                                                                 *)
(*                                                                         *)
(* The argument.  A sequence of events is lawful if it is what             *)
(* BlocksWellFormed asks for, of any sequence and without counting.  An    *)
(* event keeps it lawful if the blocks opened and closed so far allow it   *)
(* (MayTell).  Each converter has an invariant that ties its fields to     *)
(* those blocks: the block it takes to be open for text is one the client  *)
(* was told of and not told the end of; a tool marked as stopped is one    *)
(* whose stop was said; an item marked as announced was opened; nothing is *)
(* open to a Messages client that the converter does not know of.  Every   *)
(* handler keeps that invariant, the loops over calls and tools by the     *)
(* induction below.  The Messages converter also relies on its upstream:   *)
(* a text delta comes only after the start of a text block, so that the    *)
(* message item it belongs to is open.                                     *)
(***************************************************************************)
EXTENDS StreamConverters, WellFoundedInduction, FiniteSetTheorems,
        SequenceTheorems, TLAPS

-----------------------------------------------------------------------------
(* Induction.  The library states it for an operator, which the provers    *)
(* cannot instantiate; of a set of numbers it follows from < being well    *)
(* founded.                                                                *)

(* A set of numbers that is not empty has a least element.                 *)
LEMMA LeastNumber ==
  ASSUME NEW T, T \subseteq Nat, T # {}
  PROVE  \E m \in T : \A k \in T : m <= k
<1>1. \E m \in T : \A k \in T : <<k, m>> \notin OpToRel(<, Nat)
  BY NatLessThanWellFounded, WFMin
<1>2. \A k \in Nat, m \in Nat : k < m => <<k, m>> \in OpToRel(<, Nat)
  BY DEF OpToRel
<1>3. \E m \in T : \A k \in T : ~(k < m)
  BY <1>1, <1>2, Zenon
<1> QED
  BY <1>3

(* A set that holds 0 and, up to a bound, with a number its successor,     *)
(* holds all numbers up to that bound.                                     *)
LEMMA BoundedInduction ==
  ASSUME NEW N \in Nat, NEW T, 0 \in T, \A n \in 0..N : n \in T /\ n + 1 <= N => n + 1 \in T
  PROVE  0..N \subseteq T
<1> SUFFICES ASSUME 0..N \ T # {} PROVE FALSE
  OBVIOUS
<1> DEFINE Rest == 0..N \ T
<1>0. Rest \subseteq Nat /\ Rest # {}
  OBVIOUS
<1> HIDE DEF Rest
<1>1. PICK m \in Rest : \A k \in Rest : m <= k
  BY <1>0, LeastNumber
<1> USE DEF Rest
<1>2. m # 0 /\ m - 1 \in 0..N
  BY <1>1
<1>3. m - 1 \in T
  BY <1>1, <1>2
<1>4. (m - 1) + 1 \in T
  BY <1>2, <1>3
<1> QED
  BY <1>1, <1>4

(* A loop of N rounds whose state stays in S can be run: what the          *)
(* recursive functions of the models stand for.                            *)
IsRunOf(f, N, S, base, step) ==
  /\ f \in [0..N -> S] /\ f[0] = base
  /\ \A n \in 1..N : f[n] = step[n][f[n - 1]]

LEMMA RunOfLoop ==
  ASSUME NEW N \in Nat, NEW S, NEW base \in S, NEW step \in [1..N -> [S -> S]]
  PROVE  \E f : IsRunOf(f, N, S, base, step)
<1> DEFINE
     Run(f, m) == /\ f \in [0..m -> S] /\ f[0] = base
                  /\ \A n \in 1..m : f[n] = step[n][f[n - 1]]
     T == {m \in 0..N : \E f : Run(f, m)}
<1>1. 0 \in T
  <2>1. Run([n \in 0..0 |-> base], 0)
    OBVIOUS
  <2> HIDE DEF Run
  <2>2. \E f : Run(f, 0)
    BY <2>1
  <2> QED
    BY <2>2
<1>2. ASSUME NEW m \in 0..N, m \in T, m + 1 <= N
      PROVE  m + 1 \in T
  <2>1. PICK f : Run(f, m)
    BY <1>2
  <2> DEFINE g == [n \in 0..(m + 1) |-> IF n <= m THEN f[n] ELSE step[m + 1][f[m]]]
  <2>2. f[m] \in S /\ step[m + 1][f[m]] \in S
    BY <2>1, <1>2
  <2>3. g \in [0..(m + 1) -> S] /\ g[0] = base
    BY <2>1, <2>2
  <2>4. ASSUME NEW n \in 1..(m + 1)
        PROVE  g[n] = step[n][g[n - 1]]
    <3>1. CASE n <= m
      <4>1. g[n] = f[n] /\ g[n - 1] = f[n - 1]
        BY <3>1
      <4>2. f[n] = step[n][f[n - 1]]
        BY <2>1, <3>1
      <4> HIDE DEF g
      <4> QED
        BY <4>1, <4>2
    <3>2. CASE n = m + 1
      <4>1. g[n] = step[m + 1][f[m]] /\ g[n - 1] = f[m]
        BY <3>2, <1>2
      <4> HIDE DEF g
      <4> QED
        BY <4>1, <3>2
    <3> QED
      BY <3>1, <3>2
  <2> HIDE DEF g
  <2>5. Run(g, m + 1)
    BY <2>3, <2>4
  <2> HIDE DEF Run
  <2> QED
    BY <2>5, <1>2
<1> HIDE DEF T
<1>3. 0..N \subseteq T
  BY <1>1, <1>2, BoundedInduction
<1>4. PICK f : Run(f, N)
  BY <1>3 DEF T
<1> QED
  BY <1>4 DEF IsRunOf

-----------------------------------------------------------------------------
(* What a client has been told.                                            *)

IsASequence(w) == \E S : w \in Seq(S)

(* The blocks that were opened, those of them for tools, and those closed. *)
Opened(w) == {w[k].block : k \in {j \in DOMAIN w : w[j].ev = "start"}}
Tooled(w) == {w[k].block : k \in {j \in DOMAIN w : w[j].ev = "start" /\ w[j].kind = "tool"}}
Shut(w)   == {w[k].block : k \in {j \in DOMAIN w : w[j].ev = "stop"}}

(* BlocksWellFormed, of any sequence of events: Messages events if for claude. *)
Lawful(w, format) ==
  /\ IsASequence(w)
  /\ \A i, j \in DOMAIN w :
       w[i].ev \in {"start", "stop"} /\ w[j].ev = w[i].ev /\ w[j].block = w[i].block => i = j
  /\ \A i \in DOMAIN w :
       w[i].ev \in {"delta", "stop"} =>
         \E o \in DOMAIN w : o < i /\ w[o].ev = "start" /\ w[o].block = w[i].block
  /\ format = "claude" => \A i, j \in DOMAIN w :
       w[i].ev = "start" /\ w[j].ev = "start" /\ i < j =>
         \E k \in DOMAIN w : k < j /\ w[k].ev = "stop" /\ w[k].block = w[i].block
  /\ \A i, j \in DOMAIN w :
       w[i].ev = "stop" /\ w[j].ev = "delta" /\ w[j].block = w[i].block =>
         j < i \/ (format = "claude" /\ w[i].block \in Tooled(w))

(* A sequence of events and one event more.                                *)
LEMMA Appended ==
  ASSUME NEW w, IsASequence(w), NEW x
  PROVE  LET v == w \o <<x>> IN
         /\ IsASequence(v) /\ Len(w) \in Nat /\ DOMAIN w = 1..Len(w)
         /\ Len(v) = Len(w) + 1 /\ DOMAIN v = 1..(Len(w) + 1)
         /\ v[Len(w) + 1] = x /\ \A i \in 1..Len(w) : v[i] = w[i]
<1>1. PICK S : w \in Seq(S)
  BY DEF IsASequence
<1> DEFINE T == S \union {x}
           v == w \o <<x>>
<1>2. w \in Seq(T) /\ <<x>> \in Seq(T) /\ Len(<<x>>) = 1 /\ <<x>>[1] = x
  BY <1>1
<1>3. v \in Seq(T) /\ Len(v) = Len(w) + 1 /\ Len(w) \in Nat
  BY <1>2
<1>4. DOMAIN w = 1..Len(w) /\ DOMAIN v = 1..Len(v)
  BY <1>2, <1>3
<1>5. \A i \in 1..Len(w) : v[i] = w[i]
  BY <1>2
<1>6. v[Len(w) + 1] = x
  BY <1>2
<1> QED
  BY <1>3, <1>4, <1>5, <1>6 DEF IsASequence

(* One event more. *)
LEMMA Summary ==
  ASSUME NEW w, IsASequence(w), NEW x
  PROVE  LET v == w \o <<x>> IN
         /\ Opened(v) = Opened(w) \union (IF x.ev = "start" THEN {x.block} ELSE {})
         /\ Tooled(v) = Tooled(w) \union (IF x.ev = "start" /\ x.kind = "tool" THEN {x.block} ELSE {})
         /\ Shut(v)   = Shut(w) \union (IF x.ev = "stop" THEN {x.block} ELSE {})
<1> DEFINE v == w \o <<x>>
           n == Len(w) + 1
<1>1. /\ n \in Nat /\ DOMAIN v = DOMAIN w \union {n} /\ n \notin DOMAIN w
      /\ v[n] = x /\ \A i \in DOMAIN w : v[i] = w[i]
  BY Appended
<1> HIDE DEF v, n
<1>2. Opened(v) = Opened(w) \union (IF x.ev = "start" THEN {x.block} ELSE {})
  BY <1>1 DEF Opened
<1>3. Tooled(v) = Tooled(w) \union (IF x.ev = "start" /\ x.kind = "tool" THEN {x.block} ELSE {})
  BY <1>1 DEF Tooled
<1>4. Shut(v) = Shut(w) \union (IF x.ev = "stop" THEN {x.block} ELSE {})
  BY <1>1 DEF Shut
<1> QED
  BY <1>2, <1>3, <1>4 DEF v

(* The events that may follow. *)
MayTell(w, format, x) ==
  /\ x.ev = "start" => x.block \notin Opened(w) /\ (format = "claude" => Opened(w) \subseteq Shut(w))
  /\ x.ev \in {"delta", "stop"} => x.block \in Opened(w)
  /\ x.ev = "delta" => x.block \notin Shut(w) \/ (format = "claude" /\ x.block \in Tooled(w))
  /\ x.ev = "stop"  => x.block \notin Shut(w)

(* One of the events that may follow keeps a lawful sequence lawful.       *)
LEMMA StaysLawful ==
  ASSUME NEW w, NEW format, NEW x, Lawful(w, format), MayTell(w, format, x)
  PROVE  Lawful(w \o <<x>>, format)
<1> DEFINE v == w \o <<x>>
           n == Len(w) + 1
<1>1. IsASequence(w)
  BY DEF Lawful
<1>2. /\ IsASequence(v) /\ n \in Nat /\ DOMAIN v = DOMAIN w \union {n}
      /\ \A i \in DOMAIN w : i \in Nat /\ i < n /\ v[i] = w[i]
      /\ v[n] = x
  <2>1. /\ IsASequence(v) /\ Len(w) \in Nat /\ DOMAIN w = 1..Len(w)
        /\ DOMAIN v = 1..(Len(w) + 1) /\ v[Len(w) + 1] = x
        /\ \A i \in 1..Len(w) : v[i] = w[i]
    BY <1>1, Appended
  <2> HIDE DEF v
  <2> QED
    BY <2>1
<1>3. Tooled(w) \subseteq Tooled(v)
  BY <1>1, Summary
<1> HIDE DEF v, n
<1>4. \A i \in DOMAIN w : /\ w[i].ev = "start" => w[i].block \in Opened(w)
                          /\ w[i].ev = "stop" => w[i].block \in Shut(w)
  BY DEF Opened, Shut
<1>5. Shut(w) \subseteq Opened(w)
  BY DEF Lawful, Opened, Shut
<1>6. ASSUME NEW i \in DOMAIN v, NEW j \in DOMAIN v,
             v[i].ev \in {"start", "stop"}, v[j].ev = v[i].ev, v[j].block = v[i].block
      PROVE  i = j
  <2>1. CASE i # n /\ j # n
    BY <1>2, <1>6, <2>1 DEF Lawful
  <2>2. ASSUME NEW k \in DOMAIN w, w[k].ev = x.ev, w[k].block = x.block,
               x.ev \in {"start", "stop"}
        PROVE  FALSE
    BY <1>4, <2>2 DEF MayTell
  <2> QED
    BY <1>2, <1>6, <2>1, <2>2
<1>7. ASSUME NEW i \in DOMAIN v, v[i].ev \in {"delta", "stop"}
      PROVE  \E o \in DOMAIN v : o < i /\ v[o].ev = "start" /\ v[o].block = v[i].block
  <2>1. CASE i \in DOMAIN w
    BY <1>2, <1>7, <2>1 DEF Lawful
  <2>2. CASE i = n
    <3>1. x.block \in Opened(w)
      BY <1>2, <1>7, <2>2 DEF MayTell
    <3>2. PICK o \in DOMAIN w : w[o].ev = "start" /\ w[o].block = x.block
      BY <3>1 DEF Opened
    <3> QED
      BY <1>2, <2>2, <3>2
  <2> QED
    BY <1>2, <2>1, <2>2
<1>8. ASSUME format = "claude", NEW i \in DOMAIN v, NEW j \in DOMAIN v,
             v[i].ev = "start", v[j].ev = "start", i < j
      PROVE  \E k \in DOMAIN v : k < j /\ v[k].ev = "stop" /\ v[k].block = v[i].block
  <2>1. i \in DOMAIN w /\ w[i].ev = "start"
    BY <1>2, <1>8
  <2>2. CASE j \in DOMAIN w
    BY <1>2, <1>8, <2>1, <2>2 DEF Lawful
  <2>3. CASE j = n
    <3>1. w[i].block \in Shut(w)
      BY <1>2, <1>4, <1>8, <2>1, <2>3 DEF MayTell
    <3>2. PICK k \in DOMAIN w : w[k].ev = "stop" /\ w[k].block = w[i].block
      BY <3>1 DEF Shut
    <3> QED
      BY <1>2, <2>1, <2>3, <3>2
  <2> QED
    BY <1>2, <2>2, <2>3
<1>9. ASSUME NEW i \in DOMAIN v, NEW j \in DOMAIN v,
             v[i].ev = "stop", v[j].ev = "delta", v[j].block = v[i].block
      PROVE  j < i \/ (format = "claude" /\ v[i].block \in Tooled(v))
  <2>1. CASE i = n
    BY <1>2, <1>9, <2>1
  <2>2. CASE j = n
    BY <1>2, <1>3, <1>4, <1>9, <2>2 DEF MayTell
  <2>3. CASE i # n /\ j # n
    BY <1>2, <1>3, <1>9, <2>3 DEF Lawful
  <2> QED
    BY <2>1, <2>2, <2>3
<1> QED
  BY <1>2, <1>6, <1>7, <1>8, <1>9 DEF Lawful, v

(* ... and what is then opened, opened for a tool, and closed.             *)
LEMMA Tells ==
  ASSUME NEW w, NEW format, Lawful(w, format), NEW x, MayTell(w, format, x)
  PROVE  /\ Lawful(w \o <<x>>, format)
         /\ x.ev = "start" => Opened(w \o <<x>>) = Opened(w) \union {x.block}
         /\ x.ev = "start" /\ x.kind = "tool" =>
              Tooled(w \o <<x>>) = Tooled(w) \union {x.block}
         /\ x.ev = "start" /\ x.kind # "tool" => Tooled(w \o <<x>>) = Tooled(w)
         /\ x.ev # "start" => /\ Opened(w \o <<x>>) = Opened(w)
                              /\ Tooled(w \o <<x>>) = Tooled(w)
         /\ x.ev = "stop" => Shut(w \o <<x>>) = Shut(w) \union {x.block}
         /\ x.ev # "stop" => Shut(w \o <<x>>) = Shut(w)
<1> DEFINE v == w \o <<x>>
<1>1. IsASequence(w)
  BY DEF Lawful
<1>2. Lawful(v, format)
  BY StaysLawful
<1>3. /\ Opened(v) = Opened(w) \union (IF x.ev = "start" THEN {x.block} ELSE {})
      /\ Tooled(v) = Tooled(w) \union (IF x.ev = "start" /\ x.kind = "tool" THEN {x.block} ELSE {})
      /\ Shut(v)   = Shut(w) \union (IF x.ev = "stop" THEN {x.block} ELSE {})
  BY <1>1, Summary
<1> HIDE DEF v
<1>4. /\ x.ev = "start" => Opened(v) = Opened(w) \union {x.block}
      /\ x.ev = "start" /\ x.kind = "tool" => Tooled(v) = Tooled(w) \union {x.block}
      /\ x.ev = "start" /\ x.kind # "tool" => Tooled(v) = Tooled(w)
      /\ x.ev # "start" => Opened(v) = Opened(w) /\ Tooled(v) = Tooled(w)
  BY <1>3
<1>5. /\ x.ev = "stop" => Shut(v) = Shut(w) \union {x.block}
      /\ x.ev # "stop" => Shut(v) = Shut(w)
  BY <1>3
<1> QED
  BY <1>2, <1>4, <1>5 DEF v

(* Several stops: of blocks that are open, each once. *)
Closable(w, q) ==
  /\ q \in Seq(Nat)
  /\ \A i, j \in DOMAIN q : q[i] = q[j] => i = j
  /\ \A i \in DOMAIN q : q[i] \in Opened(w) \ Shut(w)

StopsOf(e, q) ==
  /\ IsASequence(e)
  /\ Len(e) = Len(q)
  /\ \A i \in DOMAIN q : e[i].ev = "stop" /\ e[i].block = q[i]

(* The events of two sequences, one after the other.                       *)
LEMMA Concatenated ==
  ASSUME NEW w, IsASequence(w), NEW e, IsASequence(e)
  PROVE  /\ IsASequence(w \o e) /\ Len(w) \in Nat /\ Len(e) \in Nat
         /\ DOMAIN w = 1..Len(w) /\ DOMAIN (w \o e) = 1..(Len(w) + Len(e))
         /\ \A i \in 1..Len(w) : (w \o e)[i] = w[i]
         /\ \A i \in 1..Len(e) : (w \o e)[Len(w) + i] = e[i]
<1>1. PICK S : w \in Seq(S)
  BY DEF IsASequence
<1>2. PICK R : e \in Seq(R)
  BY DEF IsASequence
<1> DEFINE T == S \union R
<1>3. e \in Seq(T) /\ w \in Seq(T)
  BY <1>1, <1>2
<1> DEFINE v == w \o e
           n == Len(w)
           m == Len(e)
<1> HIDE DEF T
<1>4. /\ v \in Seq(T) /\ Len(v) = n + m /\ n \in Nat /\ m \in Nat /\ DOMAIN w = 1..n
      /\ \A i \in 1..(n + m) : v[i] = IF i <= n THEN w[i] ELSE e[i - n]
  BY <1>3, ConcatProperties
<1>5. DOMAIN v = 1..(n + m)
  BY <1>4
<1> HIDE DEF v, n, m
<1>6. \A i \in 1..n : v[i] = w[i]
  BY <1>4
<1>7. \A i \in 1..m : v[n + i] = e[i]
  BY <1>4
<1> QED
  BY <1>4, <1>5, <1>6, <1>7 DEF v, n, m, IsASequence

(* Closing blocks that are open, each once, is lawful: it closes them and  *)
(* nothing else.                                                           *)
LEMMA StopsTold ==
  ASSUME NEW w, NEW format, Lawful(w, format), NEW q, Closable(w, q), NEW e, StopsOf(e, q)
  PROVE  /\ Lawful(w \o e, format)
         /\ Opened(w \o e) = Opened(w) /\ Tooled(w \o e) = Tooled(w)
         /\ Shut(w \o e) = Shut(w) \union Range(q)
<1> DEFINE v == w \o e
           n == Len(w)
           m == Len(q)
<1>1. IsASequence(w) /\ IsASequence(e)
  BY DEF Lawful, StopsOf
<1>b. Len(e) = m
  BY DEF StopsOf
<1>2. m \in Nat /\ DOMAIN q = 1..m
  BY DEF Closable
<1>3. \A i, j \in DOMAIN q : q[i] = q[j] => i = j
  BY DEF Closable
<1>a. \A i \in DOMAIN q : q[i] \in Opened(w) \ Shut(w)
  BY DEF Closable
<1>4. \A i \in 1..m : e[i].ev = "stop" /\ e[i].block = q[i]
  BY <1>2 DEF StopsOf
<1>5. /\ IsASequence(v) /\ n \in Nat /\ DOMAIN w = 1..n /\ DOMAIN v = 1..(n + m)
      /\ \A i \in 1..n : v[i] = w[i]
      /\ \A i \in 1..m : v[n + i] = e[i]
  <2>1. IsASequence(v) /\ n \in Nat /\ DOMAIN w = 1..n
    BY <1>1, Concatenated
  <2>2. DOMAIN v = 1..(n + Len(e))
    BY <1>1, Concatenated
  <2>3. \A i \in 1..n : v[i] = w[i]
    BY <1>1, Concatenated
  <2>4. \A i \in 1..Len(e) : v[n + i] = e[i]
    BY <1>1, Concatenated
  <2> HIDE DEF v, n, m
  <2> QED
    BY <1>b, <2>1, <2>2, <2>3, <2>4
<1>6. /\ IsASequence(v)
      /\ \A i \in DOMAIN w : i \in DOMAIN v /\ v[i] = w[i]
      /\ \A i \in DOMAIN v : i \in Nat /\ (i \in DOMAIN w => i <= n)
      /\ \A k \in DOMAIN v \ DOMAIN w :
           k > n /\ v[k].ev = "stop" /\ k - n \in DOMAIN q /\ v[k].block = q[k - n]
      /\ \A i \in DOMAIN q : /\ n + i \in DOMAIN v /\ v[n + i].ev = "stop"
                             /\ v[n + i].block = q[i]
  <2>1. IsASequence(v)
    BY <1>5 DEF IsASequence
  <2> HIDE DEF v, n, m
  <2>2. ASSUME NEW k \in DOMAIN v \ DOMAIN w
        PROVE  /\ k > n /\ v[k].ev = "stop" /\ k - n \in DOMAIN q
               /\ v[k].block = q[k - n]
    <3>1. k - n \in 1..m /\ k = n + (k - n) /\ k > n
      BY <1>2, <1>5, <2>2
    <3> QED
      BY <1>2, <1>4, <1>5, <3>1
  <2>3. ASSUME NEW i \in DOMAIN q
        PROVE  n + i \in DOMAIN v /\ v[n + i].ev = "stop" /\ v[n + i].block = q[i]
    BY <1>2, <1>4, <1>5
  <2>4. /\ \A i \in DOMAIN w : i \in DOMAIN v /\ v[i] = w[i]
        /\ \A i \in DOMAIN v : i \in Nat /\ (i \in DOMAIN w => i <= n)
    BY <1>2, <1>5
  <2> QED
    BY <2>1, <2>2, <2>3, <2>4
<1>7. n \in Nat
  BY <1>5
<1> HIDE DEF v, n, m
<1>8. Opened(v) = Opened(w) /\ Tooled(v) = Tooled(w)
  <2>1. \A i \in DOMAIN v : v[i].ev = "start" => i \in DOMAIN w
    BY <1>6
  <2> QED
    BY <1>6, <2>1 DEF Opened, Tooled
<1>9. Shut(v) = Shut(w) \union Range(q)
  <2>1. ASSUME NEW b \in Shut(v)
        PROVE  b \in Shut(w) \union Range(q)
    <3>1. PICK k \in DOMAIN v : v[k].ev = "stop" /\ v[k].block = b
      BY DEF Shut, Range
    <3> QED
      BY <1>6, <3>1 DEF Shut, Range
  <2>2. Shut(w) \subseteq Shut(v)
    BY <1>6 DEF Shut
  <2>3. \A i \in DOMAIN q : q[i] \in Shut(v)
    BY <1>6 DEF Shut
  <2> QED
    BY <2>1, <2>2, <2>3 DEF Range
<1>10. \A i \in DOMAIN w : w[i].ev = "stop" => w[i].block \in Shut(w)
  BY DEF Shut, Range
<1>11. ASSUME NEW i \in DOMAIN v, NEW j \in DOMAIN v,
              v[i].ev \in {"start", "stop"}, v[j].ev = v[i].ev, v[j].block = v[i].block
       PROVE  i = j
  <2>1. CASE i \in DOMAIN w /\ j \in DOMAIN w
    BY <1>6, <1>11, <2>1 DEF Lawful
  <2>2. ASSUME NEW k \in DOMAIN w, NEW l \in DOMAIN v \ DOMAIN w,
               v[k].ev = v[l].ev, v[k].block = v[l].block
        PROVE  FALSE
    <3>1. w[k].ev = "stop" /\ w[k].block \in Shut(w)
      BY <1>6, <1>10, <2>2
    <3>2. w[k].block \notin Shut(w)
      BY <1>6, <1>a, <2>2
    <3> QED
      BY <3>1, <3>2
  <2>3. CASE i \notin DOMAIN w /\ j \notin DOMAIN w
    <3>1. i - n = j - n
      BY <1>3, <1>6, <1>11, <2>3
    <3> QED
      BY <1>6, <1>7, <3>1
  <2> QED
    BY <1>11, <2>1, <2>2, <2>3
<1>12. ASSUME NEW i \in DOMAIN v, v[i].ev \in {"delta", "stop"}
       PROVE  \E o \in DOMAIN v : o < i /\ v[o].ev = "start" /\ v[o].block = v[i].block
  <2>1. CASE i \in DOMAIN w
    BY <1>6, <1>12, <2>1 DEF Lawful
  <2>2. CASE i \notin DOMAIN w
    <3>1. i > n /\ v[i].block \in Opened(w)
      BY <1>6, <1>a, <2>2
    <3>2. PICK o \in DOMAIN w : w[o].ev = "start" /\ w[o].block = v[i].block
      BY <3>1 DEF Opened
    <3> QED
      BY <1>6, <1>7, <3>1, <3>2
  <2> QED
    BY <2>1, <2>2
<1>13. ASSUME format = "claude", NEW i \in DOMAIN v, NEW j \in DOMAIN v,
              v[i].ev = "start", v[j].ev = "start", i < j
       PROVE  \E k \in DOMAIN v : k < j /\ v[k].ev = "stop" /\ v[k].block = v[i].block
  BY <1>6, <1>13 DEF Lawful
<1>14. ASSUME NEW i \in DOMAIN v, NEW j \in DOMAIN v,
              v[i].ev = "stop", v[j].ev = "delta", v[j].block = v[i].block
       PROVE  j < i \/ (format = "claude" /\ v[i].block \in Tooled(v))
  <2>1. j \in DOMAIN w
    BY <1>6, <1>14
  <2>2. CASE i \in DOMAIN w
    BY <1>6, <1>8, <1>14, <2>1, <2>2 DEF Lawful
  <2>3. CASE i \notin DOMAIN w
    BY <1>6, <1>7, <2>1, <2>3
  <2> QED
    BY <2>2, <2>3
<1>15. Lawful(v, format)
  BY <1>6, <1>11, <1>12, <1>13, <1>14 DEF Lawful
<1> QED
  BY <1>6, <1>8, <1>9, <1>15 DEF v

(* Two events are one and then another.                                    *)
LEMMA Pair ==
  ASSUME NEW x, NEW y
  PROVE  <<x, y>> = <<x>> \o <<y>>
<1> DEFINE c == <<x>> \o <<y>>
           d == <<x, y>>
<1>1. Len(c) = 2 /\ c \in Seq({x, y}) /\ c[1] = x /\ c[2] = y
  BY ConcatProperties, <<x>> \in Seq({x, y}), <<y>> \in Seq({x, y})
<1>2. d \in Seq({x, y}) /\ Len(d) = 2 /\ d[1] = x /\ d[2] = y
  OBVIOUS
<1> HIDE DEF c, d
<1>3. \A i \in 1..2 : c[i] = d[i]
  BY <1>1, <1>2
<1>4. c = d
  BY <1>1, <1>2, <1>3, SeqEqual
<1> QED
  BY <1>4 DEF c, d

(* Two events, and none.                                                   *)
LEMMA Single ==
  ASSUME NEW x
  PROVE  IsASequence(<<x>>)
<1>1. <<x>> \in Seq({x})
  OBVIOUS
<1> QED
  BY <1>1 DEF IsASequence

(* No event changes nothing.                                               *)
LEMMA NothingTold ==
  ASSUME NEW w, IsASequence(w)
  PROVE  w \o <<>> = w
BY ConcatEmptySeq DEF IsASequence

(* Events said in two steps or in one are the same.                        *)
LEMMA Associative ==
  ASSUME NEW w, IsASequence(w), NEW e, IsASequence(e), NEW f, IsASequence(f)
  PROVE  w \o (e \o f) = (w \o e) \o f
<1>1. PICK S : w \in Seq(S)
  BY DEF IsASequence
<1>2. PICK R : e \in Seq(R)
  BY DEF IsASequence
<1>3. PICK Q : f \in Seq(Q)
  BY DEF IsASequence
<1> DEFINE T == S \union R \union Q
<1>4. w \in Seq(T) /\ e \in Seq(T) /\ f \in Seq(T)
  BY <1>1, <1>2, <1>3
<1> HIDE DEF T
<1> QED
  BY <1>4, ConcatAssociative

(* The same of the two events that a Responses call begins with.           *)
LEMMA PairLater ==
  ASSUME NEW w, IsASequence(w), NEW e, IsASequence(e), NEW x, NEW y
  PROVE  w \o (e \o <<x, y>>) = (w \o e) \o <<x, y>>
<1>1. <<x, y>> \in Seq({x, y})
  OBVIOUS
<1>2. IsASequence(<<x, y>>)
  BY <1>1 DEF IsASequence
<1> DEFINE c == <<x, y>>
<1>3. IsASequence(c)
  BY <1>2
<1> HIDE DEF c
<1>4. w \o (e \o c) = (w \o e) \o c
  BY <1>3, Associative
<1> QED
  BY <1>4 DEF c
-----------------------------------------------------------------------------
(* The fields of every converter.                                          *)
Common(s) ==
  /\ s.sourceFormat \in Formats
  /\ {s.next, s.progress} \subseteq Nat
  /\ {s.started, s.finished, s.terminalSeen, s.done, s.failed} \subseteq BOOLEAN
  /\ Lawful(s.said, s.sourceFormat)
  /\ Opened(s.said) \subseteq 0..(s.next - 1)

BaseFields ==
  {"sourceFormat", "progress", "started", "finished", "terminalSeen", "done", "failed", "said"}

(* The Responses converter.                                                *)

ResponsesFields ==
  BaseFields \union {"calls", "delivered", "next", "text", "openBlocks", "seenItems",
                     "toolCallsSeen"}

(* The block of a call that has just been tracked is still to be opened.   *)
ResponsesHalf(s, new) ==
  /\ DOMAIN s = ResponsesFields
  /\ Common(s)
  /\ \A id \in DOMAIN s.calls : s.calls[id] \in Tooled(s.said) \union new
  /\ s.delivered \subseteq Opened(s.said) \union new
  /\ s.openBlocks \in Seq(Nat)
  /\ \A i, j \in DOMAIN s.openBlocks : s.openBlocks[i] = s.openBlocks[j] => i = j
  /\ IF s.sourceFormat = "claude"
     THEN Range(s.openBlocks) = Opened(s.said) \ Shut(s.said)
     ELSE s.openBlocks = <<>> /\ Shut(s.said) = {}
  /\ s.text \in 0..(s.next - 1) \union {Closed}
  /\ s.text # Closed /\ ~s.done => \E k \in DOMAIN s.openBlocks : s.openBlocks[k] = s.text

ResponsesInv(s) == ResponsesHalf(s, {})

(* Of a lawful sequence, only blocks that were opened are closed or are    *)
(* tools'.                                                                 *)
LEMMA LawfulFacts ==
  ASSUME NEW w, NEW format, Lawful(w, format)
  PROVE  IsASequence(w) /\ Shut(w) \subseteq Opened(w) /\ Tooled(w) \subseteq Opened(w)
BY DEF Lawful, Opened, Tooled, Shut

(* A step that only counts progress and sets flags of the Responses        *)
(* converter keeps its invariant.                                          *)
LEMMA ResponsesFlags ==
  ASSUME NEW s, NEW new, ResponsesHalf(s, new), NEW t,
         DOMAIN t = ResponsesFields,
         t.sourceFormat = s.sourceFormat, t.next = s.next, t.said = s.said,
         t.progress \in Nat,
         {t.started, t.finished, t.terminalSeen, t.done, t.failed} \subseteq BOOLEAN,
         t.calls = s.calls, t.delivered = s.delivered, t.openBlocks = s.openBlocks,
         t.text = s.text, s.done => t.done
  PROVE  ResponsesHalf(t, new)
BY DEF ResponsesHalf, Common

(* An event that may follow, and opens or closes nothing, keeps it too.    *)
LEMMA ResponsesSays ==
  ASSUME NEW s, NEW new, ResponsesHalf(s, new), NEW x,
         x.ev \notin {"start", "stop"},
         MayTell(s.said, s.sourceFormat, x)
  PROVE  /\ ResponsesHalf(Responses!Say(s, <<x>>), new)
         /\ Opened(Responses!Say(s, <<x>>).said) = Opened(s.said)
         /\ Tooled(Responses!Say(s, <<x>>).said) = Tooled(s.said)
         /\ Shut(Responses!Say(s, <<x>>).said) = Shut(s.said)
<1> DEFINE t == Responses!Say(s, <<x>>)
<1>1. /\ DOMAIN t = ResponsesFields /\ t.said = s.said \o <<x>>
      /\ t.sourceFormat = s.sourceFormat /\ t.next = s.next /\ t.progress = s.progress
      /\ t.started = s.started /\ t.finished = s.finished /\ t.terminalSeen = s.terminalSeen
      /\ t.done = s.done /\ t.failed = s.failed /\ t.calls = s.calls
      /\ t.delivered = s.delivered /\ t.text = s.text /\ t.openBlocks = s.openBlocks
  BY DEF ResponsesHalf, ResponsesFields, BaseFields, Responses!Say
<1> HIDE DEF t
<1>2. /\ Lawful(t.said, s.sourceFormat)
      /\ Opened(t.said) = Opened(s.said) /\ Tooled(t.said) = Tooled(s.said)
      /\ Shut(t.said) = Shut(s.said)
  <2>1. Lawful(s.said, s.sourceFormat)
    BY DEF ResponsesHalf, Common
  <2> QED
    BY <1>1, <2>1, Tells
<1>3. Lawful(t.said, t.sourceFormat)
  BY <1>1, <1>2
<1>4. Common(t)
  BY <1>1, <1>2, <1>3 DEF ResponsesHalf, Common
<1>5. ResponsesHalf(t, new)
  BY <1>1, <1>2, <1>4 DEF ResponsesHalf
<1> QED
  BY <1>2, <1>5 DEF t

(* What the Responses converter keeps but for what it was told to open.    *)
SameCall(t, s) ==
  /\ DOMAIN t = ResponsesFields
  /\ t.sourceFormat = s.sourceFormat /\ t.next = s.next /\ t.progress = s.progress
  /\ t.started = s.started /\ t.finished = s.finished /\ t.terminalSeen = s.terminalSeen
  /\ t.done = s.done /\ t.failed = s.failed /\ t.calls = s.calls
  /\ t.delivered = s.delivered

(* The stop events that closeOpenBlocks makes of its list are the stops of *)
(* that list.                                                              *)
LEMMA StopsAre ==
  ASSUME NEW q \in Seq(Nat), NEW e, e = [k \in DOMAIN q |-> Responses!Stop(q[k])]
  PROVE  StopsOf(e, q)
<1>1. Len(q) \in Nat /\ DOMAIN q = 1..Len(q) /\ \A k \in DOMAIN q : q[k] \in Nat
  OBVIOUS
<1>2. e \in [1..Len(q) -> [ev : {"stop"}, block : Nat]]
  BY <1>1 DEF Responses!Stop
<1>3. e \in Seq([ev : {"stop"}, block : Nat]) /\ Len(e) = Len(q)
  BY <1>1, <1>2
<1>4. \A i \in DOMAIN q : e[i].ev = "stop" /\ e[i].block = q[i]
  BY DEF Responses!Stop
<1> QED
  BY <1>3, <1>4 DEF StopsOf, IsASequence

(* closeOpenBlocks closes all that is open, once, and forgets it.          *)
LEMMA ResponsesCloses ==
  ASSUME NEW s, NEW new, ResponsesHalf(s, new), s.sourceFormat = "claude", ~s.done,
         NEW t, t = Responses!CloseOpenBlocks(s)
  PROVE  /\ SameCall(t, s) /\ t.text = Closed /\ t.openBlocks = <<>>
         /\ Lawful(t.said, s.sourceFormat)
         /\ Opened(t.said) = Opened(s.said) /\ Tooled(t.said) = Tooled(s.said)
         /\ Shut(t.said) = Opened(s.said)
<1> DEFINE q == s.openBlocks
           e == [k \in DOMAIN q |-> Responses!Stop(q[k])]
<1>1. /\ q \in Seq(Nat) /\ \A i, j \in DOMAIN q : q[i] = q[j] => i = j
      /\ Range(q) = Opened(s.said) \ Shut(s.said)
      /\ Lawful(s.said, s.sourceFormat)
      /\ s.text # Closed => \E k \in DOMAIN q : q[k] = s.text
      /\ DOMAIN s = ResponsesFields
  BY DEF ResponsesHalf, Common
<1>2. Shut(s.said) \subseteq Opened(s.said)
  BY <1>1, LawfulFacts
<1>3. CASE q = <<>>
  <2>1. DOMAIN q = {}
    BY <1>3
  <2>2. t = s
    BY <1>3 DEF Responses!CloseOpenBlocks
  <2>3. s.text = Closed /\ Opened(s.said) = Shut(s.said)
    BY <1>1, <1>2, <2>1 DEF Range
  <2> QED
    BY <1>1, <1>3, <2>2, <2>3 DEF SameCall
<1>4. CASE q # <<>>
  <2>1. t = Responses!Say([s EXCEPT !.openBlocks = <<>>, !.text = Closed], e)
    BY <1>4 DEF Responses!CloseOpenBlocks, Responses!Closed, Closed
  <2>2. StopsOf(e, q)
    BY <1>1, StopsAre
  <2>3. SameCall(t, s) /\ t.text = Closed /\ t.openBlocks = <<>> /\ t.said = s.said \o e
    <3> HIDE DEF e, q
    <3> QED
      BY <1>1, <2>1 DEF SameCall, ResponsesFields, BaseFields, Responses!Say, Responses!Closed, Closed
  <2> HIDE DEF e, q
  <2>4. /\ Lawful(t.said, s.sourceFormat) /\ Opened(t.said) = Opened(s.said)
        /\ Tooled(t.said) = Tooled(s.said)
        /\ Shut(t.said) = Shut(s.said) \union Range(q)
    <3>1. Closable(s.said, q)
      BY <1>1 DEF Range, Closable
    <3> QED
      BY <1>1, <2>2, <2>3, <3>1, StopsTold
  <2> QED
    BY <1>1, <1>2, <2>3, <2>4
<1> QED
  BY <1>3, <1>4

(* A block is opened after all others have been closed: one is open in     *)
(* Messages events.                                                        *)
LEMMA ResponsesOpens ==
  ASSUME NEW s, NEW new, ResponsesHalf(s, new), s.sourceFormat = "claude", ~s.done,
         NEW b \in Nat, b \notin Opened(s.said), NEW kind,
         NEW t, t = Responses!OpenBlock(s, b, kind)
  PROVE  /\ SameCall(t, s) /\ t.text = Closed /\ t.openBlocks = <<b>>
         /\ Lawful(t.said, s.sourceFormat)
         /\ Opened(t.said) = Opened(s.said) \union {b}
         /\ kind = "tool" => Tooled(t.said) = Tooled(s.said) \union {b}
         /\ kind # "tool" => Tooled(t.said) = Tooled(s.said)
         /\ Shut(t.said) = Opened(s.said)
<1> DEFINE c == Responses!CloseOpenBlocks(s)
           x == Responses!Start(b, kind)
<1>1. /\ SameCall(c, s) /\ c.text = Closed /\ c.openBlocks = <<>>
      /\ Lawful(c.said, s.sourceFormat)
      /\ Opened(c.said) = Opened(s.said) /\ Tooled(c.said) = Tooled(s.said)
      /\ Shut(c.said) = Opened(s.said)
  BY ResponsesCloses
<1>2. t = Responses!Say([c EXCEPT !.openBlocks = Append(@, b)], <<x>>)
  BY DEF Responses!OpenBlock
<1>3. x.ev = "start" /\ x.block = b /\ x.kind = kind
  BY DEF Responses!Start
<1> HIDE DEF c, x
<1>4. Append(<<>>, b) = <<b>>
  OBVIOUS
<1>5. SameCall(t, s) /\ t.text = Closed /\ t.openBlocks = <<b>> /\ t.said = c.said \o <<x>>
  BY <1>1, <1>2, <1>4 DEF SameCall, ResponsesFields, BaseFields, Responses!Say
<1>6. MayTell(c.said, s.sourceFormat, x)
  BY <1>1, <1>3 DEF MayTell
<1>7. /\ Lawful(c.said \o <<x>>, s.sourceFormat)
      /\ Opened(c.said \o <<x>>) = Opened(c.said) \union {b}
      /\ kind = "tool" => Tooled(c.said \o <<x>>) = Tooled(c.said) \union {b}
      /\ kind # "tool" => Tooled(c.said \o <<x>>) = Tooled(c.said)
      /\ Shut(c.said \o <<x>>) = Shut(c.said)
  BY <1>1, <1>3, <1>6, Tells
<1> QED
  BY <1>1, <1>5, <1>7

(* A delta of a block that is open, or in Messages events of a tool's,     *)
(* keeps the invariant.                                                    *)
LEMMA ResponsesDelta ==
  ASSUME NEW s, NEW new, ResponsesHalf(s, new), NEW b, NEW n,
         b \in Opened(s.said) \ Shut(s.said) \/ (s.sourceFormat = "claude" /\ b \in Tooled(s.said))
  PROVE  ResponsesHalf(Responses!Say(s, <<Responses!Delta(b, n)>>), new)
<1> DEFINE x == Responses!Delta(b, n)
<1>1. x.ev = "delta" /\ x.block = b
  BY DEF Responses!Delta
<1> HIDE DEF x
<1>2. Lawful(s.said, s.sourceFormat)
  BY DEF ResponsesHalf, Common
<1>3. MayTell(s.said, s.sourceFormat, x)
  BY <1>1, <1>2, LawfulFacts DEF MayTell
<1>4. ResponsesHalf(Responses!Say(s, <<x>>), new)
  BY <1>1, <1>3, ResponsesSays
<1> QED
  BY <1>4 DEF x

(* An event that speaks of no block keeps it.                              *)
LEMMA ResponsesNamed ==
  ASSUME NEW s, NEW new, ResponsesHalf(s, new), NEW x,
         x.ev \notin {"start", "stop", "delta"}
  PROVE  ResponsesHalf(Responses!Say(s, <<x>>), new)
<1>1. MayTell(s.said, s.sourceFormat, x)
  BY DEF MayTell
<1> QED
  BY <1>1, ResponsesSays

(* Text of a Messages client goes to the text block that is open, or opens *)
(* one.                                                                    *)
LEMMA ResponsesText ==
  ASSUME NEW s, ResponsesInv(s), s.sourceFormat = "claude", ~s.done
  PROVE  ResponsesInv(Responses!ClaudeText(s))
<1> DEFINE p == Responses!OpenBlock(s, s.next, "text")
           o == IF s.text # Closed THEN s
                ELSE [p EXCEPT !.text = s.next, !.next = @ + 1]
<1>1. Responses!ClaudeText(s) = Responses!Say(o, <<Responses!Delta(o.text, 1)>>)
  BY DEF Responses!ClaudeText, Responses!Closed, Closed
<1>2. ResponsesHalf(s, {})
  BY DEF ResponsesInv
<1>3. CASE s.text # Closed
  <2>1. o = s
    BY <1>3
  <2>2. s.text \in Opened(s.said) \ Shut(s.said)
    BY <1>2, <1>3 DEF ResponsesHalf, Range
  <2> HIDE DEF o
  <2> QED
    BY <1>1, <1>2, <2>1, <2>2, ResponsesDelta DEF ResponsesInv
<1>4. CASE s.text = Closed
  <2>1. s.next \in Nat /\ s.next \notin Opened(s.said) /\ Opened(s.said) \subseteq 0..(s.next - 1)
    BY <1>2 DEF ResponsesHalf, Common
  <2>2. /\ SameCall(p, s) /\ p.text = Closed /\ p.openBlocks = <<s.next>>
        /\ Lawful(p.said, s.sourceFormat)
        /\ Opened(p.said) = Opened(s.said) \union {s.next}
        /\ Tooled(p.said) = Tooled(s.said)
        /\ Shut(p.said) = Opened(s.said)
    BY <1>2, <2>1, ResponsesOpens
  <2>3. o = [p EXCEPT !.text = s.next, !.next = @ + 1]
    BY <1>4
  <2> HIDE DEF p, o
  <2>4. /\ DOMAIN o = ResponsesFields
        /\ o.sourceFormat = s.sourceFormat /\ o.next = s.next + 1 /\ o.progress = s.progress
        /\ o.started = s.started /\ o.finished = s.finished /\ o.terminalSeen = s.terminalSeen
        /\ o.done = s.done /\ o.failed = s.failed /\ o.calls = s.calls
        /\ o.delivered = s.delivered /\ o.said = p.said /\ o.text = s.next
        /\ o.openBlocks = <<s.next>>
    BY <2>2, <2>3 DEF SameCall, ResponsesFields, BaseFields
  <2>5. Range(o.openBlocks) = {s.next} /\ s.next \in Opened(o.said) \ Shut(o.said)
    BY <2>1, <2>2, <2>4 DEF Range
  <2>6. Common(o)
    <3>1. Common(s)
      BY <1>2 DEF ResponsesHalf
    <3>2. Opened(o.said) \subseteq 0..(o.next - 1)
      BY <2>1, <2>2, <2>4
    <3>3. o.next \in Nat
      BY <2>1, <2>4
    <3> QED
      BY <2>2, <2>4, <3>1, <3>2, <3>3 DEF Common
  <2>7. /\ o.openBlocks \in Seq(Nat)
        /\ \A i, j \in DOMAIN o.openBlocks : o.openBlocks[i] = o.openBlocks[j] => i = j
        /\ \E k \in DOMAIN o.openBlocks : o.openBlocks[k] = o.text
        /\ o.text \in 0..(o.next - 1)
    <3>1. o.openBlocks \in Seq(Nat) /\ DOMAIN o.openBlocks = {1} /\ o.openBlocks[1] = s.next
      BY <2>1, <2>4
    <3> QED
      BY <2>1, <2>4, <3>1
  <2>8. ResponsesHalf(o, {})
    <3>1. Range(o.openBlocks) = Opened(o.said) \ Shut(o.said)
      BY <2>1, <2>2, <2>4, <2>5
    <3>2. /\ \A id \in DOMAIN o.calls : o.calls[id] \in Tooled(o.said) \union {}
          /\ o.delivered \subseteq Opened(o.said) \union {}
      BY <1>2, <2>2, <2>4 DEF ResponsesHalf
    <3> QED
      BY <2>4, <2>6, <2>7, <3>1, <3>2 DEF ResponsesHalf
  <2> QED
    BY <1>1, <2>4, <2>5, <2>8, ResponsesDelta DEF ResponsesInv
<1> QED
  BY <1>3, <1>4

(* A call that has been looked up, and is to be announced.                 *)
Tracked(t) ==
  /\ DOMAIN t = {"first", "block", "s"}
  /\ t.first \in BOOLEAN
  /\ t.block \in 0..(t.s.next - 1)
  /\ ResponsesHalf(t.s, {t.block})
  /\ t.s.sourceFormat # "openai-response"
  /\ ~t.s.done
  /\ IF t.first THEN t.block \notin Opened(t.s.said) ELSE t.block \in Tooled(t.s.said)

(* A call is looked up under the item's two identifiers, and is a new      *)
(* block exactly if neither is known.                                      *)
LEMMA TrackFinds ==
  ASSUME NEW s, ResponsesInv(s), s.sourceFormat # "openai-response", ~s.done, NEW key, NEW alias
  PROVE  Tracked(Responses!Track(s, key, alias))
<1> DEFINE known == {key, alias} \cap DOMAIN s.calls
           block == IF known = {} THEN s.next
                    ELSE s.calls[IF key \in known THEN key ELSE alias]
           ids == IF key \in known THEN {alias} ELSE {key, alias}
           u == [s EXCEPT !.next  = IF known = {} THEN @ + 1 ELSE @,
                          !.calls = Responses!Bound(@, ids, block)]
           t == Responses!Track(s, key, alias)
<1>1. t = [first |-> known = {}, block |-> block, s |-> u]
  BY DEF Responses!Track
<1>2. ResponsesHalf(s, {}) /\ DOMAIN s = ResponsesFields /\ s.next \in Nat
      /\ Opened(s.said) \subseteq 0..(s.next - 1) /\ Lawful(s.said, s.sourceFormat)
  BY DEF ResponsesInv, ResponsesHalf, Common
<1>3. Tooled(s.said) \subseteq Opened(s.said)
  BY <1>2, LawfulFacts
<1>4. \A id \in DOMAIN s.calls : s.calls[id] \in Tooled(s.said)
  BY <1>2 DEF ResponsesHalf
<1>5. /\ known = {} => block = s.next
      /\ known # {} => block \in Tooled(s.said)
  <2>1. known # {} => (IF key \in known THEN key ELSE alias) \in DOMAIN s.calls
    OBVIOUS
  <2> QED
    BY <1>4, <2>1
<1> HIDE DEF block, ids
<1>6. /\ DOMAIN u = ResponsesFields
      /\ u.next = (IF known = {} THEN s.next + 1 ELSE s.next)
      /\ u.calls = Responses!Bound(s.calls, ids, block)
      /\ u.sourceFormat = s.sourceFormat /\ u.said = s.said /\ u.progress = s.progress
      /\ u.started = s.started /\ u.finished = s.finished /\ u.terminalSeen = s.terminalSeen
      /\ u.done = s.done /\ u.failed = s.failed /\ u.delivered = s.delivered
      /\ u.text = s.text /\ u.openBlocks = s.openBlocks
  <2> HIDE DEF known
  <2> QED
    BY <1>2 DEF ResponsesFields, BaseFields
<1> HIDE DEF u, t, known
<1>7. t.first = (known = {}) /\ t.block = block /\ t.s = u /\ DOMAIN t = {"first", "block", "s"}
  BY <1>1
<1>8. \A id \in DOMAIN u.calls : u.calls[id] \in Tooled(u.said) \union {block}
  BY <1>4, <1>6 DEF Responses!Bound
<1>9. u.next \in Nat /\ s.next <= u.next /\ block \in 0..(u.next - 1)
  BY <1>2, <1>3, <1>5, <1>6
<1>10. Common(u)
  <2>1. Opened(u.said) \subseteq 0..(u.next - 1)
    BY <1>2, <1>6, <1>9
  <2>2. Common(s)
    BY <1>2 DEF ResponsesHalf
  <2> QED
    BY <1>6, <1>9, <2>1, <2>2 DEF Common
<1>11. ResponsesHalf(u, {block})
  <2>1. u.text \in 0..(u.next - 1) \union {Closed}
    BY <1>2, <1>6, <1>9 DEF ResponsesHalf
  <2> QED
    BY <1>2, <1>6, <1>8, <1>10, <2>1 DEF ResponsesHalf
<1>12. IF t.first THEN block \notin Opened(u.said) ELSE block \in Tooled(u.said)
  <2>1. known = {} => block \notin Opened(u.said)
    BY <1>2, <1>5, <1>6
  <2>2. known # {} => block \in Tooled(u.said)
    BY <1>5, <1>6
  <2>3. t.first <=> known = {}
    BY <1>7
  <2> QED
    BY <2>1, <2>2, <2>3
<1>13. t.first \in BOOLEAN
  BY <1>7
<1>14. Tracked(t)
  BY <1>6, <1>7, <1>9, <1>11, <1>12, <1>13 DEF Tracked
<1> QED
  BY <1>14 DEF t

(* To note that a tool call was seen, and that its arguments have been     *)
(* delivered, changes nothing else of it.                                  *)
LEMMA Delivers ==
  ASSUME NEW t, Tracked(t), NEW seen,
         NEW D, D = t.s.delivered \/ D = t.s.delivered \union {t.block}
  PROVE  Tracked([t EXCEPT !.s.delivered = D, !.s.toolCallsSeen = seen])
<1> DEFINE u == [t.s EXCEPT !.delivered = D, !.toolCallsSeen = seen]
           r == [t EXCEPT !.s.delivered = D, !.s.toolCallsSeen = seen]
<1>1. /\ DOMAIN t = {"first", "block", "s"} /\ DOMAIN t.s = ResponsesFields
      /\ ResponsesHalf(t.s, {t.block})
  BY DEF Tracked, ResponsesHalf
<1>2. r.s = u /\ r.first = t.first /\ r.block = t.block /\ DOMAIN r = {"first", "block", "s"}
  BY <1>1 DEF ResponsesFields, BaseFields
<1>3. /\ DOMAIN u = ResponsesFields
      /\ u.delivered = D
      /\ u.next = t.s.next /\ u.calls = t.s.calls
      /\ u.sourceFormat = t.s.sourceFormat /\ u.said = t.s.said /\ u.progress = t.s.progress
      /\ u.started = t.s.started /\ u.finished = t.s.finished
      /\ u.terminalSeen = t.s.terminalSeen
      /\ u.done = t.s.done /\ u.failed = t.s.failed
      /\ u.text = t.s.text /\ u.openBlocks = t.s.openBlocks
  BY <1>1 DEF ResponsesFields, BaseFields
<1> HIDE DEF u, r
<1>4. ResponsesHalf(u, {t.block})
  <2>1. Common(u)
    BY <1>1, <1>3 DEF ResponsesHalf, Common
  <2>2. u.delivered \subseteq Opened(u.said) \union {t.block}
    BY <1>1, <1>3 DEF ResponsesHalf
  <2> QED
    BY <1>1, <1>3, <2>1, <2>2 DEF ResponsesHalf
<1>5. Tracked(r)
  BY <1>2, <1>3, <1>4 DEF Tracked
<1> QED
  BY <1>5 DEF r

(* Two events said at once are said one after the other.                   *)
LEMMA SayTwice ==
  ASSUME NEW s, IsASequence(s.said), "said" \in DOMAIN s, NEW x, NEW y
  PROVE  Responses!Say(s, <<x, y>>) = Responses!Say(Responses!Say(s, <<x>>), <<y>>)
<1> DEFINE A == s.said \o <<x>>
           B == s.said \o <<x, y>>
           r == [s EXCEPT !.said = A]
<1>1. B = A \o <<y>>
  BY Pair, Single, Associative
<1> HIDE DEF A, B
<1>2. r.said = A
  OBVIOUS
<1>3. [r EXCEPT !.said = B] = [s EXCEPT !.said = B]
  <2> DEFINE p == [r EXCEPT !.said = B]
             q == [s EXCEPT !.said = B]
  <2>1. DOMAIN p = DOMAIN s /\ DOMAIN q = DOMAIN s /\ \A f \in DOMAIN s : p[f] = q[f]
    OBVIOUS
  <2>2. p = [f \in DOMAIN p |-> p[f]] /\ q = [f \in DOMAIN q |-> q[f]]
    OBVIOUS
  <2> HIDE DEF p, q
  <2>3. p = q
    BY <2>1, <2>2
  <2> QED
    BY <2>3 DEF p, q
<1> HIDE DEF r
<1>4. Responses!Say(r, <<y>>) = [r EXCEPT !.said = B]
  BY <1>1, <1>2 DEF Responses!Say
<1>5. Responses!Say(s, <<x>>) = r /\ Responses!Say(s, <<x, y>>) = [s EXCEPT !.said = B]
  BY DEF Responses!Say, r, A, B
<1> QED
  BY <1>3, <1>4, <1>5

(* To say nothing keeps the invariant.                                     *)
LEMMA ResponsesNothing ==
  ASSUME NEW s, ResponsesInv(s)
  PROVE  ResponsesInv(Responses!Say(s, <<>>))
<1> DEFINE t == Responses!Say(s, <<>>)
<1>1. ResponsesHalf(s, {}) /\ IsASequence(s.said)
  BY LawfulFacts DEF ResponsesInv, ResponsesHalf, Common
<1>2. s.said \o <<>> = s.said
  BY <1>1, NothingTold
<1>3. /\ DOMAIN t = ResponsesFields /\ t.said = s.said
      /\ t.sourceFormat = s.sourceFormat /\ t.next = s.next /\ t.progress = s.progress
      /\ t.started = s.started /\ t.finished = s.finished /\ t.terminalSeen = s.terminalSeen
      /\ t.done = s.done /\ t.failed = s.failed /\ t.calls = s.calls
      /\ t.delivered = s.delivered /\ t.text = s.text /\ t.openBlocks = s.openBlocks
  BY <1>1, <1>2 DEF ResponsesHalf, ResponsesFields, BaseFields, Responses!Say
<1> HIDE DEF t
<1>4. /\ t.progress \in Nat
      /\ {t.started, t.finished, t.terminalSeen, t.done, t.failed} \subseteq BOOLEAN
  BY <1>1, <1>3 DEF ResponsesHalf, Common
<1>5. ResponsesHalf(t, {})
  BY <1>1, <1>3, <1>4, ResponsesFlags
<1> QED
  BY <1>5 DEF ResponsesInv, t

(* A call is announced with at most one delta.                             *)
LEMMA FewDeltas ==
  ASSUME NEW b, NEW n \in 0..1
  PROVE  [k \in 1..n |-> Responses!Delta(b, 1)] =
           IF n = 0 THEN <<>> ELSE <<Responses!Delta(b, 1)>>
<1> DEFINE y == Responses!Delta(b, 1)
<1> HIDE DEF y
<1>1. n = 0 => [k \in 1..n |-> y] = <<>>
  OBVIOUS
<1>2. n = 1 => [k \in 1..n |-> y] = <<y>>
  OBVIOUS
<1> QED
  BY <1>1, <1>2 DEF y

(* The call's block is opened at first sight. *)
LEMMA FirstSight ==
  ASSUME NEW t, Tracked(t), t.first,
         NEW o, o = IF t.s.sourceFormat = "openai"
                    THEN Responses!Say(t.s, <<Responses!Start(t.block, "tool")>>)
                    ELSE Responses!OpenBlock(t.s, t.block, "tool")
  PROVE  ResponsesInv(o) /\ t.block \in Tooled(o.said) /\ o.sourceFormat = t.s.sourceFormat
<1> DEFINE s == t.s
           b == t.block
           x == Responses!Start(t.block, "tool")
<1>1. /\ ResponsesHalf(s, {b}) /\ ~s.done /\ b \notin Opened(s.said)
      /\ b \in 0..(s.next - 1) /\ s.next \in Nat /\ s.sourceFormat \in {"openai", "claude"}
      /\ Lawful(s.said, s.sourceFormat) /\ Common(s)
      /\ DOMAIN s = ResponsesFields
  BY DEF Tracked, ResponsesHalf, Common, Formats
<1>2. x.ev = "start" /\ x.block = b /\ x.kind = "tool"
  BY DEF Responses!Start
<1> HIDE DEF s, b, x
<1>3. /\ SameCall(o, s) /\ Lawful(o.said, s.sourceFormat)
      /\ Opened(o.said) = Opened(s.said) \union {b}
      /\ Tooled(o.said) = Tooled(s.said) \union {b}
      /\ IF s.sourceFormat = "openai" THEN /\ o.text = s.text /\ o.openBlocks = s.openBlocks
                                           /\ Shut(o.said) = Shut(s.said)
         ELSE o.text = Closed /\ o.openBlocks = <<b>> /\ Shut(o.said) = Opened(s.said)
  <2>1. CASE s.sourceFormat = "openai"
    <3>1. o = Responses!Say(s, <<x>>)
      BY <2>1 DEF s, x
    <3>2. SameCall(o, s) /\ o.text = s.text /\ o.openBlocks = s.openBlocks /\ o.said = s.said \o <<x>>
      BY <1>1, <3>1 DEF SameCall, ResponsesFields, BaseFields, Responses!Say
    <3>3. MayTell(s.said, s.sourceFormat, x)
      BY <1>1, <1>2, <2>1 DEF MayTell
    <3>4. /\ Lawful(s.said \o <<x>>, s.sourceFormat)
          /\ Opened(s.said \o <<x>>) = Opened(s.said) \union {b}
          /\ Tooled(s.said \o <<x>>) = Tooled(s.said) \union {b}
          /\ Shut(s.said \o <<x>>) = Shut(s.said)
      BY <1>1, <1>2, <3>3, Tells
    <3> QED
      BY <2>1, <3>2, <3>4
  <2>2. CASE s.sourceFormat = "claude"
    <3>1. o = Responses!OpenBlock(s, b, "tool")
      BY <2>2 DEF s, b
    <3>2. b \in Nat
      BY <1>1
    <3> QED
      BY <1>1, <2>2, <3>1, <3>2, ResponsesOpens
  <2> QED
    BY <1>1, <2>1, <2>2
<1>4. /\ o.sourceFormat = s.sourceFormat /\ DOMAIN o = ResponsesFields
      /\ o.calls = s.calls /\ o.delivered = s.delivered /\ o.next = s.next /\ o.done = s.done
  BY <1>3 DEF SameCall
<1>5. Common(o)
  <2>1. Opened(o.said) \subseteq 0..(o.next - 1)
    BY <1>1, <1>3, <1>4 DEF Common
  <2> QED
    BY <1>1, <1>3, <2>1 DEF Common, SameCall
<1>6. /\ \A id \in DOMAIN o.calls : o.calls[id] \in Tooled(o.said) \union {}
      /\ o.delivered \subseteq Opened(o.said) \union {}
  BY <1>1, <1>3, <1>4 DEF ResponsesHalf
<1>7. /\ o.openBlocks \in Seq(Nat)
      /\ \A i, j \in DOMAIN o.openBlocks : o.openBlocks[i] = o.openBlocks[j] => i = j
      /\ IF o.sourceFormat = "claude"
         THEN Range(o.openBlocks) = Opened(o.said) \ Shut(o.said)
         ELSE o.openBlocks = <<>> /\ Shut(o.said) = {}
      /\ o.text \in 0..(o.next - 1) \union {Closed}
      /\ o.text # Closed /\ ~o.done => \E k \in DOMAIN o.openBlocks : o.openBlocks[k] = o.text
  <2>1. CASE s.sourceFormat = "openai"
    BY <1>1, <1>3, <1>4, <2>1 DEF ResponsesHalf
  <2>2. CASE s.sourceFormat = "claude"
    <3>1. o.openBlocks \in Seq(Nat) /\ DOMAIN o.openBlocks = {1} /\ o.openBlocks[1] = b
      <4>1. b \in Nat /\ o.openBlocks = <<b>>
        BY <1>1, <1>3, <2>2
      <4>2. <<b>> \in Seq(Nat) /\ DOMAIN <<b>> = {1} /\ <<b>>[1] = b
        BY <4>1
      <4> QED
        BY <4>1, <4>2
    <3>2. Range(o.openBlocks) = {b}
      BY <3>1 DEF Range
    <3> QED
      BY <1>1, <1>3, <1>4, <2>2, <3>1, <3>2
  <2> QED
    BY <1>1, <2>1, <2>2
<1>8. ResponsesInv(o)
  BY <1>4, <1>5, <1>6, <1>7 DEF ResponsesInv, ResponsesHalf
<1> QED
  BY <1>3, <1>4, <1>8 DEF s, b

(* The call that was looked up is announced with its first event, and fed  *)
(* in any case.                                                            *)
LEMMA AnnouncedIs ==
  ASSUME NEW t, Tracked(t), NEW n \in 0..1
  PROVE  ResponsesInv(Responses!Announce(t, n))
<1> DEFINE x == Responses!Start(t.block, "tool")
           y == Responses!Delta(t.block, 1)
           a == Responses!Announce(t, n)
           e == [k \in 1..n |-> Responses!Delta(t.block, 1)]
<1>1. e = IF n = 0 THEN <<>> ELSE <<y>>
  BY FewDeltas
<1>2. ASSUME NEW o, ResponsesInv(o), t.block \in Tooled(o.said),
             o.sourceFormat = t.s.sourceFormat
      PROVE  ResponsesInv(Responses!Say(o, e)) /\ ResponsesInv(Responses!Say(o, <<y>>))
  <2>1. /\ ResponsesHalf(o, {}) /\ Lawful(o.said, o.sourceFormat)
        /\ o.sourceFormat \in {"openai", "claude"}
    BY <1>2 DEF ResponsesInv, ResponsesHalf, Tracked, Common, Formats
  <2>2. t.block \in Opened(o.said)
    BY <1>2, <2>1, LawfulFacts
  <2>3. t.block \in Opened(o.said) \ Shut(o.said) \/ o.sourceFormat = "claude"
    BY <2>1, <2>2 DEF ResponsesHalf
  <2>4. ResponsesInv(Responses!Say(o, <<y>>))
    BY <1>2, <2>1, <2>3, ResponsesDelta DEF ResponsesInv
  <2> HIDE DEF e, y
  <2>5. ResponsesInv(Responses!Say(o, <<>>))
    BY <1>2, ResponsesNothing
  <2> QED
    BY <1>1, <2>4, <2>5
<1>3. t.s.sourceFormat \in {"openai", "claude"} /\ t.first \in BOOLEAN
  BY DEF Tracked, ResponsesHalf, Common, Formats
<1>4. CASE ~t.first
  <2>1. a = Responses!Say(t.s, e)
    BY <1>4 DEF Responses!Announce
  <2>2. t.block \in Tooled(t.s.said)
    BY <1>4 DEF Tracked
  <2>3. ResponsesInv(t.s)
    <3>1. ResponsesHalf(t.s, {t.block})
      BY DEF Tracked
    <3>2. Tooled(t.s.said) \subseteq Opened(t.s.said)
      BY <3>1, LawfulFacts DEF ResponsesHalf, Common
    <3>3. /\ \A id \in DOMAIN t.s.calls : t.s.calls[id] \in Tooled(t.s.said) \union {}
          /\ t.s.delivered \subseteq Opened(t.s.said) \union {}
      BY <2>2, <3>1, <3>2 DEF ResponsesHalf
    <3> QED
      BY <3>1, <3>3 DEF ResponsesInv, ResponsesHalf
  <2> HIDE DEF e, a
  <2>4. ResponsesInv(a)
    BY <1>2, <2>1, <2>2, <2>3
  <2> QED
    BY <2>4 DEF a
<1>5. CASE t.first /\ t.s.sourceFormat = "claude"
  <2> DEFINE o == Responses!OpenBlock(t.s, t.block, "tool")
  <2>1. a = Responses!Say(o, e)
    BY <1>5 DEF Responses!Announce
  <2>2. ResponsesInv(o) /\ t.block \in Tooled(o.said) /\ o.sourceFormat = t.s.sourceFormat
    BY <1>5, FirstSight
  <2> HIDE DEF e, a, o
  <2>3. ResponsesInv(a)
    BY <1>2, <2>1, <2>2
  <2> QED
    BY <2>3 DEF a
<1>6. CASE t.first /\ t.s.sourceFormat = "openai"
  <2> DEFINE o == Responses!Say(t.s, <<x>>)
  <2>1. ResponsesInv(o) /\ t.block \in Tooled(o.said) /\ o.sourceFormat = t.s.sourceFormat
    BY <1>6, FirstSight
  <2>2. CASE n = 0
    <3>1. a = o
      BY <1>6, <2>2 DEF Responses!Announce, Responses!Opening
    <3> QED
      BY <2>1, <3>1
  <2>3. CASE n = 1
    <3>1. a = Responses!Say(t.s, <<x, Responses!Delta(t.block, n)>>)
      BY <1>6, <2>3 DEF Responses!Announce, Responses!Opening
    <3>2. a = Responses!Say(t.s, <<x, y>>)
      BY <2>3, <3>1
    <3>3. IsASequence(t.s.said) /\ "said" \in DOMAIN t.s
      BY LawfulFacts DEF Tracked, ResponsesHalf, Common, ResponsesFields, BaseFields
    <3> HIDE DEF x, y, a, o
    <3>4. a = Responses!Say(Responses!Say(t.s, <<x>>), <<y>>)
      BY <3>2, <3>3, SayTwice
    <3>5. ResponsesInv(a)
      BY <1>2, <2>1, <3>4 DEF o
    <3> QED
      BY <3>5 DEF a
  <2> QED
    BY <2>2, <2>3
<1> QED
  BY <1>3, <1>4, <1>5, <1>6

(* The end of the stream for a Messages client closes every block.         *)
LEMMA ResponsesClaudeTerminal ==
  ASSUME NEW s, ResponsesInv(s), s.sourceFormat = "claude", s.done, NEW reason
  PROVE  ResponsesInv(Responses!ClaudeTerminal(s, reason))
<1> DEFINE q == s.openBlocks
           e == [k \in DOMAIN q |-> Responses!Stop(q[k])]
           x == Responses!Ending("message_delta", reason)
           y == Responses!Named("message_stop")
           r == [s EXCEPT !.openBlocks = <<>>]
           p == Responses!Say(r, e)
           t == Responses!ClaudeTerminal(s, reason)
<1>1. ResponsesHalf(s, {}) /\ Lawful(s.said, s.sourceFormat) /\ Common(s)
  BY DEF ResponsesInv, ResponsesHalf, Common
<1>2. /\ Closable(s.said, q) /\ StopsOf(e, q)
      /\ Range(q) = Opened(s.said) \ Shut(s.said)
      /\ Shut(s.said) \subseteq Opened(s.said)
  <2>1. /\ q \in Seq(Nat) /\ \A i, j \in DOMAIN q : q[i] = q[j] => i = j
        /\ Range(q) = Opened(s.said) \ Shut(s.said)
    BY <1>1 DEF ResponsesHalf
  <2>2. StopsOf(e, q)
    BY <2>1, StopsAre
  <2> HIDE DEF q, e
  <2> QED
    BY <1>1, <2>1, <2>2, LawfulFacts DEF Closable, Range
<1>3. x.ev = "message_delta" /\ y.ev = "message_stop"
  BY DEF Responses!Ending, Responses!Named
<1>4. t = Responses!Say(r, e \o <<x, y>>)
  BY DEF Responses!ClaudeTerminal
<1> HIDE DEF q, e, x, y
<1>5. /\ DOMAIN r = ResponsesFields /\ r.said = s.said /\ r.openBlocks = <<>>
      /\ p.said = s.said \o e /\ p.openBlocks = <<>>
      /\ SameCall(p, s) /\ p.text = s.text
  BY <1>1 DEF SameCall, ResponsesHalf, ResponsesFields, BaseFields, Responses!Say
<1>b. p = Responses!Say(r, e)
  OBVIOUS
<1> HIDE DEF p, r, t
<1>6. /\ Lawful(p.said, s.sourceFormat) /\ Opened(p.said) = Opened(s.said)
      /\ Tooled(p.said) = Tooled(s.said) /\ Shut(p.said) = Opened(s.said)
  <2>1. /\ Lawful(s.said \o e, s.sourceFormat) /\ Opened(s.said \o e) = Opened(s.said)
        /\ Tooled(s.said \o e) = Tooled(s.said)
        /\ Shut(s.said \o e) = Shut(s.said) \union Range(q)
    BY <1>1, <1>2, StopsTold
  <2> QED
    BY <1>2, <1>5, <2>1
<1>7. ResponsesHalf(p, {})
  <2>1. Common(p)
    BY <1>1, <1>5, <1>6 DEF Common, SameCall
  <2>2. p.openBlocks \in Seq(Nat) /\ DOMAIN p.openBlocks = {} /\ Range(p.openBlocks) = {}
    BY <1>5 DEF Range
  <2> QED
    BY <1>1, <1>5, <1>6, <2>1, <2>2 DEF ResponsesHalf, SameCall
<1>8. t = Responses!Say(p, <<x, y>>)
  <2>1. IsASequence(e)
    BY <1>2 DEF StopsOf
  <2>2. s.said \o (e \o <<x, y>>) = (s.said \o e) \o <<x, y>>
    <3> DEFINE w == s.said
    <3>1. IsASequence(w)
      BY <1>1, LawfulFacts
    <3> HIDE DEF w
    <3>2. w \o (e \o <<x, y>>) = (w \o e) \o <<x, y>>
      BY <2>1, <3>1, PairLater
    <3> QED
      BY <3>2 DEF w
  <2> DEFINE A == s.said \o e
             B == A \o <<x, y>>
  <2>3. t = [r EXCEPT !.said = B]
    BY <1>4, <1>5, <2>2 DEF Responses!Say
  <2>4. p = [r EXCEPT !.said = A]
    BY <1>b, <1>5 DEF Responses!Say
  <2>5. Responses!Say(p, <<x, y>>) = [p EXCEPT !.said = B]
    BY <1>5 DEF Responses!Say
  <2> HIDE DEF A, B, p, r, t
  <2>6. [p EXCEPT !.said = B] = [r EXCEPT !.said = B]
    <3> DEFINE P == [p EXCEPT !.said = B]
               R == [r EXCEPT !.said = B]
    <3>1. DOMAIN P = DOMAIN r /\ DOMAIN R = DOMAIN r /\ \A f \in DOMAIN r : P[f] = R[f]
      BY <2>4
    <3>2. P = [f \in DOMAIN P |-> P[f]] /\ R = [f \in DOMAIN R |-> R[f]]
      OBVIOUS
    <3> HIDE DEF P, R
    <3>3. P = R
      BY <3>1, <3>2
    <3> QED
      BY <3>3 DEF P, R
  <2> QED
    BY <2>3, <2>5, <2>6
<1>9. ResponsesInv(t)
  <2>1. IsASequence(p.said) /\ "said" \in DOMAIN p
    BY <1>5, <1>6, LawfulFacts DEF SameCall, ResponsesFields, BaseFields
  <2> HIDE DEF p, t
  <2>2. t = Responses!Say(Responses!Say(p, <<x>>), <<y>>)
    BY <1>8, <2>1, SayTwice
  <2>3. ResponsesHalf(Responses!Say(p, <<x>>), {})
    BY <1>3, <1>7, ResponsesNamed
  <2>4. ResponsesHalf(Responses!Say(Responses!Say(p, <<x>>), <<y>>), {})
    BY <1>3, <2>3, ResponsesNamed
  <2> QED
    BY <2>2, <2>4 DEF ResponsesInv
<1> QED
  BY <1>9 DEF t

(* One event of the upstream, for the two formats it is converted to.      *)
LEMMA ResponsesConverts ==
  ASSUME NEW s, ResponsesInv(s), s.sourceFormat # "openai-response", ~s.done,
         NEW l, Responses!IsLine(l)
  PROVE  ResponsesInv(Responses!ConvertEvent(s, l))
<1> DEFINE t == Responses!ConvertEvent(s, l)
<1>1. ResponsesHalf(s, {}) /\ s.sourceFormat \in {"openai", "claude"} /\ Common(s)
  BY DEF ResponsesInv, ResponsesHalf, Common, Formats
<1>2. CASE l.kind = "created"
  <2> DEFINE x == Responses!Named(IF s.sourceFormat = "openai" THEN "role" ELSE "message_start")
  <2>1. t = Responses!Say(s, <<x>>)
    BY <1>2 DEF Responses!ConvertEvent
  <2>2. x.ev \notin {"start", "stop", "delta"}
    BY DEF Responses!Named
  <2> HIDE DEF x
  <2> QED
    BY <1>1, <2>1, <2>2, ResponsesNamed DEF ResponsesInv
<1>3. CASE l.kind = "text"
  <2>1. t = Responses!TextDelta(s)
    BY <1>3 DEF Responses!ConvertEvent
  <2>2. CASE s.sourceFormat = "openai"
    <3> DEFINE x == Responses!Named("content")
    <3>1. t = Responses!Say(s, <<x>>)
      BY <2>1, <2>2 DEF Responses!TextDelta
    <3>2. x.ev \notin {"start", "stop", "delta"}
      BY DEF Responses!Named
    <3> HIDE DEF x
    <3> QED
      BY <1>1, <3>1, <3>2, ResponsesNamed DEF ResponsesInv
  <2>3. CASE s.sourceFormat = "claude"
    <3>1. t = Responses!ClaudeText(s)
      BY <2>1, <2>3 DEF Responses!TextDelta
    <3> QED
      BY <2>3, <3>1, ResponsesText
  <2> QED
    BY <1>1, <2>2, <2>3
<1>4. CASE l.kind = "item"
  <2> DEFINE k == Responses!Track(s, l.callID, l.itemID)
             deliver == l.args # "none" /\ k.block \notin s.delivered
             n == IF deliver THEN 1 ELSE 0
             D == IF deliver THEN k.s.delivered \union {k.block} ELSE k.s.delivered
             d == [k EXCEPT !.s.delivered = D, !.s.toolCallsSeen = TRUE]
  <2>1. t = Responses!Announce([k EXCEPT !.s.delivered =
                                     IF deliver THEN @ \union {k.block} ELSE @,
                                   !.s.toolCallsSeen = TRUE], n)
    BY <1>4 DEF Responses!ConvertEvent, Responses!OutputItem
  <2>2. Tracked(k)
    BY TrackFinds
  <2>3. D = k.s.delivered \/ D = k.s.delivered \union {k.block}
    OBVIOUS
  <2>4. n \in 0..1
    OBVIOUS
  <2> HIDE DEF k, deliver, n
  <2>5. t = Responses!Announce(d, n)
    BY <2>1
  <2> HIDE DEF D
  <2>6. Tracked(d)
    BY <2>2, <2>3, Delivers
  <2> HIDE DEF d
  <2> QED
    BY <2>4, <2>5, <2>6, AnnouncedIs
<1>5. CASE l.kind = "args"
  <2> DEFINE k == Responses!Track(s, l.itemID, "")
             D == k.s.delivered \union {k.block}
             seen == s.toolCallsSeen \/ s.sourceFormat = "openai"
             d == [k EXCEPT !.s.delivered = D, !.s.toolCallsSeen = seen]
  <2>1. t = Responses!Announce([k EXCEPT !.s.delivered = @ \union {k.block},
                                          !.s.toolCallsSeen = seen], 1)
    BY <1>5 DEF Responses!ConvertEvent, Responses!ArgsFragment
  <2>2. Tracked(k)
    BY TrackFinds
  <2> HIDE DEF k, seen
  <2>3. t = Responses!Announce(d, 1)
    BY <2>1
  <2>4. Tracked(d)
    BY <2>2, Delivers
  <2> HIDE DEF d
  <2> QED
    BY <2>3, <2>4, AnnouncedIs
<1>6. CASE l.kind \in {"completed", "incomplete"}
  <2> DEFINE r == [s EXCEPT !.done = TRUE]
             reason == Responses!TerminalReason(r.toolCallsSeen, Responses!ReasonOf(l.kind))
             x == Responses!Ending("finish", reason)
  <2>1. t = IF r.sourceFormat = "openai" THEN Responses!Say(r, <<x>>)
            ELSE Responses!ClaudeTerminal(r, reason)
    BY <1>6 DEF Responses!ConvertEvent, Responses!TerminalEvent
  <2>2. x.ev \notin {"start", "stop", "delta"}
    BY DEF Responses!Ending
  <2>3. ResponsesHalf(r, {}) /\ r.done /\ r.sourceFormat = s.sourceFormat
    <3>1. /\ DOMAIN r = ResponsesFields /\ r.done
          /\ r.sourceFormat = s.sourceFormat /\ r.next = s.next /\ r.said = s.said
          /\ r.progress \in Nat
          /\ {r.started, r.finished, r.terminalSeen, r.done, r.failed} \subseteq BOOLEAN
          /\ r.calls = s.calls /\ r.delivered = s.delivered /\ r.openBlocks = s.openBlocks
          /\ r.text = s.text
      BY <1>1 DEF ResponsesHalf, Common, ResponsesFields, BaseFields
    <3> HIDE DEF r
    <3> QED
      BY <1>1, <3>1, ResponsesFlags
  <2> HIDE DEF r, reason, x
  <2>4. CASE s.sourceFormat = "openai"
    BY <2>1, <2>2, <2>3, <2>4, ResponsesNamed DEF ResponsesInv
  <2>5. CASE s.sourceFormat = "claude"
    BY <2>1, <2>3, <2>5, ResponsesClaudeTerminal DEF ResponsesInv
  <2> QED
    BY <1>1, <2>4, <2>5
<1>7. CASE l.kind \in {"failed", "part", "other"}
  <2>1. t = IF l.kind = "failed" THEN Responses!Fail(s) ELSE s
    BY <1>7 DEF Responses!ConvertEvent
  <2>2. ResponsesInv(Responses!Fail(s))
    <3> DEFINE r == [s EXCEPT !.failed = TRUE]
    <3>1. /\ DOMAIN r = ResponsesFields /\ r.done = s.done
          /\ r.sourceFormat = s.sourceFormat /\ r.next = s.next /\ r.said = s.said
          /\ r.progress \in Nat
          /\ {r.started, r.finished, r.terminalSeen, r.done, r.failed} \subseteq BOOLEAN
          /\ r.calls = s.calls /\ r.delivered = s.delivered /\ r.openBlocks = s.openBlocks
          /\ r.text = s.text
      BY <1>1 DEF ResponsesHalf, Common, ResponsesFields, BaseFields
    <3> HIDE DEF r
    <3>2. ResponsesInv(r)
      BY <1>1, <3>1, ResponsesFlags DEF ResponsesInv
    <3> QED
      BY <3>2 DEF Responses!Fail, r
  <2> QED
    BY <2>1, <2>2
<1> QED
  BY <1>2, <1>3, <1>4, <1>5, <1>6, <1>7 DEF Responses!IsLine

(* A frame's progress, and how an error is noted, change nothing but flags. *)
LEMMA ResponsesObserves ==
  ASSUME NEW s, ResponsesInv(s), NEW l, Responses!IsLine(l)
  PROVE  /\ ResponsesInv(Responses!ObserveFrame(s, l))
         /\ Responses!ObserveFrame(s, l).done = s.done
<1> DEFINE t == Responses!ObserveFrame(s, l)
           seen == IF l.kind = "item" THEN l.call ELSE Responses!Closed
<1>1. ResponsesHalf(s, {}) /\ Common(s) /\ DOMAIN s = ResponsesFields
  BY DEF ResponsesInv, ResponsesHalf, Common
<1>2. s.progress \in Nat /\ s.progress + 1 \in Nat /\ (s.progress + 1) + 1 \in Nat
      /\ {s.started, s.finished, s.terminalSeen, s.done, s.failed} \subseteq BOOLEAN
  BY <1>1 DEF Common
<1> DEFINE Like(u) ==
      /\ DOMAIN u = ResponsesFields
      /\ u.sourceFormat = s.sourceFormat /\ u.next = s.next /\ u.said = s.said
      /\ u.progress \in Nat
      /\ {u.started, u.finished, u.terminalSeen, u.done, u.failed} \subseteq BOOLEAN
      /\ u.calls = s.calls /\ u.delivered = s.delivered /\ u.openBlocks = s.openBlocks
      /\ u.text = s.text /\ u.done = s.done
<1>3. Like(t)
  <2>1. CASE l.kind = "created"
    <3>1. t = IF s.started THEN s
              ELSE [[s EXCEPT !.started = TRUE] EXCEPT !.progress = @ + 1]
      BY <2>1 DEF Responses!ObserveFrame, Responses!StateStart, Responses!Advance,
                  Responses!HasContent
    <3> QED
      BY <1>1, <1>2, <3>1 DEF ResponsesFields, BaseFields
  <2>2. CASE l.kind \in {"text", "args"}
    <3>1. t = [s EXCEPT !.progress = @ + 1]
      BY <2>2 DEF Responses!ObserveFrame, Responses!HasContent, Responses!Advance
    <3> QED
      BY <1>1, <1>2, <3>1 DEF ResponsesFields, BaseFields
  <2>3. CASE l.kind = "part" \/ (l.kind = "item" /\ ~l.done)
    <3>1. t = IF seen \notin s.seenItems
              THEN [[s EXCEPT !.seenItems = @ \union {seen}] EXCEPT !.progress = @ + 1]
              ELSE [s EXCEPT !.seenItems = @ \union {seen}]
      BY <2>3 DEF Responses!ObserveFrame, Responses!HasContent, Responses!Advance,
                  Responses!AdvanceIf
    <3> HIDE DEF t, seen
    <3> QED
      BY <1>1, <1>2, <3>1 DEF ResponsesFields, BaseFields
  <2>4. CASE l.kind \in {"completed", "incomplete"}
    <3>1. t = [[[s EXCEPT !.progress = @ + 1] EXCEPT !.terminalSeen = TRUE]
                 EXCEPT !.progress = @ + 1]
      BY <2>4 DEF Responses!ObserveFrame, Responses!HasContent, Responses!Advance,
                  Responses!Terminal
    <3> HIDE DEF t
    <3> QED
      BY <1>1, <1>2, <3>1 DEF ResponsesFields, BaseFields
  <2>5. CASE l.kind \in {"failed", "other"} \/ (l.kind = "item" /\ l.done)
    <3>1. t = s
      BY <2>5 DEF Responses!ObserveFrame, Responses!HasContent
    <3> QED
      BY <1>1, <1>2, <3>1
  <2> QED
    BY <2>1, <2>2, <2>3, <2>4, <2>5 DEF Responses!IsLine
<1> HIDE DEF t
<1>4. ResponsesHalf(t, {})
  BY <1>1, <1>3, ResponsesFlags
<1> QED
  BY <1>3, <1>4 DEF ResponsesInv, t

(* An error changes no block.                                              *)
LEMMA ResponsesFails ==
  ASSUME NEW s, ResponsesInv(s)
  PROVE  ResponsesInv(Responses!Fail(s)) /\ Responses!Fail(s).failed
         /\ Responses!Fail(s).done = s.done
<1> DEFINE r == [s EXCEPT !.failed = TRUE]
<1>1. ResponsesHalf(s, {}) /\ Common(s)
  BY DEF ResponsesInv, ResponsesHalf
<1>2. /\ DOMAIN r = ResponsesFields /\ r.done = s.done /\ r.failed
      /\ r.sourceFormat = s.sourceFormat /\ r.next = s.next /\ r.said = s.said
      /\ r.progress \in Nat
      /\ {r.started, r.finished, r.terminalSeen, r.done, r.failed} \subseteq BOOLEAN
      /\ r.calls = s.calls /\ r.delivered = s.delivered /\ r.openBlocks = s.openBlocks
      /\ r.text = s.text
  BY <1>1 DEF ResponsesHalf, Common, ResponsesFields, BaseFields
<1> HIDE DEF r
<1>3. ResponsesInv(r)
  BY <1>1, <1>2, ResponsesFlags DEF ResponsesInv
<1> QED
  BY <1>2, <1>3 DEF Responses!Fail, r

(* The converter's calls.                                                  *)
LEMMA ResponsesPasses ==
  ASSUME NEW s, ResponsesInv(s), ~s.done, NEW l
  PROVE  ResponsesInv(Responses!PassthroughEvent(s, l))
<1> DEFINE r == [s EXCEPT !.done = (l.kind \in {"completed", "incomplete"})]
           x == Responses!Named("raw")
           d == Responses!PassthroughEvent(s, l)
<1>1. d = IF l.kind = "failed" THEN Responses!Fail(s) ELSE Responses!Say(r, <<x>>)
  BY DEF Responses!PassthroughEvent
<1>2. x.ev \notin {"start", "stop", "delta"}
  BY DEF Responses!Named
<1>3. ResponsesHalf(s, {}) /\ Common(s)
  BY DEF ResponsesInv, ResponsesHalf
<1>4. /\ DOMAIN r = ResponsesFields
      /\ r.sourceFormat = s.sourceFormat /\ r.next = s.next /\ r.said = s.said
      /\ r.progress \in Nat
      /\ {r.started, r.finished, r.terminalSeen, r.done, r.failed} \subseteq BOOLEAN
      /\ r.calls = s.calls /\ r.delivered = s.delivered /\ r.openBlocks = s.openBlocks
      /\ r.text = s.text
  BY <1>3 DEF ResponsesHalf, Common, ResponsesFields, BaseFields
<1> HIDE DEF r, x, d
<1>5. ResponsesHalf(r, {})
  BY <1>3, <1>4, ResponsesFlags
<1>6. ResponsesInv(d)
  BY <1>1, <1>2, <1>5, ResponsesFails, ResponsesNamed DEF ResponsesInv
<1> QED
  BY <1>6 DEF d

(* A frame of a Responses upstream.                                        *)
LEMMA ResponsesHandles ==
  ASSUME NEW s, ResponsesInv(s), ~s.done, NEW l, Responses!IsLine(l)
  PROVE  ResponsesInv(Responses!HandleLine(s, l))
<1> DEFINE d == IF s.sourceFormat = "openai-response" THEN Responses!PassthroughEvent(s, l)
                ELSE Responses!ConvertEvent(s, l)
<1>1. Responses!HandleLine(s, l) = IF d.failed THEN d ELSE Responses!ObserveFrame(d, l)
  BY DEF Responses!HandleLine
<1>2. ResponsesInv(d)
  BY ResponsesConverts, ResponsesPasses
<1> HIDE DEF d
<1> QED
  BY <1>1, <1>2, ResponsesObserves

(* The end of the upstream stream, and that of the finish grace.           *)
LEMMA ResponsesEnds ==
  ASSUME NEW s, ResponsesInv(s)
  PROVE  ResponsesInv(Responses!FinalizeStream(s)) /\ ResponsesInv(Responses!FlushWithError(s))
BY ResponsesFails DEF Responses!FinalizeStream, Responses!FlushWithError

(* A client that was told nothing was told it lawfully.                    *)
LEMMA NothingSaid ==
  ASSUME NEW format
  PROVE  /\ Lawful(<<>>, format) /\ Opened(<<>>) = {} /\ Tooled(<<>>) = {} /\ Shut(<<>>) = {}
<1>1. <<>> \in Seq({})
  OBVIOUS
<1>2. IsASequence(<<>>)
  BY <1>1 DEF IsASequence
<1> QED
  BY <1>2 DEF Lawful, Opened, Tooled, Shut

(* newStreamConverter of the Responses adapter.                            *)
LEMMA ResponsesStarts ==
  ASSUME NEW f \in Formats
  PROVE  ResponsesInv(Responses!Fresh(f)) /\ ~Responses!Fresh(f).done
<1> DEFINE s == Responses!Fresh(f)
<1>1. /\ DOMAIN s = ResponsesFields
      /\ s.sourceFormat = f /\ s.next = 0 /\ s.progress = 0
      /\ s.started = FALSE /\ s.finished = FALSE /\ s.terminalSeen = FALSE
      /\ s.done = FALSE /\ s.failed = FALSE /\ s.said = <<>>
      /\ s.calls = <<>> /\ s.delivered = {} /\ s.text = Closed /\ s.openBlocks = <<>>
  BY DEF Responses!Fresh, Responses!With, Responses!Base, ResponsesFields, BaseFields,
         Responses!Closed, Closed
<1> HIDE DEF s
<1>2. /\ Lawful(<<>>, s.sourceFormat) /\ Opened(<<>>) = {} /\ Tooled(<<>>) = {}
      /\ Shut(<<>>) = {}
  BY NothingSaid
<1>3. Common(s)
  <2>1. Lawful(s.said, s.sourceFormat) /\ Opened(s.said) = {}
    BY <1>1, <1>2
  <2>2. s.sourceFormat \in Formats /\ s.next \in Nat /\ s.progress \in Nat
    BY <1>1
  <2> QED
    BY <1>1, <2>1, <2>2 DEF Common
<1>4. /\ s.openBlocks \in Seq(Nat) /\ DOMAIN s.openBlocks = {} /\ Range(s.openBlocks) = {}
      /\ DOMAIN s.calls = {}
  BY <1>1 DEF Range
<1>5. ResponsesHalf(s, {})
  BY <1>1, <1>2, <1>3, <1>4 DEF ResponsesHalf
<1> QED
  BY <1>1, <1>5 DEF ResponsesInv, s
-----------------------------------------------------------------------------
(* The Messages converter.                                                 *)

MessagesFields ==
  BaseFields \union {"typed", "blocks", "next", "message", "role", "stop", "emitted",
                     "flushed", "seenStarts", "usage"}

MessagesTyped(s) ==
  /\ DOMAIN s = MessagesFields
  /\ s.message \in Closed..(s.next - 1)
  /\ s.stop \in {"none", "end", "length"}
  /\ s.usage \in Nat
  /\ {s.typed, s.role, s.emitted, s.flushed} \subseteq BOOLEAN
  /\ \A i \in DOMAIN s.blocks : s.blocks[i] \in Messages!Block

(* An openai client is told of a call with its first delta, of which new   *)
(* are still to come; an openai-response client at its start.              *)
ToolEntries(s, new) ==
  /\ \A i \in DOMAIN s.blocks : s.blocks[i].type = "tool_use" =>
       /\ s.blocks[i].block \in 0..(s.next - 1)
       /\ s.blocks[i].emitted <=> s.blocks[i].block \in Opened(s.said) \union new
  /\ \A i, j \in DOMAIN s.blocks :
       s.blocks[i].type = "tool_use" /\ s.blocks[j].type = "tool_use"
         /\ s.blocks[i].block = s.blocks[j].block => i = j

MessageItems(s) ==
  /\ \A i \in DOMAIN s.blocks :
       s.blocks[i].type = "tool_use" => s.blocks[i].block \in Opened(s.said)
  /\ s.message # Closed => s.message \in Opened(s.said)

MessagesHalf(s, new) ==
  /\ Common(s)
  /\ Shut(s.said) = {}
  /\ MessagesTyped(s)
  /\ s.sourceFormat = "openai" => ToolEntries(s, new)
  /\ s.sourceFormat = "openai-response" => MessageItems(s)

MessagesInv(s) == MessagesHalf(s, {})

(* What a step that says nothing and touches no block may do.              *)
MessagesLike(t, s) ==
  /\ DOMAIN t = MessagesFields
  /\ t.sourceFormat = s.sourceFormat /\ t.next \in Nat /\ s.next <= t.next /\ t.said = s.said
  /\ t.blocks = s.blocks /\ t.message = s.message
  /\ t.progress \in Nat
  /\ {t.started, t.finished, t.terminalSeen, t.done, t.failed} \subseteq BOOLEAN
  /\ t.stop \in {"none", "end", "length"}
  /\ t.usage \in Nat
  /\ {t.typed, t.role, t.emitted, t.flushed} \subseteq BOOLEAN

(* A step that only counts progress and sets flags of the Messages         *)
(* converter keeps its invariant.                                          *)
LEMMA MessagesFlags ==
  ASSUME NEW s, NEW new, MessagesHalf(s, new), NEW t, MessagesLike(t, s)
  PROVE  MessagesHalf(t, new)
<1>0. s.next \in Nat /\ t.next \in Nat /\ s.next <= t.next
  BY DEF MessagesHalf, MessagesLike, Common
<1>1. Common(t)
  <2>1. Opened(t.said) \subseteq 0..(t.next - 1)
    BY <1>0 DEF MessagesHalf, MessagesLike, Common
  <2> QED
    BY <2>1 DEF MessagesHalf, MessagesLike, Common
<1>2. MessagesTyped(t)
  <2>1. t.message \in Closed..(t.next - 1)
    BY <1>0 DEF MessagesHalf, MessagesLike, MessagesTyped, Closed
  <2> QED
    BY <2>1 DEF MessagesHalf, MessagesLike, MessagesTyped
<1>3. t.sourceFormat = "openai" => ToolEntries(t, new)
  BY <1>0 DEF MessagesHalf, MessagesLike, ToolEntries
<1>4. t.sourceFormat = "openai-response" => MessageItems(t)
  BY DEF MessagesHalf, MessagesLike, MessageItems
<1> QED
  BY <1>1, <1>2, <1>3, <1>4 DEF MessagesHalf, MessagesLike

(* An event that opens and closes nothing, and is of an open block if it   *)
(* is a delta, keeps it too.                                               *)
LEMMA MessagesSays ==
  ASSUME NEW s, NEW new, MessagesHalf(s, new), NEW x,
         x.ev \notin {"start", "stop"},
         x.ev = "delta" => x.block \in Opened(s.said)
  PROVE  /\ MessagesHalf(Messages!Say(s, <<x>>), new)
         /\ Opened(Messages!Say(s, <<x>>).said) = Opened(s.said)
         /\ Messages!Say(s, <<x>>).next = s.next
         /\ Messages!Say(s, <<x>>).sourceFormat = s.sourceFormat
         /\ Messages!Say(s, <<x>>).blocks = s.blocks
<1> DEFINE t == Messages!Say(s, <<x>>)
<1>1. /\ DOMAIN t = MessagesFields /\ t.said = s.said \o <<x>>
      /\ t.sourceFormat = s.sourceFormat /\ t.next = s.next /\ t.progress = s.progress
      /\ t.started = s.started /\ t.finished = s.finished /\ t.terminalSeen = s.terminalSeen
      /\ t.done = s.done /\ t.failed = s.failed /\ t.blocks = s.blocks
      /\ t.message = s.message /\ t.role = s.role /\ t.stop = s.stop /\ t.typed = s.typed
      /\ t.emitted = s.emitted /\ t.flushed = s.flushed /\ t.usage = s.usage
  BY DEF MessagesHalf, MessagesTyped, MessagesFields, BaseFields, Messages!Say
<1> HIDE DEF t
<1>2. Lawful(s.said, s.sourceFormat) /\ Shut(s.said) = {}
  BY DEF MessagesHalf, Common
<1>3. MayTell(s.said, s.sourceFormat, x)
  BY <1>2 DEF MayTell
<1>4. /\ Lawful(s.said \o <<x>>, s.sourceFormat)
      /\ Opened(s.said \o <<x>>) = Opened(s.said)
      /\ Shut(s.said \o <<x>>) = Shut(s.said)
  BY <1>2, <1>3, Tells
<1>5. Lawful(t.said, t.sourceFormat) /\ Opened(t.said) = Opened(s.said) /\ Shut(t.said) = {}
  BY <1>1, <1>2, <1>4
<1>6. Common(t)
  BY <1>1, <1>5 DEF MessagesHalf, Common
<1>7. MessagesTyped(t)
  BY <1>1 DEF MessagesHalf, MessagesTyped
<1>8. t.sourceFormat = "openai" => ToolEntries(t, new)
  BY <1>1, <1>5 DEF MessagesHalf, ToolEntries
<1>9. t.sourceFormat = "openai-response" => MessageItems(t)
  BY <1>1, <1>5 DEF MessagesHalf, MessageItems
<1>10. MessagesHalf(t, new)
  BY <1>5, <1>6, <1>7, <1>8, <1>9 DEF MessagesHalf
<1> QED
  BY <1>1, <1>5, <1>10 DEF t

(* An entry is opened.                                                     *)
LEMMA MessagesOpens ==
  ASSUME NEW s, NEW b, MessagesHalf(s, {b}), s.sourceFormat = "openai",
         b \in 0..(s.next - 1), b \notin Opened(s.said), NEW kind
  PROVE  /\ MessagesInv(Messages!Say(s, <<Messages!Start(b, kind)>>))
         /\ b \in Opened(Messages!Say(s, <<Messages!Start(b, kind)>>).said)
<1> DEFINE x == Messages!Start(b, kind)
           t == Messages!Say(s, <<x>>)
<1>1. /\ DOMAIN t = MessagesFields /\ t.said = s.said \o <<x>>
      /\ t.sourceFormat = s.sourceFormat /\ t.next = s.next /\ t.progress = s.progress
      /\ t.started = s.started /\ t.finished = s.finished /\ t.terminalSeen = s.terminalSeen
      /\ t.done = s.done /\ t.failed = s.failed /\ t.blocks = s.blocks
      /\ t.message = s.message /\ t.role = s.role /\ t.stop = s.stop /\ t.typed = s.typed
      /\ t.emitted = s.emitted /\ t.flushed = s.flushed /\ t.usage = s.usage
  BY DEF MessagesHalf, MessagesTyped, MessagesFields, BaseFields, Messages!Say
<1>a. x.ev = "start" /\ x.block = b
  BY DEF Messages!Start
<1> HIDE DEF t, x
<1>2. Lawful(s.said, s.sourceFormat) /\ Shut(s.said) = {}
  BY DEF MessagesHalf, Common
<1>3. MayTell(s.said, s.sourceFormat, x)
  BY <1>a, <1>2 DEF MayTell
<1>4. /\ Lawful(s.said \o <<x>>, s.sourceFormat)
      /\ Opened(s.said \o <<x>>) = Opened(s.said) \union {b}
      /\ Shut(s.said \o <<x>>) = Shut(s.said)
  BY <1>a, <1>2, <1>3, Tells
<1>5. /\ Lawful(t.said, t.sourceFormat) /\ Opened(t.said) = Opened(s.said) \union {b}
      /\ Shut(t.said) = {}
  BY <1>1, <1>2, <1>4
<1>6. Common(t)
  BY <1>1, <1>5 DEF MessagesHalf, Common
<1>7. MessagesTyped(t)
  BY <1>1 DEF MessagesHalf, MessagesTyped
<1>8. ToolEntries(t, {})
  BY <1>1, <1>5 DEF MessagesHalf, ToolEntries
<1>9. MessagesInv(t)
  BY <1>1, <1>5, <1>6, <1>7, <1>8 DEF MessagesHalf, MessagesInv
<1> QED
  BY <1>5, <1>9 DEF t, x

(* A block's record is put in place.                                       *)
LEMMA MessagesPuts ==
  ASSUME NEW s, MessagesInv(s), NEW i, NEW b \in Messages!Block,
         s.sourceFormat = "openai" /\ b.type = "tool_use" =>
           /\ b.block \in 0..(s.next - 1) /\ b.block \notin Opened(s.said) /\ ~b.emitted
           /\ \A j \in DOMAIN s.blocks :
                s.blocks[j].type = "tool_use" => s.blocks[j].block # b.block,
         s.sourceFormat = "openai-response" /\ b.type = "tool_use" => b.block \in Opened(s.said)
  PROVE  MessagesInv(Messages!WithBlock(s, i, b))
<1> DEFINE t == Messages!WithBlock(s, i, b)
           B == [j \in DOMAIN s.blocks \union {i} |-> IF j = i THEN b ELSE s.blocks[j]]
<1>0. MessagesHalf(s, {})
  BY DEF MessagesInv
<1>1. /\ DOMAIN t = MessagesFields /\ t.said = s.said /\ t.blocks = B
      /\ t.sourceFormat = s.sourceFormat /\ t.next = s.next /\ t.progress = s.progress
      /\ t.started = s.started /\ t.finished = s.finished /\ t.terminalSeen = s.terminalSeen
      /\ t.done = s.done /\ t.failed = s.failed
      /\ t.message = s.message /\ t.role = s.role /\ t.stop = s.stop /\ t.typed = s.typed
      /\ t.emitted = s.emitted /\ t.flushed = s.flushed /\ t.usage = s.usage
  <2> HIDE DEF B
  <2>1. t = [s EXCEPT !.blocks = B]
    BY DEF Messages!WithBlock, B
  <2> QED
    BY <1>0, <2>1 DEF MessagesHalf, MessagesTyped, MessagesFields, BaseFields
<1>2. /\ DOMAIN B = DOMAIN s.blocks \union {i} /\ B[i] = b
      /\ \A j \in DOMAIN s.blocks : j # i => B[j] = s.blocks[j]
  OBVIOUS
<1> HIDE DEF t, B
<1>3. Common(t) /\ Shut(t.said) = {}
  BY <1>0, <1>1 DEF MessagesHalf, Common
<1>4. MessagesTyped(t)
  BY <1>0, <1>1, <1>2 DEF MessagesHalf, MessagesTyped
<1>5. t.sourceFormat = "openai" => ToolEntries(t, {})
  BY <1>0, <1>1, <1>2 DEF MessagesHalf, ToolEntries
<1>6. t.sourceFormat = "openai-response" => MessageItems(t)
  BY <1>0, <1>1, <1>2 DEF MessagesHalf, MessageItems
<1>7. MessagesInv(t)
  BY <1>3, <1>4, <1>5, <1>6 DEF MessagesHalf, MessagesInv
<1> QED
  BY <1>7 DEF t

(* An error changes no block.                                              *)
LEMMA MessagesFails ==
  ASSUME NEW s, MessagesInv(s)
  PROVE  MessagesInv(Messages!Fail(s)) /\ Messages!Fail(s).failed
<1> DEFINE r == [s EXCEPT !.failed = TRUE]
<1>1. MessagesHalf(s, {}) /\ s.next \in Nat
  BY DEF MessagesInv, MessagesHalf, Common
<1>2. MessagesLike(r, s) /\ r.failed
  BY <1>1 DEF MessagesHalf, Common, MessagesTyped, MessagesFields, BaseFields, MessagesLike
<1> HIDE DEF r
<1>3. MessagesInv(r)
  BY <1>1, <1>2, MessagesFlags DEF MessagesInv
<1> QED
  BY <1>2, <1>3 DEF Messages!Fail, r

(* emitRole *)
LEMMA MessagesRole ==
  ASSUME NEW s, NEW new, MessagesHalf(s, new), NEW t, t = Messages!EmitRole(s)
  PROVE  /\ MessagesHalf(t, new) /\ Opened(t.said) = Opened(s.said)
         /\ t.next = s.next /\ t.sourceFormat = s.sourceFormat /\ t.blocks = s.blocks
<1> DEFINE r == [s EXCEPT !.role = TRUE]
           x == Messages!Named("role")
<1>1. CASE s.role
  BY <1>1 DEF Messages!EmitRole
<1>2. CASE ~s.role
  <2>1. t = Messages!Say(r, <<x>>)
    BY <1>2 DEF Messages!EmitRole
  <2>2. MessagesLike(r, s) /\ r.next = s.next
    BY DEF MessagesHalf, Common, MessagesTyped, MessagesFields, BaseFields, MessagesLike
  <2>3. x.ev \notin {"start", "stop", "delta"}
    BY DEF Messages!Named
  <2> HIDE DEF r, x
  <2>4. MessagesHalf(r, new)
    BY <2>2, MessagesFlags
  <2>5. r.said = s.said /\ r.sourceFormat = s.sourceFormat /\ r.blocks = s.blocks
    BY <2>2 DEF MessagesLike
  <2> QED
    BY <2>1, <2>2, <2>3, <2>4, <2>5, MessagesSays
<1> QED
  BY <1>1, <1>2

(* The first delta of a tool's block is about to open its entry.           *)
Marked(s, i) == [s EXCEPT !.blocks[i].emitted = TRUE]

(* The mark is right as soon as the entry has been opened.                 *)
LEMMA MessagesMarks ==
  ASSUME NEW s, MessagesInv(s), s.sourceFormat = "openai", NEW i, Messages!IsTool(s, i),
         NEW t, t = Marked(s, i)
  PROVE  /\ MessagesHalf(t, {s.blocks[i].block})
         /\ t.said = s.said /\ t.sourceFormat = s.sourceFormat /\ t.next = s.next
<1> DEFINE B == [s.blocks EXCEPT ![i].emitted = TRUE]
           b == s.blocks[i]
<1>1. /\ MessagesHalf(s, {}) /\ MessagesTyped(s) /\ Common(s) /\ ToolEntries(s, {})
      /\ DOMAIN s = MessagesFields
  BY DEF MessagesInv, MessagesHalf, MessagesTyped
<1>2. i \in DOMAIN s.blocks /\ b.type = "tool_use" /\ b \in Messages!Block
  BY <1>1 DEF Messages!IsTool, MessagesTyped
<1>3. /\ DOMAIN B = DOMAIN s.blocks
      /\ \A j \in DOMAIN B : j # i => B[j] = s.blocks[j]
      /\ B[i] = [b EXCEPT !.emitted = TRUE]
  BY <1>2
<1>4. /\ B[i].type = b.type /\ B[i].block = b.block /\ B[i].emitted = TRUE
      /\ B[i] \in Messages!Block
  BY <1>2, <1>3 DEF Messages!Block
<1>5. t = [s EXCEPT !.blocks = B]
  BY <1>1 DEF MessagesFields, BaseFields, Marked
<1> HIDE DEF B
<1>6. /\ DOMAIN t = MessagesFields /\ t.said = s.said /\ t.blocks = B
      /\ t.sourceFormat = s.sourceFormat /\ t.next = s.next /\ t.progress = s.progress
      /\ t.started = s.started /\ t.finished = s.finished /\ t.terminalSeen = s.terminalSeen
      /\ t.done = s.done /\ t.failed = s.failed
      /\ t.message = s.message /\ t.role = s.role /\ t.stop = s.stop /\ t.typed = s.typed
      /\ t.emitted = s.emitted /\ t.flushed = s.flushed /\ t.usage = s.usage
  BY <1>1, <1>5 DEF MessagesFields, BaseFields
<1>7. Common(t) /\ Shut(t.said) = {}
  BY <1>1, <1>6 DEF MessagesHalf, Common
<1>8. MessagesTyped(t)
  BY <1>1, <1>3, <1>4, <1>6 DEF MessagesTyped
<1>9. \A j \in DOMAIN B : B[j].type = s.blocks[j].type /\ B[j].block = s.blocks[j].block
  BY <1>3, <1>4
<1>10. ToolEntries(t, {b.block})
  <2>1. ASSUME NEW j \in DOMAIN B, B[j].type = "tool_use"
        PROVE  /\ B[j].block \in 0..(s.next - 1)
               /\ B[j].emitted <=> B[j].block \in Opened(s.said) \union {b.block}
    <3>1. CASE j = i
      BY <1>1, <1>2, <1>4, <3>1 DEF ToolEntries
    <3>2. CASE j # i
      <4>1. B[j] = s.blocks[j] /\ j \in DOMAIN s.blocks
        BY <1>3, <3>2
      <4>2. s.blocks[j].block # b.block
        BY <1>1, <1>2, <2>1, <3>2, <4>1 DEF ToolEntries
      <4> QED
        BY <1>1, <2>1, <4>1, <4>2 DEF ToolEntries
    <3> QED
      BY <3>1, <3>2
  <2>2. \A j, k \in DOMAIN B : B[j].type = "tool_use" /\ B[k].type = "tool_use"
          /\ B[j].block = B[k].block => j = k
    BY <1>1, <1>3, <1>9 DEF ToolEntries
  <2>3. t.blocks = B /\ t.said = s.said /\ t.next = s.next
    BY <1>6
  <2> HIDE DEF b
  <2>4. \A j \in DOMAIN t.blocks : t.blocks[j].type = "tool_use" =>
          /\ t.blocks[j].block \in 0..(t.next - 1)
          /\ t.blocks[j].emitted <=> t.blocks[j].block \in Opened(t.said) \union {b.block}
    BY <2>1, <2>3
  <2>5. ASSUME NEW j \in DOMAIN t.blocks, NEW k \in DOMAIN t.blocks,
               t.blocks[j].type = "tool_use", t.blocks[k].type = "tool_use",
               t.blocks[j].block = t.blocks[k].block
        PROVE  j = k
    BY <2>2, <2>3, <2>5
  <2> QED
    BY <2>4, <2>5 DEF ToolEntries
<1> QED
  BY <1>6, <1>7, <1>8, <1>10 DEF MessagesHalf

(* An event is the same whichever module speaks of it.                     *)
LEMMA TwiceTold ==
  ASSUME NEW s, IsASequence(s.said), "said" \in DOMAIN s, NEW x, NEW y
  PROVE  Messages!Say(s, <<x, y>>) = Messages!Say(Messages!Say(s, <<x>>), <<y>>)
<1>1. \A r, e : Messages!Say(r, e) = Responses!Say(r, e)
  BY DEF Messages!Say, Responses!Say
<1> QED
  BY <1>1, SayTwice

(* A delta for an openai client: a tool's first one opens its entry, a     *)
(* later one does not.                                                     *)
LEMMA MessagesChatDelta ==
  ASSUME NEW s, MessagesInv(s), s.sourceFormat = "openai", NEW l, Messages!IsLine(l),
         l.kind = "block_delta"
  PROVE  MessagesInv(Messages!ChatDelta(s, l))
<1> DEFINE t == Messages!ChatDelta(s, l)
<1>1. l.type \in {"text", "tool_use", "thinking"}
  BY DEF Messages!IsLine, Messages!BlockKinds
<1>2. CASE l.type = "thinking"
  BY <1>2 DEF Messages!ChatDelta
<1>3. CASE l.type = "text"
  <2> DEFINE u == Messages!EmitRole(s)
             x == Messages!Named("content")
  <2>1. t = Messages!Say(u, <<x>>)
    BY <1>3 DEF Messages!ChatDelta
  <2>2. x.ev \notin {"start", "stop", "delta"}
    BY DEF Messages!Named
  <2>3. MessagesHalf(u, {})
    BY MessagesRole DEF MessagesInv
  <2> HIDE DEF u, x, t
  <2>4. MessagesInv(t)
    BY <2>1, <2>2, <2>3, MessagesSays DEF MessagesInv
  <2> QED
    BY <2>4 DEF t
<1>4. CASE l.type = "tool_use" /\ ~Messages!IsTool(s, l.index)
  BY <1>4, MessagesFails DEF Messages!ChatDelta
<1>5. CASE l.type = "tool_use" /\ Messages!IsTool(s, l.index)
  <2> DEFINE b == s.blocks[l.index]
             n == Messages!Parts(l)
             r == [s EXCEPT !.blocks[l.index].emitted = TRUE]
             u == Messages!EmitRole(r)
             x == Messages!Start(b.block, "tool")
             y == Messages!Delta(b.block, n)
  <2>1. t = Messages!Say(u, IF b.emitted THEN <<y>> ELSE Messages!Opening(b.block, n))
    BY <1>5 DEF Messages!ChatDelta
  <2>2. y.ev = "delta" /\ y.block = b.block
    BY DEF Messages!Delta
  <2>3. /\ MessagesHalf(r, {b.block})
        /\ r.said = s.said /\ r.sourceFormat = s.sourceFormat /\ r.next = s.next
    <3>1. r = Marked(s, l.index)
      BY DEF Marked
    <3> HIDE DEF r, b
    <3>2. MessagesHalf(r, {s.blocks[l.index].block})
      BY <1>5, <3>1, MessagesMarks
    <3>3. r.said = s.said /\ r.sourceFormat = s.sourceFormat /\ r.next = s.next
      BY <1>5, <3>1, MessagesMarks
    <3> QED
      BY <3>2, <3>3 DEF b
  <2>4. /\ b.block \in 0..(s.next - 1)
        /\ b.emitted <=> b.block \in Opened(s.said)
    BY <1>5 DEF MessagesInv, MessagesHalf, ToolEntries, Messages!IsTool
  <2>5. n \in {0, 1}
    BY DEF Messages!Parts
  <2>6. Messages!Opening(b.block, n) = IF n = 0 THEN <<x>> ELSE <<x, y>>
    BY DEF Messages!Opening
  <2> HIDE DEF b, n, r, y
  <2>7. /\ MessagesHalf(u, {b.block}) /\ Opened(u.said) = Opened(s.said)
        /\ u.next = s.next /\ u.sourceFormat = "openai"
    BY <2>3, MessagesRole
  <2> HIDE DEF u, t
  <2>8. ASSUME b.emitted PROVE MessagesInv(t)
    <3>1. MessagesHalf(u, {})
      BY <2>4, <2>7, <2>8 DEF MessagesHalf, ToolEntries
    <3>2. t = Messages!Say(u, <<y>>)
      BY <2>1, <2>8
    <3> QED
      BY <2>2, <2>4, <2>7, <2>8, <3>1, <3>2, MessagesSays DEF MessagesInv
  <2>9. ASSUME ~b.emitted PROVE MessagesInv(t)
    <3> DEFINE v == Messages!Say(u, <<x>>)
    <3>1. MessagesInv(v) /\ b.block \in Opened(v.said)
      BY <2>4, <2>7, <2>9, MessagesOpens
    <3>2. CASE n = 0
      BY <2>1, <2>6, <2>9, <3>1, <3>2
    <3>3. CASE n = 1
      <4>1. t = Messages!Say(u, <<x, y>>)
        BY <2>1, <2>6, <2>9, <3>3
      <4>2. IsASequence(u.said) /\ "said" \in DOMAIN u
        BY <2>7, LawfulFacts DEF MessagesHalf, Common, MessagesTyped, MessagesFields, BaseFields
      <4>3. t = Messages!Say(v, <<y>>)
        BY <4>1, <4>2, TwiceTold
      <4> HIDE DEF v
      <4>4. MessagesHalf(v, {})
        BY <3>1 DEF MessagesInv
      <4> QED
        BY <2>2, <3>1, <4>3, <4>4, MessagesSays DEF MessagesInv
    <3> QED
      BY <2>5, <3>2, <3>3
  <2> QED
    BY <2>8, <2>9 DEF t
<1> QED
  BY <1>1, <1>2, <1>3, <1>4, <1>5

(* A blockState as content_block_start makes it.                           *)
LEMMA NewBlockIs ==
  ASSUME NEW type \in Messages!BlockKinds, NEW b \in Int
  PROVE  /\ Messages!NewBlock(type, b) \in Messages!Block
         /\ Messages!NewBlock(type, b).type = type
         /\ Messages!NewBlock(type, b).block = b
         /\ Messages!NewBlock(type, b).emitted = FALSE
BY DEF Messages!NewBlock, Messages!Block, Messages!Fragments

(* openai: content_block_start gives a tool its number.                    *)
LEMMA MessagesNumbers ==
  ASSUME NEW s, MessagesInv(s), s.sourceFormat = "openai", NEW i,
         NEW type \in Messages!BlockKinds,
         NEW r, r = [s EXCEPT !.next = IF type = "tool_use" THEN @ + 1 ELSE @],
         NEW b, b = IF type = "tool_use" THEN s.next ELSE Closed
  PROVE  MessagesInv(Messages!WithBlock(r, i, Messages!NewBlock(type, b)))
<1>1. /\ MessagesHalf(s, {}) /\ s.next \in Nat /\ Opened(s.said) \subseteq 0..(s.next - 1)
      /\ ToolEntries(s, {})
  BY DEF MessagesInv, MessagesHalf, Common
<1>2. /\ MessagesLike(r, s)
      /\ r.next = IF type = "tool_use" THEN s.next + 1 ELSE s.next
  BY <1>1 DEF MessagesHalf, Common, MessagesTyped, MessagesFields, BaseFields, MessagesLike
<1>3. MessagesInv(r)
  BY <1>1, <1>2, MessagesFlags DEF MessagesInv
<1>4. r.sourceFormat = "openai" /\ r.said = s.said /\ r.blocks = s.blocks
  BY <1>2 DEF MessagesLike
<1>5. b \in Int /\ (type = "tool_use" => b \in 0..(r.next - 1) /\ b \notin Opened(r.said))
  BY <1>1, <1>2, <1>4 DEF Closed
<1>6. type = "tool_use" => \A j \in DOMAIN r.blocks :
        r.blocks[j].type = "tool_use" => r.blocks[j].block # b
  BY <1>1, <1>4 DEF ToolEntries
<1> DEFINE n == Messages!NewBlock(type, b)
<1>7. n \in Messages!Block /\ n.type = type /\ n.block = b /\ n.emitted = FALSE
  BY <1>5, NewBlockIs
<1> HIDE DEF n
<1>8. MessagesInv(Messages!WithBlock(r, i, n))
  BY <1>3, <1>4, <1>5, <1>6, <1>7, MessagesPuts
<1> QED
  BY <1>8 DEF n

(* One frame for an openai client.                                         *)
LEMMA MessagesOpenAI ==
  ASSUME NEW s, MessagesInv(s), s.sourceFormat = "openai", NEW l, Messages!IsLine(l)
  PROVE  MessagesInv(Messages!DispatchOpenAI(s, l))
<1> DEFINE t == Messages!DispatchOpenAI(s, l)
<1>1. MessagesHalf(s, {})
  BY DEF MessagesInv
<1>2. CASE l.kind = "message_start"
  BY <1>1, <1>2, MessagesRole DEF Messages!DispatchOpenAI, MessagesInv
<1>3. CASE l.kind = "block_start"
  <2>1. l.type \in Messages!BlockKinds
    BY <1>3 DEF Messages!IsLine
  <2> DEFINE r == [s EXCEPT !.next = IF l.type = "tool_use" THEN @ + 1 ELSE @]
             b == IF l.type = "tool_use" THEN s.next ELSE Closed
  <2>2. t = Messages!WithBlock(r, l.index, Messages!NewBlock(l.type, b))
    BY <1>3 DEF Messages!DispatchOpenAI, Messages!Closed, Closed
  <2>3. MessagesInv(Messages!WithBlock(r, l.index, Messages!NewBlock(l.type, b)))
    BY <2>1, MessagesNumbers
  <2> HIDE DEF r, b
  <2> QED
    BY <2>2, <2>3
<1>4. CASE l.kind = "block_delta"
  BY <1>4, MessagesChatDelta DEF Messages!DispatchOpenAI
<1>5. CASE l.kind = "finish"
  <2> DEFINE x == Messages!Ending("finish",
                    Messages!TerminalReason(\E i \in DOMAIN s.blocks : Messages!IsTool(s, i),
                                            Messages!FinishOf(l.stop)))
  <2>1. t = Messages!Say(s, <<x>>)
    BY <1>5 DEF Messages!DispatchOpenAI
  <2>2. x.ev \notin {"start", "stop", "delta"}
    BY DEF Messages!Ending
  <2> HIDE DEF x
  <2> QED
    BY <1>1, <2>1, <2>2, MessagesSays DEF MessagesInv
<1>6. CASE l.kind = "message_stop"
  <2> DEFINE r == [s EXCEPT !.done = TRUE]
  <2>1. t = r
    BY <1>6 DEF Messages!DispatchOpenAI
  <2>2. MessagesLike(r, s)
    BY <1>1 DEF MessagesHalf, Common, MessagesTyped, MessagesFields, BaseFields, MessagesLike
  <2> HIDE DEF r
  <2> QED
    BY <1>1, <2>1, <2>2, MessagesFlags DEF MessagesInv
<1>7. CASE l.kind = "error"
  BY <1>7, MessagesFails DEF Messages!DispatchOpenAI
<1>8. CASE l.kind = "ping"
  BY <1>8 DEF Messages!DispatchOpenAI
<1> QED
  BY <1>2, <1>3, <1>4, <1>5, <1>6, <1>7, <1>8 DEF Messages!IsLine

(* openai-response: an item is announced.                                  *)
Announcing(s, type, kind) ==
  Messages!Say([s EXCEPT !.next = @ + 1, !.message = IF type = "text" THEN s.next ELSE @],
               <<Messages!Start(s.next, kind)>>)

(* The blocks given out, and the next.                                     *)
LEMMA NextBlock ==
  ASSUME NEW S, NEW n \in Nat, S \subseteq 0..(n - 1), NEW m, m = n + 1
  PROVE  S \union {n} \subseteq 0..(m - 1) /\ m \in Nat
OBVIOUS

(* The item of a new block is opened under a number of its own.            *)
LEMMA MessagesAnnounces ==
  ASSUME NEW s, MessagesInv(s), s.sourceFormat = "openai-response", NEW type, NEW kind,
         NEW t, t = Announcing(s, type, kind)
  PROVE  /\ MessagesInv(t) /\ s.next \in Opened(t.said)
         /\ t.sourceFormat = s.sourceFormat
         /\ s.message # Closed \/ type = "text" => t.message # Closed
<1> DEFINE x == Messages!Start(s.next, kind)
<1>1. /\ MessagesHalf(s, {}) /\ MessagesTyped(s) /\ Common(s) /\ s.next \in Nat
      /\ Opened(s.said) \subseteq 0..(s.next - 1) /\ Lawful(s.said, s.sourceFormat)
      /\ MessageItems(s) /\ Shut(s.said) = {}
  BY DEF MessagesInv, MessagesHalf, Common
<1>2. x.ev = "start" /\ x.block = s.next
  BY DEF Messages!Start
<1>3. t = Messages!Say([s EXCEPT !.next = @ + 1, !.message = IF type = "text" THEN s.next ELSE @],
                       <<x>>)
  BY DEF Announcing
<1> HIDE DEF x
<1>4. /\ DOMAIN t = MessagesFields /\ t.said = s.said \o <<x>>
      /\ t.sourceFormat = s.sourceFormat /\ t.next = s.next + 1 /\ t.progress = s.progress
      /\ t.started = s.started /\ t.finished = s.finished /\ t.terminalSeen = s.terminalSeen
      /\ t.done = s.done /\ t.failed = s.failed /\ t.blocks = s.blocks
      /\ t.message = (IF type = "text" THEN s.next ELSE s.message)
      /\ t.role = s.role /\ t.stop = s.stop /\ t.typed = s.typed
      /\ t.emitted = s.emitted /\ t.flushed = s.flushed /\ t.usage = s.usage
  BY <1>1, <1>3 DEF MessagesTyped, MessagesFields, BaseFields, Messages!Say
<1>5. MayTell(s.said, s.sourceFormat, x)
  BY <1>1, <1>2 DEF MayTell
<1>6. /\ Lawful(t.said, t.sourceFormat) /\ Opened(t.said) = Opened(s.said) \union {s.next}
      /\ Shut(t.said) = {}
  <2>1. /\ Lawful(s.said \o <<x>>, s.sourceFormat)
        /\ Opened(s.said \o <<x>>) = Opened(s.said) \union {s.next}
        /\ Shut(s.said \o <<x>>) = Shut(s.said)
    BY <1>1, <1>2, <1>5, Tells
  <2> QED
    BY <1>1, <1>4, <2>1
<1>7. Common(t)
  <2>1. Opened(t.said) \subseteq 0..(t.next - 1) /\ t.next \in Nat
    BY <1>1, <1>4, <1>6, NextBlock
  <2> QED
    BY <1>1, <1>4, <1>6, <2>1 DEF Common
<1>8. MessagesTyped(t)
  <2>1. t.message \in Closed..(t.next - 1)
    BY <1>1, <1>4 DEF MessagesTyped, Closed
  <2> QED
    BY <1>1, <1>4, <2>1 DEF MessagesTyped
<1>9. MessageItems(t)
  BY <1>1, <1>4, <1>6 DEF MessageItems
<1>10. MessagesInv(t)
  BY <1>1, <1>4, <1>6, <1>7, <1>8, <1>9 DEF MessagesInv, MessagesHalf
<1>11. s.message # Closed \/ type = "text" => t.message # Closed
  BY <1>1, <1>4 DEF Closed
<1> QED
  BY <1>4, <1>6, <1>10, <1>11

(* Keeping a blockState leaves the message item alone.                     *)
LEMMA WithBlockKeeps ==
  ASSUME NEW s, MessagesInv(s), NEW i, NEW b
  PROVE  Messages!WithBlock(s, i, b).message = s.message
BY DEF MessagesInv, MessagesHalf, MessagesTyped, MessagesFields, BaseFields, Messages!WithBlock

(* A content_block_start for an openai-response client opens an item, but  *)
(* a second text block none.                                               *)
LEMMA MessagesItemStart ==
  ASSUME NEW s, MessagesInv(s), s.sourceFormat = "openai-response", NEW l, Messages!IsLine(l),
         l.kind = "block_start"
  PROVE  /\ MessagesInv(Messages!ResponsesBlockStart(s, l))
         /\ s.message # Closed \/ l.type = "text" =>
              Messages!ResponsesBlockStart(s, l).message # Closed
<1> DEFINE item == IF l.type = "text" /\ s.message # Closed THEN s.message ELSE s.next
           kind == IF l.type = "text" THEN "text" ELSE "tool"
           r == IF ~(l.type # "thinking" /\ item = s.next) THEN s
                ELSE Messages!Say([s EXCEPT !.next = @ + 1,
                                            !.message = IF l.type = "text" THEN item ELSE @],
                                  <<Messages!Start(item, kind)>>)
           b == IF l.type = "thinking" THEN Closed ELSE item
           n == Messages!NewBlock(l.type, b)
           t == Messages!ResponsesBlockStart(s, l)
<1>1. t = Messages!WithBlock(r, l.index, n)
  BY DEF Messages!ResponsesBlockStart, Messages!Closed, Closed
<1>2. /\ MessagesHalf(s, {}) /\ MessagesTyped(s) /\ s.next \in Nat /\ MessageItems(s)
      /\ l.type \in Messages!BlockKinds
  BY DEF MessagesInv, MessagesHalf, Common, Messages!IsLine
<1>3. item \in Nat /\ (item # s.next => item \in Opened(s.said) /\ s.message # Closed)
  BY <1>2 DEF MessagesTyped, MessageItems, Closed
<1>4. /\ MessagesInv(r) /\ r.sourceFormat = "openai-response"
      /\ l.type # "thinking" => item \in Opened(r.said)
      /\ s.message # Closed \/ l.type = "text" => r.message # Closed
  <2>1. CASE l.type # "thinking" /\ item = s.next
    <3>1. r = Announcing(s, l.type, kind)
      BY <2>1 DEF Announcing
    <3> HIDE DEF r, item, kind
    <3> QED
      BY <2>1, <3>1, MessagesAnnounces
  <2>2. CASE ~(l.type # "thinking" /\ item = s.next)
    <3>1. r = s
      BY <2>2
    <3>2. l.type = "text" => item # s.next
      BY <2>2
    <3> HIDE DEF r, item
    <3> QED
      BY <1>3, <2>2, <3>1, <3>2
  <2> QED
    BY <2>1, <2>2
<1>5. b \in Int
  BY <1>3 DEF Closed
<1> HIDE DEF item, r, b
<1>6. n \in Messages!Block /\ n.type = l.type /\ n.block = b
  BY <1>2, <1>5, NewBlockIs
<1>7. l.type = "tool_use" => b = item
  BY DEF b
<1> HIDE DEF n, t
<1>8. MessagesInv(t)
  BY <1>1, <1>4, <1>6, <1>7, MessagesPuts
<1>9. t.message = r.message
  BY <1>1, <1>4, WithBlockKeeps
<1> QED
  BY <1>4, <1>8, <1>9 DEF t

(* Arguments joined are arguments, be they broken.                         *)
LEMMA JoinedIs ==
  ASSUME NEW args \in Messages!Fragments \union {"broken"}, NEW f \in Messages!Fragments
  PROVE  Messages!Joined(args, f) \in Messages!Fragments \union {"broken"}
BY DEF Messages!Joined, Messages!Fragments

(* A tool's arguments grow.                                                *)
Fed(s, i, f) == [s EXCEPT !.blocks[i].args = Messages!Joined(@, f)]

(* The arguments that are accumulated for a tool change no item.           *)
LEMMA MessagesFeeds ==
  ASSUME NEW s, MessagesInv(s), s.sourceFormat = "openai-response", NEW i,
         Messages!IsTool(s, i), NEW f \in Messages!Fragments,
         NEW t, t = Fed(s, i, f)
  PROVE  /\ MessagesInv(t) /\ s.blocks[i].block \in Opened(t.said)
         /\ t.message = s.message
<1> DEFINE b == s.blocks[i]
           B == [s.blocks EXCEPT ![i].args = Messages!Joined(b.args, f)]
<1>1. /\ MessagesHalf(s, {}) /\ MessagesTyped(s) /\ Common(s) /\ MessageItems(s)
      /\ DOMAIN s = MessagesFields /\ Shut(s.said) = {}
  BY DEF MessagesInv, MessagesHalf, MessagesTyped
<1>2. i \in DOMAIN s.blocks /\ b.type = "tool_use" /\ b \in Messages!Block
  BY <1>1 DEF Messages!IsTool, MessagesTyped
<1>3. /\ DOMAIN B = DOMAIN s.blocks
      /\ \A j \in DOMAIN B : j # i => B[j] = s.blocks[j]
      /\ B[i] = [b EXCEPT !.args = Messages!Joined(b.args, f)]
  BY <1>2
<1>a. Messages!Joined(b.args, f) \in Messages!Fragments \union {"broken"}
  BY <1>2, JoinedIs DEF Messages!Block
<1>4. B[i].type = b.type /\ B[i].block = b.block /\ B[i] \in Messages!Block
  BY <1>2, <1>3, <1>a DEF Messages!Block
<1>5. t = [s EXCEPT !.blocks = B]
  BY <1>1 DEF MessagesFields, BaseFields, Fed
<1> HIDE DEF B
<1>6. /\ DOMAIN t = MessagesFields /\ t.said = s.said /\ t.blocks = B
      /\ t.sourceFormat = s.sourceFormat /\ t.next = s.next /\ t.progress = s.progress
      /\ t.started = s.started /\ t.finished = s.finished /\ t.terminalSeen = s.terminalSeen
      /\ t.done = s.done /\ t.failed = s.failed
      /\ t.message = s.message /\ t.role = s.role /\ t.stop = s.stop /\ t.typed = s.typed
      /\ t.emitted = s.emitted /\ t.flushed = s.flushed /\ t.usage = s.usage
  BY <1>1, <1>5 DEF MessagesFields, BaseFields
<1>7. Common(t) /\ Shut(t.said) = {}
  BY <1>1, <1>6 DEF Common
<1>8. MessagesTyped(t)
  BY <1>1, <1>3, <1>4, <1>6 DEF MessagesTyped
<1>9. MessageItems(t)
  <2>1. \A j \in DOMAIN B : B[j].type = s.blocks[j].type /\ B[j].block = s.blocks[j].block
    BY <1>3, <1>4
  <2> QED
    BY <1>1, <1>3, <1>6, <2>1 DEF MessageItems
<1>10. b.block \in Opened(t.said)
  BY <1>1, <1>2, <1>6 DEF MessageItems
<1> QED
  BY <1>6, <1>7, <1>8, <1>9, <1>10 DEF MessagesInv, MessagesHalf

(* The events of an openai-response client keep the message item.          *)
LEMMA MessagesSaysItems ==
  ASSUME NEW s, MessagesInv(s), NEW x,
         x.ev \notin {"start", "stop"},
         x.ev = "delta" => x.block \in Opened(s.said)
  PROVE  /\ MessagesInv(Messages!Say(s, <<x>>))
         /\ Messages!Say(s, <<x>>).message = s.message
<1>1. MessagesHalf(s, {})
  BY DEF MessagesInv
<1>2. MessagesHalf(Messages!Say(s, <<x>>), {})
  BY <1>1, MessagesSays
<1>3. Messages!Say(s, <<x>>).message = s.message
  BY <1>1 DEF MessagesHalf, MessagesTyped, MessagesFields, BaseFields, Messages!Say
<1> QED
  BY <1>2, <1>3 DEF MessagesInv

(* A delta for an openai-response client is of an open item: text of the   *)
(* message item, which its upstream's start of a text block has opened.    *)
LEMMA MessagesItemDelta ==
  ASSUME NEW s, MessagesInv(s), s.sourceFormat = "openai-response", NEW l, Messages!IsLine(l),
         l.kind = "block_delta", l.type = "text" => s.message # Closed
  PROVE  /\ MessagesInv(Messages!ResponsesDelta(s, l))
         /\ s.message # Closed => Messages!ResponsesDelta(s, l).message # Closed
<1> DEFINE t == Messages!ResponsesDelta(s, l)
<1>1. /\ l.type \in {"text", "tool_use", "thinking"}
      /\ l.type = "tool_use" => l.args \in Messages!Fragments
  BY DEF Messages!IsLine, Messages!BlockKinds
<1>2. CASE l.type = "thinking"
  BY <1>2 DEF Messages!ResponsesDelta
<1>3. CASE l.type = "text"
  <2> DEFINE x == Messages!Delta(s.message, 1)
  <2>1. t = Messages!Say(s, <<x>>)
    BY <1>3 DEF Messages!ResponsesDelta, Messages!Closed, Closed
  <2>2. x.ev = "delta" /\ x.block = s.message
    BY DEF Messages!Delta
  <2>3. s.message \in Opened(s.said)
    BY <1>3 DEF MessagesInv, MessagesHalf, MessageItems
  <2> HIDE DEF x
  <2> QED
    BY <2>1, <2>2, <2>3, MessagesSaysItems
<1>4. CASE l.type = "tool_use" /\ ~Messages!IsTool(s, l.index)
  <2>1. t = Messages!Fail(s) /\ Messages!Fail(s).message = s.message
    BY <1>4 DEF Messages!ResponsesDelta, Messages!Fail, MessagesInv, MessagesHalf,
                MessagesTyped, MessagesFields, BaseFields
  <2> QED
    BY <2>1, MessagesFails
<1>5. CASE l.type = "tool_use" /\ Messages!IsTool(s, l.index)
  <2> DEFINE b == s.blocks[l.index].block
             r == Fed(s, l.index, l.args)
             x == Messages!Delta(b, Messages!Parts(l))
  <2>1. t = Messages!Say(r, <<x>>)
    BY <1>5 DEF Messages!ResponsesDelta, Fed
  <2>2. x.ev = "delta" /\ x.block = b
    BY DEF Messages!Delta
  <2> HIDE DEF x, r, b
  <2>3. MessagesInv(r) /\ b \in Opened(r.said) /\ r.message = s.message
    <3>1. l.args \in Messages!Fragments
      BY <1>1, <1>5
    <3> QED
      BY <1>5, <3>1, MessagesFeeds DEF b, r
  <2> QED
    BY <2>1, <2>2, <2>3, MessagesSaysItems
<1> QED
  BY <1>1, <1>2, <1>3, <1>4, <1>5

(* A step that touches no block keeps the invariant and the message item.  *)
LEMMA MessagesKeepsLike ==
  ASSUME NEW s, MessagesInv(s), NEW t, MessagesLike(t, s)
  PROVE  MessagesInv(t) /\ t.message = s.message
BY MessagesFlags DEF MessagesInv, MessagesLike

(* So does response.completed.                                             *)
LEMMA MessagesCompletes ==
  ASSUME NEW s, MessagesInv(s)
  PROVE  /\ MessagesInv(Messages!ResponsesCompleted(s))
         /\ Messages!ResponsesCompleted(s).message = s.message
<1> DEFINE x == Messages!Completed(Messages!StatusOf(Messages!FinishOf(s.stop)),
                                   Messages!OutputItems(s))
<1>1. Messages!ResponsesCompleted(s) = Messages!Say(s, <<x>>)
  BY DEF Messages!ResponsesCompleted
<1>2. x.ev \notin {"start", "stop", "delta"}
  BY DEF Messages!Completed
<1> HIDE DEF x
<1> QED
  BY <1>1, <1>2, MessagesSaysItems

(* One frame for an openai-response client.                                *)
LEMMA MessagesResponses ==
  ASSUME NEW s, MessagesInv(s), s.sourceFormat = "openai-response", NEW l, Messages!IsLine(l),
         l.kind = "block_delta" /\ l.type = "text" => s.message # Closed
  PROVE  /\ MessagesInv(Messages!DispatchResponses(s, l))
         /\ s.message # Closed \/ (l.kind = "block_start" /\ l.type = "text") =>
              Messages!DispatchResponses(s, l).message # Closed
<1> DEFINE t == Messages!DispatchResponses(s, l)
<1>1. /\ MessagesHalf(s, {}) /\ MessagesTyped(s) /\ Common(s) /\ DOMAIN s = MessagesFields
      /\ s.next \in Nat
  BY DEF MessagesInv, MessagesHalf, MessagesTyped, Common
<1>2. CASE l.kind = "message_start"
  <2> DEFINE x == Messages!Named("created")
  <2>1. t = Messages!Say(s, <<x>>)
    BY <1>2 DEF Messages!DispatchResponses
  <2>2. x.ev \notin {"start", "stop", "delta"}
    BY DEF Messages!Named
  <2> HIDE DEF x
  <2> QED
    BY <1>2, <2>1, <2>2, MessagesSaysItems
<1>3. CASE l.kind = "block_start"
  <2>1. t = Messages!ResponsesBlockStart(s, l)
    BY <1>3 DEF Messages!DispatchResponses
  <2> QED
    BY <1>3, <2>1, MessagesItemStart
<1>4. CASE l.kind = "block_delta"
  <2>1. t = Messages!ResponsesDelta(s, l)
    BY <1>4 DEF Messages!DispatchResponses
  <2> QED
    BY <1>4, <2>1, MessagesItemDelta
<1>5. CASE l.kind = "finish"
  <2> DEFINE r == [s EXCEPT !.stop = l.stop]
  <2>1. t = r
    BY <1>5 DEF Messages!DispatchResponses
  <2>2. l.stop \in {"none", "end", "length"}
    BY <1>5 DEF Messages!IsLine
  <2>3. MessagesLike(r, s)
    BY <1>1, <2>2 DEF Common, MessagesTyped, MessagesFields, BaseFields, MessagesLike
  <2> HIDE DEF r
  <2> QED
    BY <1>5, <2>1, <2>3, MessagesKeepsLike
<1>6. CASE l.kind = "message_stop"
  <2> DEFINE r == [s EXCEPT !.done = TRUE]
  <2>1. t = Messages!ResponsesCompleted(r)
    BY <1>6 DEF Messages!DispatchResponses
  <2>2. MessagesLike(r, s)
    BY <1>1 DEF Common, MessagesTyped, MessagesFields, BaseFields, MessagesLike
  <2> HIDE DEF r
  <2>3. MessagesInv(r) /\ r.message = s.message
    BY <2>2, MessagesKeepsLike
  <2> QED
    BY <1>6, <2>1, <2>3, MessagesCompletes
<1>7. CASE l.kind = "error"
  <2>1. t = Messages!Fail(s) /\ Messages!Fail(s).message = s.message
    BY <1>1, <1>7 DEF Messages!DispatchResponses, Messages!Fail, MessagesFields, BaseFields
  <2> QED
    BY <1>7, <2>1, MessagesFails
<1>8. CASE l.kind = "ping"
  BY <1>8 DEF Messages!DispatchResponses
<1> QED
  BY <1>2, <1>3, <1>4, <1>5, <1>6, <1>7, <1>8 DEF Messages!IsLine

(* One frame that is passed on to a Messages client.                       *)
LEMMA MessagesClaude ==
  ASSUME NEW s, MessagesInv(s), NEW l
  PROVE  MessagesInv(Messages!DispatchClaude(s, l))
<1> DEFINE r == [s EXCEPT !.done = (l.kind = "message_stop")]
           x == Messages!Named("raw")
<1>1. Messages!DispatchClaude(s, l) =
        IF l.kind = "error" THEN Messages!Fail(s) ELSE Messages!Say(r, <<x>>)
  BY DEF Messages!DispatchClaude
<1>2. x.ev \notin {"start", "stop", "delta"}
  BY DEF Messages!Named
<1>3. MessagesLike(r, s)
  BY DEF MessagesInv, MessagesHalf, Common, MessagesTyped, MessagesFields, BaseFields,
         MessagesLike
<1> HIDE DEF r, x
<1> QED
  BY <1>1, <1>2, <1>3, MessagesFails, MessagesKeepsLike, MessagesSaysItems

(* One frame, for any client.                                              *)
LEMMA MessagesDispatches ==
  ASSUME NEW s, MessagesInv(s), NEW l, Messages!IsLine(l),
         s.sourceFormat = "openai-response" /\ l.kind = "block_delta" /\ l.type = "text" =>
           s.message # Closed
  PROVE  /\ MessagesInv(Messages!Dispatch(s, l))
         /\ s.sourceFormat = "openai-response"
            /\ (s.message # Closed \/ (l.kind = "block_start" /\ l.type = "text")) =>
              Messages!Dispatch(s, l).message # Closed
<1>1. s.sourceFormat \in {"openai", "claude", "openai-response"}
  BY DEF MessagesInv, MessagesHalf, Common, Formats
<1>2. CASE s.sourceFormat = "openai"
  BY <1>2, MessagesOpenAI DEF Messages!Dispatch
<1>3. CASE s.sourceFormat = "claude"
  BY <1>3, MessagesClaude DEF Messages!Dispatch
<1>4. CASE s.sourceFormat = "openai-response"
  <2>1. Messages!Dispatch(s, l) = Messages!DispatchResponses(s, l)
    BY <1>4 DEF Messages!Dispatch
  <2> QED
    BY <1>4, <2>1, MessagesResponses
<1> QED
  BY <1>1, <1>2, <1>3, <1>4

(* observeFrame counts progress and notes what it has seen; it says        *)
(* nothing.                                                                *)
LEMMA MessagesObserves ==
  ASSUME NEW s, MessagesInv(s), NEW l, Messages!IsLine(l)
  PROVE  MessagesLike(Messages!ObserveFrame(s, l), s)
<1> DEFINE t == Messages!ObserveFrame(s, l)
<1>1. /\ MessagesTyped(s) /\ Common(s) /\ DOMAIN s = MessagesFields
      /\ s.next \in Nat /\ s.progress \in Nat /\ s.progress + 1 \in Nat
      /\ (s.progress + 1) + 1 \in Nat
      /\ {s.started, s.finished, s.terminalSeen, s.done, s.failed} \subseteq BOOLEAN
      /\ s.stop \in {"none", "end", "length"} /\ s.usage \in Nat
      /\ {s.typed, s.role, s.emitted, s.flushed} \subseteq BOOLEAN
  BY DEF MessagesInv, MessagesHalf, MessagesTyped, Common
<1>a. MessagesLike(s, s)
  BY <1>1 DEF MessagesLike
<1>2. CASE l.kind = "message_start"
  <2> DEFINE v == [s EXCEPT !.started = TRUE]
             u == [v EXCEPT !.progress = @ + 1]
  <2>1. t = s \/ t = u
    BY <1>2 DEF Messages!ObserveFrame, Messages!StateStart, Messages!Advance
  <2> HIDE DEF t
  <2>2. MessagesLike(v, s) /\ v.progress + 1 \in Nat
    BY <1>1 DEF MessagesFields, BaseFields, MessagesLike
  <2> HIDE DEF v
  <2>3. MessagesLike(u, s)
    BY <1>1, <2>2 DEF MessagesFields, BaseFields, MessagesLike
  <2> HIDE DEF u
  <2>4. MessagesLike(t, s)
    BY <1>a, <2>1, <2>3
  <2> QED
    BY <2>4 DEF t
<1>3. CASE l.kind = "block_start"
  <2> DEFINE q == [j \in DOMAIN s.seenStarts \union {l.index} |->
                     IF j = l.index THEN l.type ELSE s.seenStarts[j]]
  <2> DEFINE u == [[s EXCEPT !.seenStarts = q] EXCEPT !.progress = @ + 1]
  <2>1. t = s \/ t = u
    BY <1>3 DEF Messages!ObserveFrame, Messages!Advance
  <2> DEFINE v == [s EXCEPT !.seenStarts = q]
  <2> HIDE DEF q, t
  <2>a. MessagesLike(v, s)
    BY <1>1 DEF MessagesFields, BaseFields, MessagesLike
  <2>b. v.progress + 1 \in Nat
    BY <1>1 DEF MessagesFields, BaseFields
  <2>c. u = [v EXCEPT !.progress = @ + 1]
    OBVIOUS
  <2> HIDE DEF u, v
  <2>2. MessagesLike(u, s)
    BY <2>a, <2>b, <2>c DEF MessagesFields, BaseFields, MessagesLike
  <2>3. MessagesLike(t, s)
    BY <1>a, <2>1, <2>2
  <2> QED
    BY <2>3 DEF t
<1>4. CASE l.kind = "block_delta"
  <2> DEFINE u == [s EXCEPT !.progress = @ + 1]
  <2>1. t = s \/ t = u
    BY <1>4 DEF Messages!ObserveFrame, Messages!Advance, Messages!AdvanceIf
  <2> HIDE DEF t
  <2>2. MessagesLike(u, s)
    BY <1>1 DEF MessagesFields, BaseFields, MessagesLike
  <2> HIDE DEF u
  <2>3. MessagesLike(t, s)
    BY <1>a, <2>1, <2>2
  <2> QED
    BY <2>3 DEF t
<1>5. CASE l.kind = "finish"
  <2> DEFINE f == IF l.stop = "none" THEN s ELSE Messages!Finish(s)
             u == [f EXCEPT !.usage = l.usage]
  <2>1. t = u \/ t = [u EXCEPT !.progress = @ + 1]
    BY <1>5 DEF Messages!ObserveFrame, Messages!Advance, Messages!AdvanceIf
  <2>2. l.usage \in Nat
    BY <1>5 DEF Messages!IsLine
  <2>3. f = s \/ f = [[s EXCEPT !.finished = TRUE] EXCEPT !.progress = @ + 1]
    BY DEF Messages!Finish, Messages!Advance
  <2> HIDE DEF t, f
  <2> DEFINE g == [[s EXCEPT !.finished = TRUE] EXCEPT !.progress = @ + 1]
  <2>a. MessagesLike(g, s)
    BY <1>1 DEF MessagesFields, BaseFields, MessagesLike
  <2> HIDE DEF g
  <2>4. MessagesLike(f, s)
    BY <1>a, <2>3, <2>a DEF g
  <2>5. f.progress \in Nat /\ f.progress + 1 \in Nat
    BY <2>4 DEF MessagesLike
  <2>6. MessagesLike(u, s) /\ MessagesLike([u EXCEPT !.progress = @ + 1], s)
    BY <2>2, <2>4, <2>5 DEF MessagesFields, BaseFields, MessagesLike
  <2> HIDE DEF u
  <2>7. MessagesLike(t, s)
    BY <2>1, <2>6
  <2> QED
    BY <2>7 DEF t
<1>6. CASE l.kind = "message_stop"
  <2>1. t = [[[s EXCEPT !.progress = @ + 1] EXCEPT !.terminalSeen = TRUE]
               EXCEPT !.progress = @ + 1]
    BY <1>6 DEF Messages!ObserveFrame, Messages!Advance, Messages!Terminal
  <2> HIDE DEF t
  <2>2. MessagesLike(t, s)
    BY <1>1, <2>1 DEF MessagesFields, BaseFields, MessagesLike
  <2> QED
    BY <2>2 DEF t
<1>7. CASE l.kind \in {"error", "ping"}
  <2>1. t = s
    BY <1>7 DEF Messages!ObserveFrame
  <2> QED
    BY <1>1, <2>1 DEF MessagesLike
<1> QED
  BY <1>2, <1>3, <1>4, <1>5, <1>6, <1>7 DEF Messages!IsLine

(* The converter's calls.                                                  *)
LEMMA MessagesHandles ==
  ASSUME NEW s, MessagesInv(s), NEW l, Messages!IsLine(l),
         s.sourceFormat = "openai-response" /\ l.kind = "block_delta" /\ l.type = "text" =>
           s.message # Closed,
         NEW t, t = Messages!HandleLine(s, l)
  PROVE  /\ MessagesInv(t)
         /\ s.sourceFormat = "openai-response"
            /\ (s.message # Closed \/ (l.kind = "block_start" /\ l.type = "text")) =>
              t.message # Closed
<1> DEFINE d == Messages!Dispatch(s, l)
           e == [d EXCEPT !.emitted = @ \/ d.said # s.said]
<1>1. t = IF d.failed THEN d
          ELSE IF d.done /\ ~Messages!ToolsWellFormed(d) THEN Messages!Fail(d)
          ELSE IF s.typed THEN Messages!ObserveFrame(e, l) ELSE e
  BY DEF Messages!HandleLine
<1>2. /\ MessagesInv(d)
      /\ s.sourceFormat = "openai-response"
         /\ (s.message # Closed \/ (l.kind = "block_start" /\ l.type = "text")) =>
           d.message # Closed
  BY MessagesDispatches
<1> HIDE DEF d
<1>3. MessagesLike(e, d) /\ MessagesLike(Messages!Fail(d), d)
  BY <1>2 DEF MessagesInv, MessagesHalf, Common, MessagesTyped, MessagesFields, BaseFields,
              MessagesLike, Messages!Fail
<1> HIDE DEF e
<1>4. MessagesInv(e) /\ e.message = d.message
  BY <1>2, <1>3, MessagesKeepsLike
<1>5. MessagesInv(Messages!Fail(d)) /\ Messages!Fail(d).message = d.message
  BY <1>2, <1>3, MessagesKeepsLike
<1>6. /\ MessagesInv(Messages!ObserveFrame(e, l))
      /\ Messages!ObserveFrame(e, l).message = d.message
  BY <1>4, MessagesObserves, MessagesKeepsLike
<1>7. MessagesInv(t) /\ t.message = d.message
  BY <1>1, <1>2, <1>4, <1>5, <1>6
<1> QED
  BY <1>2, <1>7

(* The end of the upstream stream, and that of the finish grace.           *)
LEMMA MessagesEnds ==
  ASSUME NEW s, MessagesInv(s)
  PROVE  MessagesInv(Messages!FinalizeStream(s)) /\ MessagesInv(Messages!FlushWithError(s))
<1> DEFINE f == Messages!Flush(s)
           r == [s EXCEPT !.flushed = TRUE]
<1>1. MessagesLike(r, s)
  BY DEF MessagesInv, MessagesHalf, Common, MessagesTyped, MessagesFields, BaseFields,
         MessagesLike
<1>2. f = r \/ f = Messages!ResponsesCompleted(r)
  BY DEF Messages!Flush
<1> HIDE DEF r, f
<1>3. MessagesInv(f)
  BY <1>1, <1>2, MessagesKeepsLike, MessagesCompletes
<1> DEFINE t == Messages!Terminal(f)
<1>4. t = [[f EXCEPT !.terminalSeen = TRUE] EXCEPT !.progress = @ + 1]
  BY DEF Messages!Terminal, Messages!Advance
<1> HIDE DEF t
<1>5. MessagesLike(t, f)
  <2>1. f.progress + 1 \in Nat
    BY <1>3 DEF MessagesInv, MessagesHalf, Common
  <2> QED
    BY <1>3, <1>4, <2>1 DEF MessagesInv, MessagesHalf, Common, MessagesTyped, MessagesFields, BaseFields,
                     MessagesLike
<1>6. MessagesInv(t)
  BY <1>3, <1>5, MessagesKeepsLike
<1> QED
  BY <1>6, MessagesFails DEF Messages!FinalizeStream, Messages!FlushWithError, t, f

(* newStreamConverter of the Messages adapter.                             *)
LEMMA MessagesStarts ==
  ASSUME NEW f \in Formats, NEW typed \in BOOLEAN
  PROVE  MessagesInv(Messages!Fresh(f, typed)) /\ ~Messages!Fresh(f, typed).done
<1> DEFINE s == Messages!Fresh(f, typed)
<1>1. /\ DOMAIN s = MessagesFields
      /\ s.sourceFormat = f /\ s.next = 0 /\ s.progress = 0
      /\ s.started = FALSE /\ s.finished = FALSE /\ s.terminalSeen = FALSE
      /\ s.done = FALSE /\ s.failed = FALSE /\ s.said = <<>>
      /\ s.typed = typed /\ s.blocks = <<>> /\ s.message = Closed /\ s.role = FALSE
      /\ s.stop = "none" /\ s.emitted = FALSE /\ s.flushed = FALSE /\ s.usage = 0
  BY DEF Messages!Fresh, Messages!With, Messages!Base, MessagesFields, BaseFields,
         Messages!Closed, Closed
<1> HIDE DEF s
<1>2. /\ Lawful(<<>>, s.sourceFormat) /\ Opened(<<>>) = {} /\ Tooled(<<>>) = {}
      /\ Shut(<<>>) = {}
  BY NothingSaid
<1>3. Lawful(s.said, s.sourceFormat) /\ Opened(s.said) = {} /\ Shut(s.said) = {}
  BY <1>1, <1>2
<1>4. Common(s)
  <2>1. s.sourceFormat \in Formats /\ s.next \in Nat /\ s.progress \in Nat
    BY <1>1
  <2>2. Opened(s.said) \subseteq 0..(s.next - 1)
    BY <1>3
  <2>3. {s.next, s.progress} \subseteq Nat
    BY <2>1
  <2>4. {s.started, s.finished, s.terminalSeen, s.done, s.failed} \subseteq BOOLEAN
    BY <1>1
  <2> QED
    BY <1>3, <2>1, <2>2, <2>3, <2>4 DEF Common
<1>5. DOMAIN s.blocks = {}
  BY <1>1
<1>6. MessagesTyped(s)
  <2>1. s.message \in Closed..(s.next - 1)
    BY <1>1 DEF Closed
  <2>2. s.usage \in Nat /\ s.stop \in {"none", "end", "length"}
    BY <1>1
  <2>3. {s.typed, s.role, s.emitted, s.flushed} \subseteq BOOLEAN
    BY <1>1
  <2> QED
    BY <1>1, <1>5, <2>1, <2>2, <2>3 DEF MessagesTyped
<1>7. ToolEntries(s, {}) /\ MessageItems(s)
  BY <1>1, <1>5 DEF ToolEntries, MessageItems
<1>8. MessagesInv(s)
  BY <1>1, <1>3, <1>4, <1>6, <1>7 DEF MessagesInv, MessagesHalf
<1> QED
  BY <1>1, <1>8 DEF s
-----------------------------------------------------------------------------
(* The Chat Completions converter.                                         *)

ChatFields ==
  BaseFields \union {"think", "text", "next", "tools", "order", "items", "held",
                     "terminalSent", "usage"}

ChatTyped(s) ==
  /\ DOMAIN s = ChatFields
  /\ s.think \in Closed..(s.next - 1)
  /\ s.text \in Closed..(s.next - 1)
  /\ s.items \subseteq 0..(s.next - 1)
  /\ s.held \in {"none", "stop", "length"}
  /\ s.terminalSent \in BOOLEAN
  /\ s.usage \in Nat

(* The order lists every tool call once.                                   *)
ChatTools(s) ==
  /\ \A i \in DOMAIN s.tools : s.tools[i] \in Chat!Tool
  /\ s.order \in Seq(Nat)
  /\ \A i \in DOMAIN s.tools : \E k \in DOMAIN s.order : s.order[k] = i
  /\ \A k \in DOMAIN s.order : s.order[k] \in DOMAIN s.tools
  /\ \A j, k \in DOMAIN s.order : s.order[j] = s.order[k] => j = k

(* A block that is open for text or thinking is open to the client.        *)
OpenFor(b, w) == b # Closed => b \in Opened(w) \ Shut(w)

(* The blocks of a Messages stream: those of tools are opened with them,   *)
(* and none is open that the converter does not know of.                   *)
ClaudeTold(s) ==
  \A i \in DOMAIN s.tools : s.tools[i].block \in Tooled(s.said)

(* The client of a Responses stream has all of a function's fragments,     *)
(* but for a tool in new, whose fragments are about to be sent.            *)
Served(t) == t.announced /\ ~t.custom => t.sent = t.got

RespondTold(s, new) ==
  /\ s.items = Shut(s.said)
  /\ \A i \in DOMAIN s.tools :
       /\ s.tools[i].announced <=> s.tools[i].block \in Opened(s.said)
       /\ Served(s.tools[i]) \/ (i \in new /\ ~s.tools[i].stopped)

ChatBlocks(s) ==
  /\ OpenFor(s.think, s.said)
  /\ OpenFor(s.text, s.said)
  /\ s.think = s.text => s.think = Closed
  /\ \A i \in DOMAIN s.tools :
       /\ s.tools[i].block \in 0..(s.next - 1)
       /\ s.tools[i].block \notin {s.think, s.text}
       /\ s.tools[i].stopped <=> s.tools[i].block \in Shut(s.said)
  /\ \A i, j \in DOMAIN s.tools : s.tools[i].block = s.tools[j].block => i = j
  /\ \A b \in Opened(s.said) \ Shut(s.said) :
       b \in {s.think, s.text} \/ \E i \in DOMAIN s.tools : s.tools[i].block = b

ChatHalf(s, new) ==
  /\ Common(s)
  /\ ChatTyped(s)
  /\ ChatTools(s)
  /\ s.sourceFormat # "openai" => ChatBlocks(s)
  /\ s.sourceFormat = "claude" => ClaudeTold(s)
  /\ s.sourceFormat = "openai-response" => RespondTold(s, new)

ChatInv(s) == ChatHalf(s, {})

(* What a step that says nothing and touches no block may do.              *)
ChatLike(t, s) ==
  /\ DOMAIN t = ChatFields
  /\ t.sourceFormat = s.sourceFormat /\ t.next = s.next /\ t.said = s.said
  /\ t.think = s.think /\ t.text = s.text /\ t.tools = s.tools /\ t.order = s.order
  /\ t.items = s.items
  /\ t.progress \in Nat
  /\ {t.started, t.finished, t.terminalSeen, t.done, t.failed} \subseteq BOOLEAN
  /\ t.held \in {"none", "stop", "length"}
  /\ t.terminalSent \in BOOLEAN
  /\ t.usage \in Nat

(* A step that only counts progress and sets flags of the Chat converter   *)
(* keeps its invariant.                                                    *)
LEMMA ChatFlags ==
  ASSUME NEW s, NEW new, ChatHalf(s, new), NEW t, ChatLike(t, s)
  PROVE  ChatHalf(t, new)
<1>1. Common(t) /\ ChatTyped(t)
  BY DEF ChatHalf, ChatLike, Common, ChatTyped
<1>2. ChatTools(t)
  BY DEF ChatHalf, ChatLike, ChatTools
<1>3. t.sourceFormat # "openai" => ChatBlocks(t)
  BY DEF ChatHalf, ChatLike, ChatBlocks
<1>4. t.sourceFormat = "claude" => ClaudeTold(t)
  BY DEF ChatHalf, ChatLike, ClaudeTold
<1>5. t.sourceFormat = "openai-response" => RespondTold(t, new)
  BY DEF ChatHalf, ChatLike, RespondTold
<1> QED
  BY <1>1, <1>2, <1>3, <1>4, <1>5 DEF ChatHalf

(* All of a converter but what has been said.                              *)
ChatSame(t, s) ==
  /\ DOMAIN t = ChatFields
  /\ t.sourceFormat = s.sourceFormat /\ t.next = s.next
  /\ t.think = s.think /\ t.text = s.text /\ t.tools = s.tools /\ t.order = s.order
  /\ t.items = s.items /\ t.progress = s.progress
  /\ t.started = s.started /\ t.finished = s.finished /\ t.terminalSeen = s.terminalSeen
  /\ t.done = s.done /\ t.failed = s.failed
  /\ t.held = s.held /\ t.terminalSent = s.terminalSent /\ t.usage = s.usage

(* To say something changes nothing else.                                  *)
LEMMA ChatSaysAny ==
  ASSUME NEW s, DOMAIN s = ChatFields, NEW e
  PROVE  ChatSame(Chat!Say(s, e), s) /\ Chat!Say(s, e).said = s.said \o e
BY DEF ChatFields, BaseFields, Chat!Say, ChatSame

(* An event that may follow, and opens or closes nothing, keeps the        *)
(* invariant.                                                              *)
LEMMA ChatSays ==
  ASSUME NEW s, NEW new, ChatHalf(s, new), NEW x,
         x.ev \notin {"start", "stop"},
         MayTell(s.said, s.sourceFormat, x)
  PROVE  ChatHalf(Chat!Say(s, <<x>>), new) /\ ChatSame(Chat!Say(s, <<x>>), s)
<1> DEFINE t == Chat!Say(s, <<x>>)
<1>1. ChatSame(t, s) /\ t.said = s.said \o <<x>>
  BY ChatSaysAny DEF ChatHalf, ChatTyped
<1> HIDE DEF t
<1>2. /\ Lawful(t.said, s.sourceFormat)
      /\ Opened(t.said) = Opened(s.said) /\ Tooled(t.said) = Tooled(s.said)
      /\ Shut(t.said) = Shut(s.said)
  <2>1. Lawful(s.said, s.sourceFormat)
    BY DEF ChatHalf, Common
  <2> QED
    BY <1>1, <2>1, Tells
<1>3. Common(t)
  <2>1. Lawful(t.said, t.sourceFormat)
    BY <1>1, <1>2 DEF ChatSame
  <2> QED
    BY <1>1, <1>2, <2>1 DEF ChatHalf, Common, ChatSame
<1>4. ChatTyped(t) /\ ChatTools(t)
  <2>1. ChatTyped(t)
    BY <1>1 DEF ChatHalf, ChatTyped, ChatSame
  <2>2. ChatTools(t)
    BY <1>1 DEF ChatHalf, ChatTools, ChatSame
  <2> QED
    BY <2>1, <2>2
<1>5. t.sourceFormat # "openai" => ChatBlocks(t)
  BY <1>1, <1>2 DEF ChatHalf, ChatSame, ChatBlocks, OpenFor
<1>6. t.sourceFormat = "claude" => ClaudeTold(t)
  BY <1>1, <1>2 DEF ChatHalf, ChatSame, ClaudeTold
<1>7. t.sourceFormat = "openai-response" => RespondTold(t, new)
  BY <1>1, <1>2 DEF ChatHalf, ChatSame, RespondTold
<1>8. ChatHalf(t, new)
  BY <1>3, <1>4, <1>5, <1>6, <1>7 DEF ChatHalf
<1> QED
  BY <1>1, <1>8 DEF t

(* An event that is neither of a block nor about one.                      *)
LEMMA ChatNames ==
  ASSUME NEW s, NEW new, ChatHalf(s, new), NEW x,
         x.ev \notin {"start", "stop", "delta"}
  PROVE  ChatHalf(Chat!Say(s, <<x>>), new) /\ ChatSame(Chat!Say(s, <<x>>), s)
<1>1. MayTell(s.said, s.sourceFormat, x)
  BY DEF MayTell
<1> QED
  BY <1>1, ChatSays

(* Saying nothing.                                                         *)
LEMMA ChatSaysNothing ==
  ASSUME NEW s, NEW new, ChatHalf(s, new)
  PROVE  ChatHalf(Chat!Say(s, <<>>), new) /\ ChatSame(Chat!Say(s, <<>>), s)
<1> DEFINE t == Chat!Say(s, <<>>)
<1>1. ChatSame(t, s) /\ t.said = s.said \o <<>>
  BY ChatSaysAny DEF ChatHalf, ChatTyped
<1>2. s.said \o <<>> = s.said
  <2>1. IsASequence(s.said)
    BY DEF ChatHalf, Common, Lawful
  <2> QED
    BY <2>1, NothingTold
<1> HIDE DEF t
<1>3. ChatLike(t, s)
  BY <1>1, <1>2 DEF ChatHalf, Common, ChatTyped, ChatSame, ChatLike
<1> QED
  BY <1>1, <1>3, ChatFlags DEF t

(* The flags of StreamState.                                               *)

(* StreamState's operations are such steps.                                *)
LEMMA ChatFlagged ==
  ASSUME NEW s, NEW new, ChatHalf(s, new)
  PROVE  /\ ChatLike(Chat!Advance(s), s) /\ ChatLike(Chat!StateStart(s), s)
         /\ ChatLike(Chat!Finish(s), s) /\ ChatLike(Chat!Terminal(s), s)
         /\ ChatLike(Chat!Fail(s), s) /\ ChatLike(Chat!Ended(s), s)
         /\ \A new2 \in BOOLEAN : ChatLike(Chat!AdvanceIf(s, new2), s)
<1>1. /\ DOMAIN s = ChatFields /\ s.progress \in Nat /\ s.progress + 1 \in Nat
      /\ (s.progress + 1) + 1 \in Nat
      /\ {s.started, s.finished, s.terminalSeen, s.done, s.failed} \subseteq BOOLEAN
      /\ s.held \in {"none", "stop", "length"} /\ s.terminalSent \in BOOLEAN
      /\ s.usage \in Nat
  BY DEF ChatHalf, Common, ChatTyped
<1>2. ChatLike(s, s)
  BY <1>1 DEF ChatLike
<1>3. ASSUME NEW t, ChatLike(t, s), t.progress + 1 \in Nat
      PROVE  ChatLike(Chat!Advance(t), s)
  BY <1>3 DEF ChatFields, BaseFields, ChatLike, Chat!Advance
<1>4. ChatLike(Chat!Advance(s), s) /\ Chat!Advance(s).progress = s.progress + 1
  <2>1. Chat!Advance(s).progress = s.progress + 1
    BY <1>1 DEF ChatFields, BaseFields, Chat!Advance
  <2> QED
    BY <1>1, <1>2, <1>3, <2>1
<1>5. ChatLike(Chat!StateStart(s), s)
  <2> DEFINE v == [s EXCEPT !.started = TRUE]
  <2>1. ChatLike(v, s) /\ v.progress = s.progress
    BY <1>1 DEF ChatFields, BaseFields, ChatLike
  <2> HIDE DEF v
  <2> QED
    BY <1>1, <1>2, <1>3, <2>1 DEF Chat!StateStart, v
<1>6. ChatLike(Chat!Finish(s), s)
  <2> DEFINE v == [s EXCEPT !.finished = TRUE]
  <2>1. ChatLike(v, s) /\ v.progress = s.progress
    BY <1>1 DEF ChatFields, BaseFields, ChatLike
  <2> HIDE DEF v
  <2> QED
    BY <1>1, <1>2, <1>3, <2>1 DEF Chat!Finish, v
<1>7. ChatLike(Chat!Terminal(s), s)
  <2> DEFINE v == [s EXCEPT !.terminalSeen = TRUE]
  <2>1. ChatLike(v, s) /\ v.progress = s.progress
    BY <1>1 DEF ChatFields, BaseFields, ChatLike
  <2> HIDE DEF v
  <2> QED
    BY <1>1, <1>3, <2>1 DEF Chat!Terminal, v
<1>8. ChatLike(Chat!Fail(s), s)
  BY <1>1 DEF ChatFields, BaseFields, ChatLike, Chat!Fail
<1>9. ChatLike(Chat!Ended(s), s)
  <2> DEFINE v == [s EXCEPT !.done = TRUE]
             a == Chat!Advance(v)
             b == [a EXCEPT !.terminalSeen = TRUE]
  <2>1. ChatLike(v, s) /\ v.progress = s.progress
    BY <1>1 DEF ChatFields, BaseFields, ChatLike
  <2>2. DOMAIN v = ChatFields
    BY <2>1 DEF ChatLike
  <2> HIDE DEF v
  <2>3. ChatLike(a, s)
    BY <1>1, <1>3, <2>1
  <2>4. a.progress = s.progress + 1
    BY <1>1, <2>1, <2>2 DEF ChatFields, BaseFields, Chat!Advance
  <2> HIDE DEF a
  <2>5. ChatLike(b, s) /\ b.progress = a.progress
    BY <2>3, <2>4 DEF ChatFields, BaseFields, ChatLike
  <2> HIDE DEF b
  <2>6. ChatLike(Chat!Advance(b), s)
    BY <1>1, <1>3, <2>4, <2>5
  <2>7. Chat!Ended(s) = Chat!Advance(b)
    BY DEF Chat!Ended, Chat!Terminal, a, b, v
  <2> QED
    BY <2>6, <2>7
<1>10. \A new2 \in BOOLEAN : ChatLike(Chat!AdvanceIf(s, new2), s)
  BY <1>2, <1>4 DEF Chat!AdvanceIf
<1> QED
  BY <1>4, <1>5, <1>6, <1>7, <1>8, <1>9, <1>10
-----------------------------------------------------------------------------
(* The loops over a chunk's calls and over the tools.                      *)
Round(loop, s, x) ==
  CASE loop = "PassCalls"    -> Chat!PassCall(s, x)
    [] loop = "ClaudeCalls"  -> Chat!ClaudeCall(s, x)
    [] loop = "RespondCalls" -> Chat!RespondCall(s, x)
    [] loop = "CloseTools"   -> Chat!CloseTool(s, x)
    [] loop = "FinishTools"  -> Chat!FinishTool(s, x)

(* A loop of N rounds over q, from s. *)
LoopOf(f, N, loop, q, s) ==
  f = [n \in 0..N |-> IF n = 0 THEN s ELSE Round(loop, f[n - 1], q[n])]

(* Any of them can be run. *)
LEMMA LoopRuns ==
  ASSUME NEW loop, NEW N \in Nat, NEW q, NEW s
  PROVE  \E f : LoopOf(f, N, loop, q, s)
<1> DEFINE
     Run(f, m) == f = [n \in 0..m |-> IF n = 0 THEN s ELSE Round(loop, f[n - 1], q[n])]
     T == {m \in 0..N : \E f : Run(f, m)}
<1>1. 0 \in T
  <2> DEFINE f == [n \in 0..0 |-> s]
  <2>1. Run(f, 0)
    OBVIOUS
  <2> HIDE DEF f, Run
  <2>2. \E g : Run(g, 0)
    BY <2>1
  <2> QED
    BY <2>2
<1>2. ASSUME NEW m \in 0..N, m \in T, m + 1 <= N
      PROVE  m + 1 \in T
  <2>1. PICK f : Run(f, m)
    BY <1>2
  <2> DEFINE h == Round(loop, f[m], q[m + 1])
             g == [n \in 0..(m + 1) |-> IF n <= m THEN f[n] ELSE h]
             r == [n \in 0..(m + 1) |-> IF n = 0 THEN s ELSE Round(loop, g[n - 1], q[n])]
  <2>2. \A n \in 0..m : f[n] = IF n = 0 THEN s ELSE Round(loop, f[n - 1], q[n])
    BY <2>1
  <2>3. ASSUME NEW n \in 0..(m + 1)
        PROVE  g[n] = r[n]
    <3>1. CASE n = 0
      <4>1. g[n] = f[0] /\ r[n] = s
        BY <3>1, <1>2
      <4>2. f[0] = s
        BY <2>2, <1>2
      <4> QED
        BY <4>1, <4>2
    <3>2. CASE n \in 1..m
      <4>1. g[n] = f[n] /\ g[n - 1] = f[n - 1] /\ n # 0 /\ n \in 0..m
        BY <3>2, <1>2
      <4>2. r[n] = Round(loop, g[n - 1], q[n])
        BY <4>1
      <4> HIDE DEF g, r
      <4> QED
        BY <2>2, <4>1, <4>2
    <3>3. CASE n = m + 1
      <4>1. g[n] = h /\ g[n - 1] = f[m] /\ n # 0
        BY <3>3, <1>2
      <4>2. r[n] = Round(loop, g[n - 1], q[n])
        BY <4>1
      <4> HIDE DEF g, r
      <4> QED
        BY <4>1, <4>2, <3>3
    <3> QED
      BY <1>2, <3>1, <3>2, <3>3
  <2>4. g = r
    BY <2>3
  <2>5. Run(g, m + 1)
    BY <2>4
  <2> HIDE DEF g, Run
  <2> QED
    BY <1>2, <2>5
<1> HIDE DEF T
<1>3. 0..N \subseteq T
  BY <1>1, <1>2, BoundedInduction
<1>4. \E f : Run(f, N)
  BY <1>3 DEF T
<1> QED
  BY <1>4 DEF LoopOf

(* A loop's rounds, and its end. *)
IsLoop(f, N, loop, q, s) ==
  /\ f[0] = s
  /\ \A n \in 1..N : f[n] = Round(loop, f[n - 1], q[n])

(* To close the tools is a loop over their order.                          *)
LEMMA CloseToolsRuns ==
  ASSUME NEW s, s.order \in Seq(Nat)
  PROVE  \E f : /\ IsLoop(f, Len(s.order), "CloseTools", s.order, s)
                /\ Chat!CloseTools(s) = f[Len(s.order)]
<1> DEFINE N == Len(s.order)
           Is(f) == f = [n \in 0..N |-> IF n = 0 THEN s
                                        ELSE Chat!CloseTool(f[n - 1], s.order[n])]
           k == CHOOSE f : Is(f)
<1>1. N \in Nat
  OBVIOUS
<1>2. PICK f : LoopOf(f, N, "CloseTools", s.order, s)
  BY <1>1, LoopRuns
<1>3. Is(f)
  BY <1>2 DEF LoopOf, Round
<1>4. Is(k)
  BY <1>3
<1>5. Chat!CloseTools(s) = k[N]
  BY DEF Chat!CloseTools
<1> HIDE DEF k
<1>6. k[0] = s /\ \A n \in 1..N : k[n] = Round("CloseTools", k[n - 1], s.order[n])
  BY <1>1, <1>4 DEF Round
<1> QED
  BY <1>5, <1>6 DEF IsLoop

(* So is to finish them.                                                   *)
LEMMA FinishToolsRuns ==
  ASSUME NEW s, s.order \in Seq(Nat)
  PROVE  \E f : /\ IsLoop(f, Len(s.order), "FinishTools", s.order, s)
                /\ Chat!FinishTools(s) = f[Len(s.order)]
<1> DEFINE N == Len(s.order)
           Is(f) == f = [n \in 0..N |-> IF n = 0 THEN s
                                        ELSE Chat!FinishTool(f[n - 1], s.order[n])]
           k == CHOOSE f : Is(f)
<1>1. N \in Nat
  OBVIOUS
<1>2. PICK f : LoopOf(f, N, "FinishTools", s.order, s)
  BY <1>1, LoopRuns
<1>3. Is(f)
  BY <1>2 DEF LoopOf, Round
<1>4. Is(k)
  BY <1>3
<1>5. Chat!FinishTools(s) = k[N]
  BY DEF Chat!FinishTools
<1> HIDE DEF k
<1>6. k[0] = s /\ \A n \in 1..N : k[n] = Round("FinishTools", k[n - 1], s.order[n])
  BY <1>1, <1>4 DEF Round
<1> QED
  BY <1>5, <1>6 DEF IsLoop

(* The calls of a chunk that is passed on are taken in a loop.             *)
LEMMA PassCallsRuns ==
  ASSUME NEW s, NEW calls \in Seq(Chat!Calls)
  PROVE  \E f : /\ IsLoop(f, Len(calls), "PassCalls", calls, s)
                /\ Chat!PassCalls(s, calls) = f[Len(calls)]
<1> DEFINE N == Len(calls)
           Is(f) == f = [n \in 0..N |-> IF n = 0 THEN s
                                        ELSE Chat!PassCall(f[n - 1], calls[n])]
           k == CHOOSE f : Is(f)
<1>1. N \in Nat
  OBVIOUS
<1>2. PICK f : LoopOf(f, N, "PassCalls", calls, s)
  BY <1>1, LoopRuns
<1>3. Is(f)
  BY <1>2 DEF LoopOf, Round
<1>4. Is(k)
  BY <1>3
<1>5. Chat!PassCalls(s, calls) = k[N]
  BY DEF Chat!PassCalls
<1> HIDE DEF k
<1>6. k[0] = s /\ \A n \in 1..N : k[n] = Round("PassCalls", k[n - 1], calls[n])
  BY <1>1, <1>4 DEF Round
<1> QED
  BY <1>5, <1>6 DEF IsLoop

(* So are those for a Messages client.                                     *)
LEMMA ClaudeCallsRuns ==
  ASSUME NEW s, NEW calls \in Seq(Chat!Calls)
  PROVE  \E f : /\ IsLoop(f, Len(calls), "ClaudeCalls", calls, s)
                /\ Chat!ClaudeCalls(s, calls) = f[Len(calls)]
<1> DEFINE N == Len(calls)
           Is(f) == f = [n \in 0..N |-> IF n = 0 THEN s
                                        ELSE Chat!ClaudeCall(f[n - 1], calls[n])]
           k == CHOOSE f : Is(f)
<1>1. N \in Nat
  OBVIOUS
<1>2. PICK f : LoopOf(f, N, "ClaudeCalls", calls, s)
  BY <1>1, LoopRuns
<1>3. Is(f)
  BY <1>2 DEF LoopOf, Round
<1>4. Is(k)
  BY <1>3
<1>5. Chat!ClaudeCalls(s, calls) = k[N]
  BY DEF Chat!ClaudeCalls
<1> HIDE DEF k
<1>6. k[0] = s /\ \A n \in 1..N : k[n] = Round("ClaudeCalls", k[n - 1], calls[n])
  BY <1>1, <1>4 DEF Round
<1> QED
  BY <1>5, <1>6 DEF IsLoop

(* So are those for a Responses client.                                    *)
LEMMA RespondCallsRuns ==
  ASSUME NEW s, NEW calls \in Seq(Chat!Calls)
  PROVE  \E f : /\ IsLoop(f, Len(calls), "RespondCalls", calls, s)
                /\ Chat!RespondCalls(s, calls) = f[Len(calls)]
<1> DEFINE N == Len(calls)
           Is(f) == f = [n \in 0..N |-> IF n = 0 THEN s
                                        ELSE Chat!RespondCall(f[n - 1], calls[n])]
           k == CHOOSE f : Is(f)
<1>1. N \in Nat
  OBVIOUS
<1>2. PICK f : LoopOf(f, N, "RespondCalls", calls, s)
  BY <1>1, LoopRuns
<1>3. Is(f)
  BY <1>2 DEF LoopOf, Round
<1>4. Is(k)
  BY <1>3
<1>5. Chat!RespondCalls(s, calls) = k[N]
  BY DEF Chat!RespondCalls
<1> HIDE DEF k
<1>6. k[0] = s /\ \A n \in 1..N : k[n] = Round("RespondCalls", k[n - 1], calls[n])
  BY <1>1, <1>4 DEF Round
<1> QED
  BY <1>5, <1>6 DEF IsLoop

(* To close block b is to forget that it is open, and to say so.           *)
Closing(v, s, b) ==
  /\ DOMAIN v = ChatFields
  /\ v.sourceFormat = s.sourceFormat /\ v.next = s.next /\ v.said = s.said
  /\ v.order = s.order /\ v.items = s.items /\ v.progress = s.progress
  /\ v.started = s.started /\ v.finished = s.finished /\ v.terminalSeen = s.terminalSeen
  /\ v.done = s.done /\ v.failed = s.failed
  /\ v.held = s.held /\ v.terminalSent = s.terminalSent /\ v.usage = s.usage
  /\ v.think = IF s.think = b THEN Closed ELSE s.think
  /\ v.text = IF s.text = b THEN Closed ELSE s.text
  /\ DOMAIN v.tools = DOMAIN s.tools
  /\ \A i \in DOMAIN s.tools :
       /\ v.tools[i] \in Chat!Tool
       /\ v.tools[i].block = s.tools[i].block
       /\ v.tools[i].announced = s.tools[i].announced
       /\ v.tools[i].custom = s.tools[i].custom
       /\ v.tools[i].got = s.tools[i].got /\ v.tools[i].sent = s.tools[i].sent
       /\ v.tools[i].stopped <=> (s.tools[i].stopped \/ s.tools[i].block = b)

(* What closing blocks leaves as it is.                                    *)
After(t, s) ==
  /\ ChatInv(t)
  /\ t.sourceFormat = s.sourceFormat /\ t.next = s.next /\ t.order = s.order
  /\ Opened(t.said) = Opened(s.said)
  /\ t.think \in {Closed, s.think} /\ t.text \in {Closed, s.text}
  /\ DOMAIN t.tools = DOMAIN s.tools
  /\ \A i \in DOMAIN s.tools : /\ s.tools[i].stopped => t.tools[i].stopped
                               /\ t.tools[i].block = s.tools[i].block

(* To close nothing leaves all as it is.                                   *)
LEMMA AfterItself ==
  ASSUME NEW s, ChatInv(s)
  PROVE  After(s, s)
BY DEF After

(* To close some blocks and then others is to close blocks.                *)
LEMMA AfterAfter ==
  ASSUME NEW s, NEW t, NEW u, After(t, s), After(u, t)
  PROVE  After(u, s)
BY DEF After

(* A block that is open is closed: once, and no other.                     *)
LEMMA ChatCloses ==
  ASSUME NEW s, ChatInv(s), s.sourceFormat # "openai", NEW b \in Opened(s.said) \ Shut(s.said),
         NEW v, Closing(v, s, b)
  PROVE  /\ After(Chat!CloseBlock(v, b), s)
         /\ Chat!CloseBlock(v, b).think = v.think /\ Chat!CloseBlock(v, b).text = v.text
         /\ \A i \in DOMAIN s.tools :
              s.tools[i].block = b => Chat!CloseBlock(v, b).tools[i].stopped
<1> DEFINE x == Chat!Stop(b)
           d == IF v.sourceFormat = "openai-response" THEN v.items \union {b} ELSE v.items
           u == [v EXCEPT !.items = d]
           t == Chat!Say(u, <<x>>)
<1>1. Chat!CloseBlock(v, b) = t
  BY DEF Chat!CloseBlock
<1>2. x.ev = "stop" /\ x.block = b
  BY DEF Chat!Stop
<1> HIDE DEF x
<1>3. /\ DOMAIN u = ChatFields /\ u.said = s.said
      /\ u.sourceFormat = s.sourceFormat /\ u.next = s.next /\ u.order = s.order
      /\ u.items = d /\ u.progress = s.progress
      /\ u.started = s.started /\ u.finished = s.finished /\ u.terminalSeen = s.terminalSeen
      /\ u.done = s.done /\ u.failed = s.failed
      /\ u.held = s.held /\ u.terminalSent = s.terminalSent /\ u.usage = s.usage
      /\ u.think = v.think /\ u.text = v.text /\ u.tools = v.tools
  BY DEF Closing, ChatFields, BaseFields
<1>d. d \in {s.items, s.items \union {b}}
  BY DEF Closing
<1>e. s.sourceFormat = "openai-response" => d = s.items \union {b}
  BY DEF Closing
<1> HIDE DEF u, d
<1>4. ChatSame(t, u) /\ t.said = u.said \o <<x>>
  BY <1>3, ChatSaysAny
<1> HIDE DEF t
<1>5. /\ Lawful(t.said, s.sourceFormat)
      /\ Opened(t.said) = Opened(s.said) /\ Tooled(t.said) = Tooled(s.said)
      /\ Shut(t.said) = Shut(s.said) \union {b}
  <2>1. Lawful(s.said, s.sourceFormat)
    BY DEF ChatInv, ChatHalf, Common
  <2>2. MayTell(s.said, s.sourceFormat, x)
    BY <1>2 DEF MayTell
  <2>3. t.said = s.said \o <<x>>
    BY <1>3, <1>4
  <2> QED
    BY <1>2, <2>1, <2>2, <2>3, Tells
<1>6. /\ t.sourceFormat = s.sourceFormat /\ t.next = s.next /\ t.order = s.order
      /\ t.items = d /\ t.think = v.think /\ t.text = v.text /\ t.tools = v.tools
  BY <1>3, <1>4 DEF ChatSame
<1>7. ChatHalf(s, {}) /\ Common(s) /\ ChatTyped(s) /\ ChatTools(s) /\ ChatBlocks(s)
  BY DEF ChatInv, ChatHalf
<1>8. b \in 0..(s.next - 1) /\ s.next \in Nat /\ b # Closed
  BY <1>7 DEF Common, Closed
<1>9. Common(t)
  <2>1. Lawful(t.said, t.sourceFormat)
    BY <1>5, <1>6
  <2> QED
    BY <1>3, <1>4, <1>5, <1>7, <2>1 DEF Common, ChatSame
<1>10. ChatTyped(t)
  <2>1. t.think \in Closed..(t.next - 1) /\ t.text \in Closed..(t.next - 1)
    BY <1>6, <1>7, <1>8 DEF ChatTyped, Closing, Closed
  <2>2. t.items \subseteq 0..(t.next - 1)
    BY <1>6, <1>7, <1>8, <1>d DEF ChatTyped
  <2> QED
    BY <1>3, <1>4, <1>7, <2>1, <2>2 DEF ChatTyped, ChatSame
<1>11. ChatTools(t)
  BY <1>6, <1>7 DEF ChatTools, Closing
<1>12. ChatBlocks(t)
  <2>1. OpenFor(t.think, t.said) /\ OpenFor(t.text, t.said)
    BY <1>5, <1>6, <1>7 DEF ChatBlocks, Closing, OpenFor
  <2>2. t.think = t.text => t.think = Closed
    BY <1>6, <1>7 DEF ChatBlocks, Closing
  <2>3. ASSUME NEW i \in DOMAIN t.tools
        PROVE  /\ t.tools[i].block \in 0..(t.next - 1)
               /\ t.tools[i].block \notin {t.think, t.text}
               /\ t.tools[i].stopped <=> t.tools[i].block \in Shut(t.said)
    <3>1. /\ i \in DOMAIN s.tools /\ t.tools[i].block = s.tools[i].block
          /\ t.tools[i].stopped <=> (s.tools[i].stopped \/ s.tools[i].block = b)
      BY <1>6, <2>3 DEF Closing
    <3>2. t.tools[i].block \in 0..(t.next - 1)
      BY <1>6, <1>7, <3>1 DEF ChatBlocks
    <3>3. t.tools[i].block \notin {t.think, t.text}
      <4>1. t.tools[i].block # Closed
        BY <1>6, <1>8, <3>2 DEF Closed
      <4> QED
        BY <1>6, <1>7, <3>1, <4>1 DEF ChatBlocks, Closing
    <3> QED
      BY <1>5, <1>7, <3>1, <3>2, <3>3 DEF ChatBlocks
  <2>4. \A i, j \in DOMAIN t.tools : t.tools[i].block = t.tools[j].block => i = j
    BY <1>6, <1>7 DEF ChatBlocks, Closing
  <2>5. ASSUME NEW c \in Opened(t.said) \ Shut(t.said)
        PROVE  c \in {t.think, t.text} \/ \E i \in DOMAIN t.tools : t.tools[i].block = c
    BY <1>5, <1>6, <1>7, <2>5 DEF ChatBlocks, Closing
  <2> QED
    BY <2>1, <2>2, <2>3, <2>4, <2>5 DEF ChatBlocks
<1>13. t.sourceFormat = "claude" => ClaudeTold(t)
  <2> SUFFICES ASSUME s.sourceFormat = "claude" PROVE ClaudeTold(t)
    BY <1>6
  <2>1. ClaudeTold(s)
    BY <1>7 DEF ChatHalf
  <2> QED
    BY <1>5, <1>6, <2>1 DEF ClaudeTold, Closing
<1>14. t.sourceFormat = "openai-response" => RespondTold(t, {})
  <2> SUFFICES ASSUME s.sourceFormat = "openai-response" PROVE RespondTold(t, {})
    BY <1>6
  <2>1. RespondTold(s, {})
    BY <1>7 DEF ChatHalf
  <2>2. t.items = Shut(t.said)
    BY <1>5, <1>6, <1>e, <2>1 DEF RespondTold
  <2> QED
    BY <1>5, <1>6, <2>1, <2>2 DEF RespondTold, Closing, Served
<1>15. ChatInv(t)
  BY <1>9, <1>10, <1>11, <1>12, <1>13, <1>14 DEF ChatInv, ChatHalf
<1>16. After(t, s)
  BY <1>5, <1>6, <1>15 DEF After, Closing
<1>17. \A i \in DOMAIN s.tools : s.tools[i].block = b => t.tools[i].stopped
  BY <1>6 DEF Closing
<1> QED
  BY <1>1, <1>6, <1>16, <1>17
-----------------------------------------------------------------------------
(* The thinking block, if it is open.                                      *)
LEMMA ClosesThinking ==
  ASSUME NEW s, ChatInv(s), s.sourceFormat # "openai"
  PROVE  /\ After(Chat!CloseThinking(s), s)
         /\ Chat!CloseThinking(s).think = Closed /\ Chat!CloseThinking(s).text = s.text
         /\ Chat!CloseThinking(s).tools = s.tools
<1> DEFINE t == Chat!CloseThinking(s)
           b == s.think
           v == [s EXCEPT !.think = Closed]
<1>1. CASE s.think = Closed
  <2>1. t = s
    BY <1>1 DEF Chat!CloseThinking, Chat!Closed, Closed
  <2> QED
    BY <1>1, <2>1, AfterItself
<1>2. CASE s.think # Closed
  <2>1. t = Chat!CloseBlock(v, b)
    BY <1>2 DEF Chat!CloseThinking, Chat!Closed, Closed
  <2>2. /\ DOMAIN s = ChatFields /\ ChatTyped(s) /\ ChatBlocks(s) /\ ChatTools(s)
    BY DEF ChatInv, ChatHalf, ChatTyped
  <2>3. b \in Opened(s.said) \ Shut(s.said)
    BY <1>2, <2>2 DEF ChatBlocks, OpenFor
  <2>4. Closing(v, s, b) /\ v.think = Closed /\ v.text = s.text /\ v.tools = s.tools
    <3>1. s.text # b
      BY <1>2, <2>2 DEF ChatBlocks
    <3>2. \A i \in DOMAIN s.tools : s.tools[i].block # b /\ s.tools[i] \in Chat!Tool
      BY <2>2 DEF ChatBlocks, ChatTools
    <3>3. v.think = Closed /\ v.text = s.text /\ v.tools = s.tools
      BY <2>2 DEF ChatFields, BaseFields
    <3> QED
      BY <2>2, <3>1, <3>2, <3>3 DEF ChatFields, BaseFields, Closing
  <2>5. (Chat!CloseBlock(v, b)).tools = v.tools
    BY <2>4, ChatSaysAny DEF Closing, Chat!CloseBlock, Chat!Say, ChatFields, BaseFields
  <2> HIDE DEF v, b, t
  <2>6. /\ After(Chat!CloseBlock(v, b), s)
        /\ Chat!CloseBlock(v, b).think = v.think /\ Chat!CloseBlock(v, b).text = v.text
    BY <2>3, <2>4, ChatCloses
  <2>7. After(t, s) /\ t.think = Closed /\ t.text = s.text /\ t.tools = s.tools
    BY <2>1, <2>4, <2>5, <2>6
  <2> QED
    BY <2>7 DEF t
<1> QED
  BY <1>1, <1>2

(* The text block, if it is open.                                          *)
LEMMA ClosesText ==
  ASSUME NEW s, ChatInv(s), s.sourceFormat # "openai"
  PROVE  /\ After(Chat!CloseText(s), s)
         /\ Chat!CloseText(s).text = Closed /\ Chat!CloseText(s).think = s.think
         /\ Chat!CloseText(s).tools = s.tools
<1> DEFINE t == Chat!CloseText(s)
           b == s.text
           v == [s EXCEPT !.text = Closed]
<1>1. CASE s.text = Closed
  <2>1. t = s
    BY <1>1 DEF Chat!CloseText, Chat!Closed, Closed
  <2> QED
    BY <1>1, <2>1, AfterItself
<1>2. CASE s.text # Closed
  <2>1. t = Chat!CloseBlock(v, b)
    BY <1>2 DEF Chat!CloseText, Chat!Closed, Closed
  <2>2. /\ DOMAIN s = ChatFields /\ ChatTyped(s) /\ ChatBlocks(s) /\ ChatTools(s)
    BY DEF ChatInv, ChatHalf, ChatTyped
  <2>3. b \in Opened(s.said) \ Shut(s.said)
    BY <1>2, <2>2 DEF ChatBlocks, OpenFor
  <2>4. Closing(v, s, b) /\ v.text = Closed /\ v.think = s.think /\ v.tools = s.tools
    <3>1. s.think # b
      BY <1>2, <2>2 DEF ChatBlocks
    <3>2. \A i \in DOMAIN s.tools : s.tools[i].block # b /\ s.tools[i] \in Chat!Tool
      BY <2>2 DEF ChatBlocks, ChatTools
    <3>3. v.text = Closed /\ v.think = s.think /\ v.tools = s.tools
      BY <2>2 DEF ChatFields, BaseFields
    <3> QED
      BY <2>2, <3>1, <3>2, <3>3 DEF ChatFields, BaseFields, Closing
  <2>5. (Chat!CloseBlock(v, b)).tools = v.tools
    BY <2>4, ChatSaysAny DEF Closing, Chat!CloseBlock, Chat!Say, ChatFields, BaseFields
  <2> HIDE DEF v, b, t
  <2>6. /\ After(Chat!CloseBlock(v, b), s)
        /\ Chat!CloseBlock(v, b).think = v.think /\ Chat!CloseBlock(v, b).text = v.text
    BY <2>3, <2>4, ChatCloses
  <2>7. After(t, s) /\ t.text = Closed /\ t.think = s.think /\ t.tools = s.tools
    BY <2>1, <2>4, <2>5, <2>6
  <2> QED
    BY <2>7 DEF t
<1> QED
  BY <1>1, <1>2

(* A tool can be closed if its block is open, or has been closed.          *)
Closable1(s, i) == s.tools[i].stopped \/ s.tools[i].block \in Opened(s.said)

(* A tool's block, if it is not closed yet.                                *)
LEMMA ClosesTool ==
  ASSUME NEW s, ChatInv(s), s.sourceFormat # "openai",
         NEW i \in DOMAIN s.tools, Closable1(s, i)
  PROVE  /\ After(Chat!CloseTool(s, i), s)
         /\ Chat!CloseTool(s, i).think = s.think /\ Chat!CloseTool(s, i).text = s.text
         /\ Chat!CloseTool(s, i).tools[i].stopped
<1> DEFINE t == Chat!CloseTool(s, i)
           b == s.tools[i].block
           v == [s EXCEPT !.tools[i].stopped = TRUE]
<1>1. CASE s.tools[i].stopped
  <2>1. t = s
    BY <1>1 DEF Chat!CloseTool
  <2> QED
    BY <1>1, <2>1, AfterItself
<1>2. CASE ~s.tools[i].stopped
  <2>1. t = Chat!CloseBlock(v, b)
    BY <1>2 DEF Chat!CloseTool
  <2>2. /\ DOMAIN s = ChatFields /\ ChatTyped(s) /\ ChatBlocks(s) /\ ChatTools(s)
    BY DEF ChatInv, ChatHalf, ChatTyped
  <2>3. b \in Opened(s.said) \ Shut(s.said)
    BY <1>2, <2>2 DEF ChatBlocks, Closable1
  <2>4. Closing(v, s, b) /\ v.text = s.text /\ v.think = s.think
    <3>1. s.think # b /\ s.text # b
      BY <1>2, <2>2 DEF ChatBlocks
    <3>2. \A j \in DOMAIN s.tools : (s.tools[j].block = b <=> j = i) /\ s.tools[j] \in Chat!Tool
      BY <2>2 DEF ChatBlocks, ChatTools
    <3> DEFINE q == [s.tools[i] EXCEPT !.stopped = TRUE]
    <3>3. /\ v.text = s.text /\ v.think = s.think
          /\ v.tools = [s.tools EXCEPT ![i] = q]
      BY <2>2 DEF ChatFields, BaseFields
    <3>4. /\ q \in Chat!Tool /\ q.block = b /\ q.announced = s.tools[i].announced
          /\ q.custom = s.tools[i].custom /\ q.got = s.tools[i].got
          /\ q.sent = s.tools[i].sent /\ q.stopped
      BY <3>2 DEF Chat!Tool
    <3> HIDE DEF q
    <3>5. /\ DOMAIN v.tools = DOMAIN s.tools
          /\ \A j \in DOMAIN s.tools : v.tools[j] = IF j = i THEN q ELSE s.tools[j]
      BY <3>3
    <3>6. \A j \in DOMAIN s.tools :
            /\ v.tools[j] \in Chat!Tool
            /\ v.tools[j].block = s.tools[j].block
            /\ v.tools[j].announced = s.tools[j].announced
            /\ v.tools[j].custom = s.tools[j].custom
            /\ v.tools[j].got = s.tools[j].got /\ v.tools[j].sent = s.tools[j].sent
            /\ v.tools[j].stopped <=> (s.tools[j].stopped \/ s.tools[j].block = b)
      BY <3>2, <3>4, <3>5
    <3>7. /\ DOMAIN v = ChatFields
          /\ v.sourceFormat = s.sourceFormat /\ v.next = s.next /\ v.said = s.said
          /\ v.order = s.order /\ v.items = s.items /\ v.progress = s.progress
          /\ v.started = s.started /\ v.finished = s.finished
          /\ v.terminalSeen = s.terminalSeen
          /\ v.done = s.done /\ v.failed = s.failed
          /\ v.held = s.held /\ v.terminalSent = s.terminalSent /\ v.usage = s.usage
      BY <2>2 DEF ChatFields, BaseFields
    <3> HIDE DEF v, b
    <3> QED
      BY <3>1, <3>3, <3>5, <3>6, <3>7 DEF Closing
  <2> HIDE DEF v, t
  <2>6. /\ After(Chat!CloseBlock(v, b), s)
        /\ Chat!CloseBlock(v, b).think = v.think /\ Chat!CloseBlock(v, b).text = v.text
        /\ Chat!CloseBlock(v, b).tools[i].stopped
    BY <2>3, <2>4, ChatCloses
  <2>7. After(t, s) /\ t.text = s.text /\ t.think = s.think /\ t.tools[i].stopped
    BY <2>1, <2>4, <2>6
  <2> QED
    BY <2>7 DEF t
<1> QED
  BY <1>1, <1>2

(* All of them.                                                            *)
LEMMA ClosesTools ==
  ASSUME NEW s, ChatInv(s), s.sourceFormat # "openai",
         \A i \in DOMAIN s.tools : Closable1(s, i)
  PROVE  /\ After(Chat!CloseTools(s), s)
         /\ Chat!CloseTools(s).think = s.think /\ Chat!CloseTools(s).text = s.text
         /\ \A i \in DOMAIN s.tools : Chat!CloseTools(s).tools[i].stopped
<1> DEFINE N == Len(s.order)
<1>1. s.order \in Seq(Nat) /\ N \in Nat /\ DOMAIN s.order = 1..N
  BY DEF ChatInv, ChatHalf, ChatTools
<1>2. PICK f : IsLoop(f, N, "CloseTools", s.order, s) /\ Chat!CloseTools(s) = f[N]
  BY <1>1, CloseToolsRuns
<1> DEFINE P(t, n) == /\ After(t, s) /\ t.think = s.think /\ t.text = s.text
                      /\ \A k \in 1..n : t.tools[s.order[k]].stopped
           T == {n \in 0..N : P(f[n], n)}
<1> HIDE DEF N
<1>3. 0 \in T
  BY <1>1, <1>2, AfterItself DEF IsLoop
<1>4. ASSUME NEW n \in 0..N, n \in T, n + 1 <= N
      PROVE  n + 1 \in T
  <2> DEFINE t == f[n]
             u == f[n + 1]
             i == s.order[n + 1]
  <2>1. n + 1 \in 1..N /\ (n + 1) - 1 = n /\ n + 1 \in 0..N
    BY <1>1, <1>4
  <2>2. u = Chat!CloseTool(t, i)
    BY <1>2, <2>1 DEF IsLoop, Round
  <2>3. P(t, n)
    BY <1>4
  <2>4. i \in DOMAIN s.tools
    BY <1>1, <2>1 DEF ChatInv, ChatHalf, ChatTools
  <2> HIDE DEF t, u, i
  <2>5. ChatInv(t) /\ t.sourceFormat # "openai" /\ i \in DOMAIN t.tools /\ Closable1(t, i)
    BY <2>3, <2>4 DEF After, Closable1
  <2>6. /\ After(u, t) /\ u.think = t.think /\ u.text = t.text /\ u.tools[i].stopped
    BY <2>2, <2>5, ClosesTool
  <2>7. After(u, s)
    BY <2>3, <2>6, AfterAfter
  <2>8. \A k \in 1..(n + 1) : u.tools[s.order[k]].stopped
    <3> SUFFICES ASSUME NEW k \in 1..(n + 1) PROVE u.tools[s.order[k]].stopped
      OBVIOUS
    <3>1. CASE k = n + 1
      BY <2>6, <3>1 DEF i
    <3>2. CASE k \in 1..n
      <4>1. s.order[k] \in DOMAIN s.tools
        BY <1>1, <1>4, <3>2 DEF ChatInv, ChatHalf, ChatTools
      <4> QED
        BY <2>3, <2>6, <3>2, <4>1 DEF After
    <3> QED
      BY <1>4, <3>1, <3>2
  <2>9. P(u, n + 1)
    BY <2>3, <2>6, <2>7, <2>8
  <2> HIDE DEF P
  <2> QED
    BY <2>1, <2>9 DEF u
<1> HIDE DEF T
<1>5. 0..N \subseteq T
  BY <1>1, <1>3, <1>4, BoundedInduction DEF N
<1>6. P(f[N], N)
  BY <1>1, <1>5 DEF T
<1>7. ASSUME NEW i \in DOMAIN s.tools
      PROVE  f[N].tools[i].stopped
  <2>1. PICK k \in 1..N : s.order[k] = i
    BY <1>1 DEF ChatInv, ChatHalf, ChatTools
  <2> QED
    BY <1>6, <2>1
<1> QED
  BY <1>2, <1>6, <1>7

(* stopBlocks leaves no block open.                                        *)
LEMMA StopsBlocks ==
  ASSUME NEW s, ChatInv(s), s.sourceFormat # "openai",
         \A i \in DOMAIN s.tools : Closable1(s, i)
  PROVE  /\ After(Chat!StopBlocks(s), s)
         /\ Chat!StopBlocks(s).think = Closed /\ Chat!StopBlocks(s).text = Closed
         /\ \A i \in DOMAIN s.tools : Chat!StopBlocks(s).tools[i].stopped
<1> DEFINE a == Chat!CloseThinking(s)
           b == Chat!CloseText(a)
           c == Chat!CloseTools(b)
<1>1. After(a, s) /\ a.think = Closed
  BY ClosesThinking
<1> HIDE DEF a
<1>2. ChatInv(a) /\ a.sourceFormat # "openai"
  BY <1>1 DEF After
<1>3. After(b, a) /\ b.think = Closed /\ b.text = Closed
  BY <1>1, <1>2, ClosesText
<1> HIDE DEF b
<1>4. After(b, s)
  BY <1>1, <1>3, AfterAfter
<1>5. /\ ChatInv(b) /\ b.sourceFormat # "openai"
      /\ \A i \in DOMAIN b.tools : Closable1(b, i)
  BY <1>4 DEF After, Closable1
<1>6. /\ After(c, b) /\ c.think = Closed /\ c.text = Closed
      /\ \A i \in DOMAIN b.tools : c.tools[i].stopped
  BY <1>3, <1>5, ClosesTools
<1> HIDE DEF c
<1>7. After(c, s) /\ \A i \in DOMAIN s.tools : c.tools[i].stopped
  <2>1. DOMAIN b.tools = DOMAIN s.tools
    BY <1>4 DEF After
  <2> QED
    BY <1>4, <1>6, <2>1, AfterAfter
<1>8. Chat!StopBlocks(s) = c
  BY DEF Chat!StopBlocks, a, b, c
<1> QED
  BY <1>6, <1>7, <1>8
-----------------------------------------------------------------------------
(* s with tool t at index i.                                               *)
PutTools(s, i, t) == [j \in DOMAIN s.tools \union {i} |-> IF j = i THEN t ELSE s.tools[j]]

Put(v, s, i, t) ==
  /\ DOMAIN v = ChatFields
  /\ v.sourceFormat = s.sourceFormat /\ v.next = s.next /\ v.said = s.said
  /\ v.items = s.items /\ v.progress = s.progress
  /\ v.started = s.started /\ v.finished = s.finished /\ v.terminalSeen = s.terminalSeen
  /\ v.done = s.done /\ v.failed = s.failed
  /\ v.held = s.held /\ v.terminalSent = s.terminalSent /\ v.usage = s.usage
  /\ v.think = s.think /\ v.text = s.text
  /\ v.tools = PutTools(s, i, t)
  /\ v.order = IF i \in DOMAIN s.tools THEN s.order ELSE Append(s.order, i)

(* WithTool puts a tool in its place, a new one at the end of the order.   *)
LEMMA WithToolPuts ==
  ASSUME NEW s, DOMAIN s = ChatFields, NEW i, NEW t
  PROVE  Put(Chat!WithTool(s, i, t), s, i, t)
<1> DEFINE q == PutTools(s, i, t)
           p == IF i \in DOMAIN s.tools THEN s.order ELSE Append(s.order, i)
           v == [[s EXCEPT !.tools = q] EXCEPT !.order = p]
<1>1. Chat!WithTool(s, i, t) = v
  BY DEF Chat!WithTool, PutTools
<1> HIDE DEF q, p
<1>2. v.tools = q /\ v.order = p
  BY DEF ChatFields, BaseFields
<1>3. /\ DOMAIN v = ChatFields
      /\ v.sourceFormat = s.sourceFormat /\ v.next = s.next /\ v.said = s.said
      /\ v.items = s.items /\ v.progress = s.progress
      /\ v.started = s.started /\ v.finished = s.finished /\ v.terminalSeen = s.terminalSeen
      /\ v.done = s.done /\ v.failed = s.failed
      /\ v.held = s.held /\ v.terminalSent = s.terminalSent /\ v.usage = s.usage
      /\ v.think = s.think /\ v.text = s.text
  BY DEF ChatFields, BaseFields
<1> HIDE DEF v
<1> QED
  BY <1>1, <1>2, <1>3 DEF Put, p, q

(* The tools then are the others and this one.                             *)
LEMMA PutIs ==
  ASSUME NEW s, NEW i, NEW t, NEW v, Put(v, s, i, t)
  PROVE  /\ DOMAIN v.tools = DOMAIN s.tools \union {i} /\ v.tools[i] = t
         /\ \A j \in DOMAIN s.tools : j # i => v.tools[j] = s.tools[j]
BY DEF Put, PutTools

(* The order still lists every tool once.                                  *)
LEMMA PutTyped ==
  ASSUME NEW s, NEW new, ChatHalf(s, new), NEW i \in Nat, NEW t \in Chat!Tool,
         NEW v, Put(v, s, i, t)
  PROVE  Common(v) /\ ChatTyped(v) /\ ChatTools(v)
<1>1. /\ DOMAIN v.tools = DOMAIN s.tools \union {i} /\ v.tools[i] = t
      /\ \A j \in DOMAIN s.tools : j # i => v.tools[j] = s.tools[j]
  BY PutIs
<1>2. Common(v)
  BY DEF ChatHalf, Common, Put
<1>3. ChatTyped(v)
  BY DEF ChatHalf, ChatTyped, Put
<1>4. ChatTools(s)
  BY DEF ChatHalf
<1>5. CASE i \in DOMAIN s.tools
  <2>1. v.order = s.order
    BY <1>5 DEF Put
  <2>2. ChatTools(v)
    BY <1>1, <1>4, <1>5, <2>1 DEF ChatTools
  <2> QED
    BY <1>2, <1>3, <2>2
<1>6. CASE i \notin DOMAIN s.tools
  <2> DEFINE N == Len(s.order)
             o == Append(s.order, i)
  <2>1. v.order = o
    BY <1>6 DEF Put
  <2>2. s.order \in Seq(Nat) /\ N \in Nat /\ DOMAIN s.order = 1..N
    BY <1>4 DEF ChatTools
  <2>3. /\ o \in Seq(Nat) /\ DOMAIN o = DOMAIN s.order \union {N + 1}
        /\ N + 1 \notin DOMAIN s.order
        /\ o[N + 1] = i /\ \A k \in DOMAIN s.order : o[k] = s.order[k]
    BY <2>2
  <2> HIDE DEF o, N
  <2>4. \A j \in DOMAIN v.tools : v.tools[j] \in Chat!Tool
    BY <1>1, <1>4 DEF ChatTools
  <2>5. \A j \in DOMAIN v.tools : \E k \in DOMAIN o : o[k] = j
    <3> SUFFICES ASSUME NEW j \in DOMAIN v.tools PROVE \E k \in DOMAIN o : o[k] = j
      OBVIOUS
    <3>1. CASE j = i
      BY <2>3, <3>1
    <3>2. CASE j \in DOMAIN s.tools
      <4>1. PICK k \in DOMAIN s.order : s.order[k] = j
        BY <1>4, <3>2 DEF ChatTools
      <4> QED
        BY <2>3, <4>1
    <3> QED
      BY <1>1, <3>1, <3>2
  <2>6. \A k \in DOMAIN o : o[k] \in DOMAIN v.tools
    BY <1>1, <1>4, <2>3 DEF ChatTools
  <2>7. \A j, k \in DOMAIN o : o[j] = o[k] => j = k
    <3>1. \A k \in DOMAIN s.order : s.order[k] # i
      BY <1>4, <1>6 DEF ChatTools
    <3> QED
      BY <1>4, <2>3, <3>1 DEF ChatTools
  <2>8. ChatTools(v)
    BY <2>1, <2>3, <2>4, <2>5, <2>6, <2>7 DEF ChatTools
  <2> QED
    BY <1>2, <1>3, <2>8
<1> QED
  BY <1>5, <1>6

(* A tool grows.                                                           *)
LEMMA ChatGrows ==
  ASSUME NEW s, NEW new, ChatHalf(s, new), NEW i \in Nat, NEW t \in Chat!Tool,
         NEW v, Put(v, s, i, t),
         s.sourceFormat # "openai" =>
           /\ i \in DOMAIN s.tools
           /\ t.block = s.tools[i].block /\ t.stopped = s.tools[i].stopped
           /\ t.announced = s.tools[i].announced,
         NEW fresh, new \ {i} \subseteq fresh,
         s.sourceFormat = "openai-response" => Served(t) \/ (i \in fresh /\ ~t.stopped)
  PROVE  ChatHalf(v, fresh)
<1>1. /\ DOMAIN v.tools = DOMAIN s.tools \union {i} /\ v.tools[i] = t
      /\ \A j \in DOMAIN s.tools : j # i => v.tools[j] = s.tools[j]
  BY PutIs
<1>2. /\ v.sourceFormat = s.sourceFormat /\ v.next = s.next /\ v.said = s.said
      /\ v.think = s.think /\ v.text = s.text /\ v.items = s.items
  BY DEF Put
<1>3. Common(v) /\ ChatTyped(v) /\ ChatTools(v)
  BY PutTyped
<1>4. s.sourceFormat # "openai" =>
        /\ DOMAIN v.tools = DOMAIN s.tools
        /\ \A j \in DOMAIN s.tools : /\ v.tools[j].block = s.tools[j].block
                                     /\ v.tools[j].stopped = s.tools[j].stopped
                                     /\ v.tools[j].announced = s.tools[j].announced
  BY <1>1
<1>5. v.sourceFormat # "openai" => ChatBlocks(v)
  BY <1>2, <1>4 DEF ChatHalf, ChatBlocks, OpenFor
<1>6. v.sourceFormat = "claude" => ClaudeTold(v)
  BY <1>2, <1>4 DEF ChatHalf, ClaudeTold
<1>7. v.sourceFormat = "openai-response" => RespondTold(v, fresh)
  <2> SUFFICES ASSUME s.sourceFormat = "openai-response",
                      NEW j \in DOMAIN s.tools
               PROVE  /\ v.tools[j].announced <=> v.tools[j].block \in Opened(v.said)
                      /\ Served(v.tools[j]) \/ (j \in fresh /\ ~v.tools[j].stopped)
    BY <1>1, <1>2, <1>4 DEF ChatHalf, RespondTold
  <2>1. RespondTold(s, new)
    BY DEF ChatHalf
  <2>2. v.tools[j].announced <=> v.tools[j].block \in Opened(v.said)
    BY <1>2, <1>4, <2>1 DEF RespondTold
  <2>3. CASE j = i
    BY <1>1, <2>2, <2>3
  <2>4. CASE j # i
    BY <1>1, <2>1, <2>2, <2>4 DEF RespondTold
  <2> QED
    BY <2>3, <2>4
<1> QED
  BY <1>3, <1>5, <1>6, <1>7 DEF ChatHalf

(* A block that has been given out and not been used yet.                  *)
Unused(s, b) ==
  /\ b \in 0..(s.next - 1)
  /\ b \notin Opened(s.said)
  /\ b \notin {s.think, s.text}
  /\ \A j \in DOMAIN s.tools : s.tools[j].block # b

(* The next block's number is given to no other.                           *)
LEMMA ChatReserves ==
  ASSUME NEW s, ChatInv(s), s.sourceFormat # "openai"
  PROVE  LET r == [s EXCEPT !.next = @ + 1] IN
         /\ ChatInv(r) /\ Unused(r, s.next)
         /\ r.sourceFormat = s.sourceFormat /\ r.said = s.said
         /\ r.think = s.think /\ r.text = s.text /\ r.tools = s.tools /\ r.order = s.order
<1> DEFINE r == [s EXCEPT !.next = @ + 1]
           n == s.next
<1>1. /\ DOMAIN s = ChatFields /\ n \in Nat /\ Common(s) /\ ChatTyped(s) /\ ChatTools(s)
      /\ ChatBlocks(s)
  BY DEF ChatInv, ChatHalf, ChatTyped, Common
<1>2. /\ DOMAIN r = ChatFields /\ r.next = n + 1
      /\ r.sourceFormat = s.sourceFormat /\ r.said = s.said
      /\ r.items = s.items /\ r.progress = s.progress
      /\ r.started = s.started /\ r.finished = s.finished /\ r.terminalSeen = s.terminalSeen
      /\ r.done = s.done /\ r.failed = s.failed
      /\ r.held = s.held /\ r.terminalSent = s.terminalSent /\ r.usage = s.usage
      /\ r.think = s.think /\ r.text = s.text /\ r.tools = s.tools /\ r.order = s.order
  BY <1>1 DEF ChatFields, BaseFields
<1> HIDE DEF r
<1>3. 0..(n - 1) \subseteq 0..((n + 1) - 1) /\ n \in 0..((n + 1) - 1)
  BY <1>1
<1>4. Closed..(n - 1) \subseteq Closed..((n + 1) - 1)
  BY <1>1 DEF Closed
<1>5. Common(r)
  <2>1. Opened(r.said) \subseteq 0..(r.next - 1)
    BY <1>1, <1>2, <1>3 DEF Common
  <2>2. {r.next, r.progress} \subseteq Nat
    BY <1>1, <1>2 DEF Common
  <2> QED
    BY <1>1, <1>2, <2>1, <2>2 DEF Common
<1>6. ChatTyped(r)
  <2>1. r.think \in Closed..(r.next - 1) /\ r.text \in Closed..(r.next - 1)
    BY <1>1, <1>2, <1>4 DEF ChatTyped
  <2>2. r.items \subseteq 0..(r.next - 1)
    BY <1>1, <1>2, <1>3 DEF ChatTyped
  <2> QED
    BY <1>1, <1>2, <2>1, <2>2 DEF ChatTyped
<1>7. ChatTools(r)
  BY <1>1, <1>2 DEF ChatTools
<1>8. ChatBlocks(r)
  <2>1. \A i \in DOMAIN r.tools : r.tools[i].block \in 0..(r.next - 1)
    BY <1>1, <1>2, <1>3 DEF ChatBlocks
  <2> QED
    BY <1>1, <1>2, <2>1 DEF ChatBlocks, OpenFor
<1>9. r.sourceFormat = "claude" => ClaudeTold(r)
  BY <1>2 DEF ChatInv, ChatHalf, ClaudeTold
<1>10. r.sourceFormat = "openai-response" => RespondTold(r, {})
  BY <1>2 DEF ChatInv, ChatHalf, RespondTold
<1>11. ChatInv(r)
  BY <1>5, <1>6, <1>7, <1>8, <1>9, <1>10 DEF ChatInv, ChatHalf
<1>12. Unused(r, n)
  <2>1. n \notin 0..(n - 1)
    BY <1>1
  <2>2. n \notin Opened(r.said)
    BY <1>1, <1>2, <2>1 DEF Common
  <2>3. n \notin {r.think, r.text}
    BY <1>1, <1>2 DEF ChatTyped, Closed
  <2>4. \A j \in DOMAIN r.tools : r.tools[j].block # n
    BY <1>1, <1>2, <2>1 DEF ChatBlocks
  <2> QED
    BY <1>2, <1>3, <2>2, <2>3, <2>4 DEF Unused
<1> QED
  BY <1>2, <1>11, <1>12 DEF r
-----------------------------------------------------------------------------
(* The block b is the one that is open for thinking, or for text.          *)
OpeningAs(v, r, b) ==
  /\ DOMAIN v = ChatFields
  /\ v.sourceFormat = r.sourceFormat /\ v.next = r.next /\ v.said = r.said
  /\ v.items = r.items /\ v.progress = r.progress
  /\ v.started = r.started /\ v.finished = r.finished /\ v.terminalSeen = r.terminalSeen
  /\ v.done = r.done /\ v.failed = r.failed
  /\ v.held = r.held /\ v.terminalSent = r.terminalSent /\ v.usage = r.usage
  /\ v.tools = r.tools /\ v.order = r.order
  /\ \/ r.think = Closed /\ v.think = b /\ v.text = r.text
     \/ r.text = Closed /\ v.text = b /\ v.think = r.think

(* The event that opens a block.                                           *)
LEMMA StartIs ==
  ASSUME NEW b, NEW kind
  PROVE  /\ Chat!Start(b, kind).ev = "start" /\ Chat!Start(b, kind).block = b
         /\ Chat!Start(b, kind).kind = kind
BY DEF Chat!Start

(* A block for text or thinking is opened when, in Messages events, every  *)
(* other is closed.                                                        *)
LEMMA ChatOpensBlock ==
  ASSUME NEW r, ChatInv(r), r.sourceFormat # "openai", NEW b, Unused(r, b),
         r.sourceFormat = "claude" => Opened(r.said) \subseteq Shut(r.said),
         NEW kind, kind # "tool", NEW v, OpeningAs(v, r, b),
         NEW t, t = Chat!Say(v, <<Chat!Start(b, kind)>>)
  PROVE  /\ ChatInv(t) /\ t.sourceFormat = r.sourceFormat
         /\ t.think = v.think /\ t.text = v.text
<1> DEFINE x == Chat!Start(b, kind)
<1>1. x.ev = "start" /\ x.block = b /\ x.kind = kind
  BY StartIs
<1>2. ChatSame(t, v) /\ t.said = v.said \o <<x>>
  BY ChatSaysAny DEF OpeningAs
<1> HIDE DEF x
<1>3. /\ DOMAIN t = ChatFields /\ t.said = r.said \o <<x>>
      /\ t.sourceFormat = r.sourceFormat /\ t.next = r.next
      /\ t.items = r.items /\ t.progress = r.progress
      /\ t.started = r.started /\ t.finished = r.finished /\ t.terminalSeen = r.terminalSeen
      /\ t.done = r.done /\ t.failed = r.failed
      /\ t.held = r.held /\ t.terminalSent = r.terminalSent /\ t.usage = r.usage
      /\ t.tools = r.tools /\ t.order = r.order
      /\ t.think = v.think /\ t.text = v.text
  BY <1>2 DEF ChatSame, OpeningAs
<1>4. \/ r.think = Closed /\ t.think = b /\ t.text = r.text
      \/ r.text = Closed /\ t.text = b /\ t.think = r.think
  BY <1>3 DEF OpeningAs
<1>5. /\ Common(r) /\ ChatTyped(r) /\ ChatTools(r) /\ ChatBlocks(r) /\ r.next \in Nat
  BY DEF ChatInv, ChatHalf, Common
<1>6. /\ Lawful(t.said, r.sourceFormat)
      /\ Opened(t.said) = Opened(r.said) \union {b}
      /\ Tooled(t.said) = Tooled(r.said) /\ Shut(t.said) = Shut(r.said)
  <2>1. Lawful(r.said, r.sourceFormat)
    BY <1>5 DEF Common
  <2>2. MayTell(r.said, r.sourceFormat, x)
    BY <1>1 DEF MayTell, Unused
  <2> DEFINE w == r.said \o <<x>>
  <2>3. /\ Lawful(w, r.sourceFormat) /\ Opened(w) = Opened(r.said) \union {x.block}
        /\ Tooled(w) = Tooled(r.said) /\ Shut(w) = Shut(r.said)
    BY <1>1, <2>1, <2>2, Tells
  <2> HIDE DEF w
  <2>4. t.said = w
    BY <1>3 DEF w
  <2> QED
    BY <1>1, <2>3, <2>4
<1>7. b \in 0..(r.next - 1) /\ b \notin Opened(r.said) /\ b \notin {r.think, r.text} /\ b # Closed
  BY <1>5 DEF Unused, Closed
<1>8. b \notin Shut(r.said)
  <2>1. Shut(r.said) \subseteq Opened(r.said)
    BY <1>5, LawfulFacts DEF Common
  <2> QED
    BY <1>7, <2>1
<1>9. Common(t)
  <2>1. Lawful(t.said, t.sourceFormat)
    BY <1>3, <1>6
  <2>2. Opened(t.said) \subseteq 0..(t.next - 1)
    BY <1>3, <1>5, <1>6, <1>7 DEF Common
  <2> QED
    BY <1>3, <1>5, <2>1, <2>2 DEF Common
<1>10. ChatTyped(t)
  <2>1. t.think \in Closed..(t.next - 1) /\ t.text \in Closed..(t.next - 1)
    BY <1>3, <1>4, <1>5, <1>7 DEF ChatTyped, Closed
  <2> QED
    BY <1>3, <1>5, <2>1 DEF ChatTyped
<1>11. ChatTools(t)
  BY <1>3, <1>5 DEF ChatTools
<1>12. ChatBlocks(t)
  <2>1. OpenFor(r.think, t.said) /\ OpenFor(r.text, t.said) /\ OpenFor(b, t.said)
    BY <1>5, <1>6, <1>8 DEF ChatBlocks, OpenFor
  <2>2. OpenFor(t.think, t.said) /\ OpenFor(t.text, t.said)
    BY <1>4, <2>1
  <2>3. t.think = t.text => t.think = Closed
    BY <1>4, <1>7
  <2>4. ASSUME NEW i \in DOMAIN t.tools
        PROVE  /\ t.tools[i].block \in 0..(t.next - 1)
               /\ t.tools[i].block \notin {t.think, t.text}
               /\ t.tools[i].stopped <=> t.tools[i].block \in Shut(t.said)
    <3>1. t.tools[i].block # b
      BY <1>3, <2>4 DEF Unused
    <3> QED
      BY <1>3, <1>4, <1>5, <1>6, <2>4, <3>1 DEF ChatBlocks
  <2>5. \A i, j \in DOMAIN t.tools : t.tools[i].block = t.tools[j].block => i = j
    BY <1>3, <1>5 DEF ChatBlocks
  <2>6. ASSUME NEW c \in Opened(t.said) \ Shut(t.said)
        PROVE  c \in {t.think, t.text} \/ \E i \in DOMAIN t.tools : t.tools[i].block = c
    <3>1. CASE c = b
      BY <1>4, <3>1
    <3>2. CASE c # b
      <4>1. c \in Opened(r.said) \ Shut(r.said) /\ c # Closed
        BY <1>5, <1>6, <2>6, <3>2 DEF Common, Closed
      <4> QED
        BY <1>3, <1>4, <1>5, <4>1 DEF ChatBlocks
    <3> QED
      BY <3>1, <3>2
  <2> QED
    BY <2>2, <2>3, <2>4, <2>5, <2>6 DEF ChatBlocks
<1>13. t.sourceFormat = "claude" => ClaudeTold(t)
  <2> SUFFICES ASSUME r.sourceFormat = "claude" PROVE ClaudeTold(t)
    BY <1>3
  <2>1. ClaudeTold(r)
    BY DEF ChatInv, ChatHalf
  <2> QED
    BY <1>3, <1>6, <2>1 DEF ClaudeTold
<1>14. t.sourceFormat = "openai-response" => RespondTold(t, {})
  <2> SUFFICES ASSUME r.sourceFormat = "openai-response" PROVE RespondTold(t, {})
    BY <1>3
  <2>1. RespondTold(r, {})
    BY DEF ChatInv, ChatHalf
  <2>2. \A i \in DOMAIN t.tools : t.tools[i].block # b
    BY <1>3 DEF Unused
  <2> QED
    BY <1>3, <1>6, <2>1, <2>2 DEF RespondTold
<1>15. ChatInv(t)
  BY <1>9, <1>10, <1>11, <1>12, <1>13, <1>14 DEF ChatInv, ChatHalf
<1> QED
  BY <1>3, <1>15

(* A call of a Messages stream is opened as soon as it is heard of.        *)
LEMMA NewToolIs ==
  ASSUME NEW b \in Nat
  PROVE  LET t == Chat!NewTool(b) IN
         /\ t \in Chat!Tool /\ t.block = b /\ t.stopped = FALSE
         /\ t.announced = FALSE /\ t.custom = FALSE /\ t.got = 0 /\ t.sent = 0
BY DEF Chat!NewTool, Chat!Tool, Chat!NameParts, Chat!Fragments

(* A tool call is a new block to a Messages client, opened when every      *)
(* other is closed.                                                        *)
LEMMA ChatAddsTool ==
  ASSUME NEW r, ChatInv(r), r.sourceFormat = "claude", NEW b, Unused(r, b),
         Opened(r.said) \subseteq Shut(r.said),
         NEW i \in Nat, i \notin DOMAIN r.tools,
         NEW t, t = Chat!Say(Chat!WithTool(r, i, Chat!NewTool(b)), <<Chat!Start(b, "tool")>>)
  PROVE  /\ ChatInv(t) /\ t.sourceFormat = "claude" /\ i \in DOMAIN t.tools
<1> DEFINE x == Chat!Start(b, "tool")
           n == Chat!NewTool(b)
           v == Chat!WithTool(r, i, n)
<1>1. x.ev = "start" /\ x.block = b /\ x.kind = "tool"
  BY StartIs
<1>2. /\ Common(r) /\ ChatTyped(r) /\ ChatTools(r) /\ ChatBlocks(r) /\ r.next \in Nat
      /\ DOMAIN r = ChatFields /\ ClaudeTold(r)
  BY DEF ChatInv, ChatHalf, Common, ChatTyped
<1>3. /\ b \in 0..(r.next - 1) /\ b \in Nat /\ b \notin Opened(r.said)
      /\ b \notin {r.think, r.text}
      /\ \A j \in DOMAIN r.tools : r.tools[j].block # b
  BY <1>2 DEF Unused
<1>4. /\ n \in Chat!Tool /\ n.block = b /\ n.stopped = FALSE
  BY <1>3, NewToolIs
<1>5. Put(v, r, i, n)
  BY <1>2, WithToolPuts
<1>a. t = Chat!Say(v, <<x>>)
  OBVIOUS
<1> HIDE DEF x, n, v
<1>6. ChatSame(t, v) /\ t.said = v.said \o <<x>>
  BY <1>5, <1>a, ChatSaysAny DEF Put
<1>7. Common(v) /\ ChatTyped(v) /\ ChatTools(v)
  BY <1>4, <1>5, PutTyped DEF ChatInv
<1>8. /\ DOMAIN v.tools = DOMAIN r.tools \union {i} /\ v.tools[i] = n
      /\ \A j \in DOMAIN r.tools : j # i => v.tools[j] = r.tools[j]
  BY <1>5, PutIs
<1>9. /\ t.said = r.said \o <<x>> /\ t.sourceFormat = "claude" /\ t.next = r.next
      /\ t.think = r.think /\ t.text = r.text /\ t.tools = v.tools
  BY <1>5, <1>6 DEF ChatSame, Put
<1>10. /\ Lawful(t.said, "claude")
       /\ Opened(t.said) = Opened(r.said) \union {b}
       /\ Tooled(t.said) = Tooled(r.said) \union {b} /\ Shut(t.said) = Shut(r.said)
  <2>1. Lawful(r.said, "claude")
    BY <1>2 DEF Common
  <2>2. MayTell(r.said, "claude", x)
    BY <1>1, <1>3 DEF MayTell
  <2> DEFINE w == r.said \o <<x>>
  <2>3. /\ Lawful(w, "claude") /\ Opened(w) = Opened(r.said) \union {x.block}
        /\ Tooled(w) = Tooled(r.said) \union {x.block} /\ Shut(w) = Shut(r.said)
    BY <1>1, <2>1, <2>2, Tells
  <2> HIDE DEF w
  <2>4. t.said = w
    BY <1>9 DEF w
  <2> QED
    BY <1>1, <2>3, <2>4
<1>11. b \notin Shut(r.said)
  <2>1. Shut(r.said) \subseteq Opened(r.said)
    BY <1>2, LawfulFacts DEF Common
  <2> QED
    BY <1>3, <2>1
<1>12. Common(t)
  <2>1. Lawful(t.said, t.sourceFormat)
    BY <1>9, <1>10
  <2>2. Opened(t.said) \subseteq 0..(t.next - 1)
    BY <1>2, <1>3, <1>9, <1>10 DEF Common
  <2> QED
    BY <1>6, <1>7, <2>1, <2>2 DEF Common, ChatSame
<1>13. ChatTyped(t) /\ ChatTools(t)
  <2>1. ChatTyped(t)
    BY <1>6, <1>7 DEF ChatTyped, ChatSame
  <2>2. ChatTools(t)
    BY <1>6, <1>7 DEF ChatTools, ChatSame
  <2> QED
    BY <2>1, <2>2
<1>14. ChatBlocks(t)
  <2>1. OpenFor(t.think, t.said) /\ OpenFor(t.text, t.said)
    BY <1>2, <1>9, <1>10 DEF ChatBlocks, OpenFor
  <2>2. t.think = t.text => t.think = Closed
    BY <1>2, <1>9 DEF ChatBlocks
  <2>3. ASSUME NEW j \in DOMAIN t.tools
        PROVE  /\ t.tools[j].block \in 0..(t.next - 1)
               /\ t.tools[j].block \notin {t.think, t.text}
               /\ t.tools[j].stopped <=> t.tools[j].block \in Shut(t.said)
    <3>1. CASE j = i
      BY <1>3, <1>4, <1>8, <1>9, <1>10, <1>11, <3>1
    <3>2. CASE j # i
      BY <1>2, <1>8, <1>9, <1>10, <2>3, <3>2 DEF ChatBlocks
    <3> QED
      BY <3>1, <3>2
  <2>4. \A j, k \in DOMAIN t.tools : t.tools[j].block = t.tools[k].block => j = k
    BY <1>2, <1>3, <1>4, <1>8, <1>9 DEF ChatBlocks
  <2>5. \A c \in Opened(t.said) \ Shut(t.said) : c = b
    BY <1>10
  <2>6. i \in DOMAIN t.tools /\ t.tools[i].block = b
    BY <1>4, <1>8, <1>9
  <2> QED
    BY <2>1, <2>2, <2>3, <2>4, <2>5, <2>6 DEF ChatBlocks
<1>15. ClaudeTold(t)
  BY <1>2, <1>4, <1>8, <1>9, <1>10 DEF ClaudeTold
<1>16. ChatInv(t)
  BY <1>9, <1>12, <1>13, <1>14, <1>15 DEF ChatInv, ChatHalf
<1> QED
  BY <1>8, <1>9, <1>16

(* A call of a Responses stream is noted first and announced later.        *)
LEMMA ChatNotesTool ==
  ASSUME NEW r, ChatInv(r), r.sourceFormat = "openai-response", NEW b, Unused(r, b),
         NEW i \in Nat, i \notin DOMAIN r.tools,
         NEW t, t = Chat!WithTool(r, i, Chat!NewTool(b))
  PROVE  /\ ChatInv(t) /\ t.sourceFormat = "openai-response" /\ i \in DOMAIN t.tools
<1> DEFINE n == Chat!NewTool(b)
<1>2. /\ Common(r) /\ ChatTyped(r) /\ ChatTools(r) /\ ChatBlocks(r) /\ r.next \in Nat
      /\ DOMAIN r = ChatFields /\ RespondTold(r, {})
  BY DEF ChatInv, ChatHalf, Common, ChatTyped
<1>3. /\ b \in 0..(r.next - 1) /\ b \in Nat /\ b \notin Opened(r.said)
      /\ b \notin {r.think, r.text}
      /\ \A j \in DOMAIN r.tools : r.tools[j].block # b
  BY <1>2 DEF Unused
<1>4. /\ n \in Chat!Tool /\ n.block = b /\ n.stopped = FALSE /\ n.announced = FALSE
  BY <1>3, NewToolIs
<1>5. Put(t, r, i, n)
  BY <1>2, WithToolPuts
<1> HIDE DEF n
<1>7. Common(t) /\ ChatTyped(t) /\ ChatTools(t)
  BY <1>4, <1>5, PutTyped DEF ChatInv
<1>8. /\ DOMAIN t.tools = DOMAIN r.tools \union {i} /\ t.tools[i] = n
      /\ \A j \in DOMAIN r.tools : j # i => t.tools[j] = r.tools[j]
  BY <1>5, PutIs
<1>9. /\ t.said = r.said /\ t.sourceFormat = "openai-response" /\ t.next = r.next
      /\ t.think = r.think /\ t.text = r.text /\ t.items = r.items
  BY <1>5 DEF Put
<1>11. b \notin Shut(r.said)
  <2>1. Shut(r.said) \subseteq Opened(r.said)
    BY <1>2, LawfulFacts DEF Common
  <2> QED
    BY <1>3, <2>1
<1>14. ChatBlocks(t)
  <2>1. OpenFor(t.think, t.said) /\ OpenFor(t.text, t.said)
    BY <1>2, <1>9 DEF ChatBlocks
  <2>2. t.think = t.text => t.think = Closed
    BY <1>2, <1>9 DEF ChatBlocks
  <2>3. ASSUME NEW j \in DOMAIN t.tools
        PROVE  /\ t.tools[j].block \in 0..(t.next - 1)
               /\ t.tools[j].block \notin {t.think, t.text}
               /\ t.tools[j].stopped <=> t.tools[j].block \in Shut(t.said)
    <3>1. CASE j = i
      BY <1>3, <1>4, <1>8, <1>9, <1>11, <3>1
    <3>2. CASE j # i
      BY <1>2, <1>8, <1>9, <2>3, <3>2 DEF ChatBlocks
    <3> QED
      BY <3>1, <3>2
  <2>4. \A j, k \in DOMAIN t.tools : t.tools[j].block = t.tools[k].block => j = k
    BY <1>2, <1>3, <1>4, <1>8, <1>9 DEF ChatBlocks
  <2>5. \A c \in Opened(t.said) \ Shut(t.said) :
          c \in {t.think, t.text} \/ \E j \in DOMAIN t.tools : t.tools[j].block = c
    BY <1>2, <1>8, <1>9 DEF ChatBlocks
  <2> QED
    BY <2>1, <2>2, <2>3, <2>4, <2>5 DEF ChatBlocks
<1>15. RespondTold(t, {})
  BY <1>2, <1>3, <1>4, <1>8, <1>9 DEF RespondTold, Served
<1>16. ChatInv(t)
  BY <1>7, <1>9, <1>14, <1>15 DEF ChatInv, ChatHalf
<1> QED
  BY <1>8, <1>9, <1>16
-----------------------------------------------------------------------------
(* A step that says nothing and touches no block keeps the invariant and   *)
(* the format.                                                             *)
LEMMA ChatKeeps ==
  ASSUME NEW s, ChatInv(s), NEW t, ChatLike(t, s)
  PROVE  ChatInv(t) /\ t.sourceFormat = s.sourceFormat
BY ChatFlags DEF ChatInv, ChatLike

(* Two such steps are one.                                                 *)
LEMMA ChatStays ==
  ASSUME NEW s, ChatInv(s), NEW t, ChatLike(t, s), NEW u, ChatLike(u, t)
  PROVE  ChatLike(u, s)
BY DEF ChatLike

(* A usage record is such a step.                                          *)
LEMMA ChatNotesUsage ==
  ASSUME NEW s, ChatInv(s), NEW l, l.usage \in Nat
  PROVE  ChatLike(Chat!NoteUsage(s, l), s)
<1> DEFINE v == [s EXCEPT !.usage = l.usage]
<1>1. DOMAIN s = ChatFields /\ Common(s) /\ ChatTyped(s) /\ ChatHalf(s, {})
  BY DEF ChatInv, ChatHalf, ChatTyped
<1>2. ChatLike(s, s) /\ ChatLike(v, s)
  BY <1>1 DEF Common, ChatTyped, ChatFields, BaseFields, ChatLike
<1> HIDE DEF v
<1>3. ChatHalf(v, {})
  BY <1>1, <1>2, ChatFlags
<1>4. ChatLike(Chat!Advance(v), v)
  BY <1>3, ChatFlagged
<1>5. ChatLike(Chat!Advance(v), s)
  BY <1>2, <1>4, ChatStays DEF ChatInv
<1> QED
  BY <1>2, <1>5 DEF Chat!NoteUsage, v

(* So are StreamState's operations.                                        *)
LEMMA ChatProgress ==
  ASSUME NEW s, ChatInv(s)
  PROVE  /\ ChatLike(Chat!Advance(s), s) /\ ChatLike(Chat!StateStart(s), s)
         /\ ChatLike(Chat!Finish(s), s) /\ ChatLike(Chat!Terminal(s), s)
         /\ ChatLike(Chat!Fail(s), s) /\ ChatLike(Chat!Ended(s), s)
         /\ \A new \in BOOLEAN : ChatLike(Chat!AdvanceIf(s, new), s)
BY ChatFlagged DEF ChatInv

(* A fragment for a block that is open, or for a tool of a Messages stream.*)
LEMMA ChatFeeds ==
  ASSUME NEW s, NEW new, ChatHalf(s, new), NEW b, NEW n,
         b \in Opened(s.said),
         b \notin Shut(s.said) \/ (s.sourceFormat = "claude" /\ b \in Tooled(s.said)),
         NEW t, t = Chat!Say(s, <<Chat!Delta(b, n)>>)
  PROVE  ChatHalf(t, new) /\ ChatSame(t, s)
<1> DEFINE x == Chat!Delta(b, n)
<1>1. x.ev = "delta" /\ x.block = b
  BY DEF Chat!Delta
<1>2. t = Chat!Say(s, <<x>>)
  OBVIOUS
<1> HIDE DEF x
<1>3. MayTell(s.said, s.sourceFormat, x) /\ x.ev \notin {"start", "stop"}
  BY <1>1 DEF MayTell
<1> QED
  BY <1>2, <1>3, ChatSays

-----------------------------------------------------------------------------
(* To a Messages client.                                                   *)
ClaudeInv(s) == ChatInv(s) /\ s.sourceFormat = "claude"

(* The same of a Messages client's stream.                                 *)
LEMMA ClaudeKeeps ==
  ASSUME NEW s, ClaudeInv(s), NEW t, ChatLike(t, s)
  PROVE  ClaudeInv(t)
BY ChatKeeps DEF ClaudeInv

(* An event that speaks of no block.                                       *)
LEMMA ClaudeNames ==
  ASSUME NEW s, ClaudeInv(s), NEW x, x.ev \notin {"start", "stop", "delta"}
  PROVE  ClaudeInv(Chat!Say(s, <<x>>)) /\ ChatSame(Chat!Say(s, <<x>>), s)
BY ChatNames DEF ClaudeInv, ChatInv, ChatSame

(* stopBlocks leaves no block open.                                        *)
LEMMA ClaudeStops ==
  ASSUME NEW s, ClaudeInv(s)
  PROVE  LET c == Chat!StopBlocks(s) IN
         /\ ClaudeInv(c) /\ Opened(c.said) \subseteq Shut(c.said)
         /\ c.next = s.next /\ c.think = Closed /\ c.text = Closed
         /\ DOMAIN c.tools = DOMAIN s.tools /\ c.order = s.order
<1> DEFINE c == Chat!StopBlocks(s)
<1>1. /\ Common(s) /\ ClaudeTold(s)
  BY DEF ClaudeInv, ChatInv, ChatHalf
<1>2. \A i \in DOMAIN s.tools : Closable1(s, i)
  <2>1. Tooled(s.said) \subseteq Opened(s.said)
    BY <1>1, LawfulFacts DEF Common
  <2> QED
    BY <1>1, <2>1 DEF ClaudeTold, Closable1
<1>3. /\ After(c, s) /\ c.think = Closed /\ c.text = Closed
      /\ \A i \in DOMAIN s.tools : c.tools[i].stopped
  BY <1>2, StopsBlocks DEF ClaudeInv
<1> HIDE DEF c
<1>4. ClaudeInv(c) /\ DOMAIN c.tools = DOMAIN s.tools /\ c.next = s.next /\ c.order = s.order
  BY <1>3 DEF After, ClaudeInv
<1>5. Opened(c.said) \subseteq Shut(c.said)
  <2> SUFFICES ASSUME NEW b \in Opened(c.said) \ Shut(c.said) PROVE FALSE
    OBVIOUS
  <2>1. Common(c) /\ ChatBlocks(c)
    BY <1>4 DEF ClaudeInv, ChatInv, ChatHalf
  <2>2. b # Closed
    BY <2>1 DEF Common, Closed
  <2>3. PICK i \in DOMAIN c.tools : c.tools[i].block = b
    BY <1>3, <2>1, <2>2 DEF ChatBlocks
  <2> QED
    BY <1>3, <1>4, <2>1, <2>3 DEF ChatBlocks
<1> QED
  BY <1>3, <1>4, <1>5 DEF c

(* message_delta and message_stop.                                         *)
LEMMA ClaudeTerminates ==
  ASSUME NEW s, ClaudeInv(s)
  PROVE  ClaudeInv(Chat!ClaudeTerminal(s))
<1> DEFINE v == [s EXCEPT !.held = "none", !.terminalSent = TRUE]
           x == Chat!Ending("message_delta", Chat!TerminalReason(s.order # <<>>, s.held))
<1>1. x.ev = "message_delta"
  BY DEF Chat!Ending
<1>2. Chat!ClaudeTerminal(s) = s \/ Chat!ClaudeTerminal(s) = Chat!Say(v, <<x>>)
  BY DEF Chat!ClaudeTerminal
<1> HIDE DEF x
<1>3. ChatLike(v, s)
  <2>1. DOMAIN s = ChatFields /\ Common(s) /\ ChatTyped(s)
    BY DEF ClaudeInv, ChatInv, ChatHalf, ChatTyped
  <2> QED
    BY <2>1 DEF Common, ChatTyped, ChatFields, BaseFields, ChatLike
<1> HIDE DEF v
<1>4. ClaudeInv(v)
  BY <1>3, ClaudeKeeps
<1>5. ClaudeInv(Chat!Say(v, <<x>>))
  BY <1>1, <1>4, ClaudeNames
<1> QED
  BY <1>2, <1>5

(* message_start.                                                          *)
LEMMA ClaudeStarts ==
  ASSUME NEW s, ClaudeInv(s)
  PROVE  ClaudeInv(Chat!ClaudeStart(s))
<1> DEFINE v == Chat!StateStart(s)
           x == Chat!Named("message_start")
<1>1. x.ev = "message_start"
  BY DEF Chat!Named
<1>2. ClaudeInv(v)
  BY ChatProgress, ClaudeKeeps DEF ClaudeInv
<1>3. Chat!ClaudeStart(s) = s \/ Chat!ClaudeStart(s) = Chat!Say(v, <<x>>)
  BY DEF Chat!ClaudeStart
<1> HIDE DEF v, x
<1>4. ClaudeInv(Chat!Say(v, <<x>>))
  BY <1>1, <1>2, ClaudeNames
<1> QED
  BY <1>3, <1>4

(* The next block is opened for thinking ...                               *)
LEMMA NextThinking ==
  ASSUME NEW c, ChatInv(c), c.sourceFormat # "openai", c.think = Closed,
         c.sourceFormat = "claude" => Opened(c.said) \subseteq Shut(c.said),
         NEW t, t = Chat!Say([c EXCEPT !.think = c.next, !.next = @ + 1],
                             <<Chat!Start(c.next, "thinking")>>)
  PROVE  ChatInv(t) /\ t.sourceFormat = c.sourceFormat /\ t.think = c.next
<1> DEFINE r == [c EXCEPT !.next = @ + 1]
           v == [c EXCEPT !.think = c.next, !.next = @ + 1]
           b == c.next
<1>1. /\ ChatInv(r) /\ Unused(r, b)
      /\ r.sourceFormat = c.sourceFormat /\ r.said = c.said /\ r.think = c.think
  BY ChatReserves
<1>2. DOMAIN c = ChatFields
  BY DEF ChatInv, ChatHalf, ChatTyped
<1>3. OpeningAs(v, r, b) /\ v.think = b
  BY <1>2 DEF ChatFields, BaseFields, OpeningAs
<1>4. t = Chat!Say(v, <<Chat!Start(b, "thinking")>>)
  OBVIOUS
<1> HIDE DEF r, v, b
<1>5. ChatInv(t) /\ t.sourceFormat = r.sourceFormat /\ t.think = v.think
  BY <1>1, <1>3, <1>4, ChatOpensBlock
<1> QED
  BY <1>1, <1>3, <1>5 DEF b

(* ... or for text. *)
LEMMA NextText ==
  ASSUME NEW c, ChatInv(c), c.sourceFormat # "openai", c.text = Closed,
         c.sourceFormat = "claude" => Opened(c.said) \subseteq Shut(c.said),
         NEW t, t = Chat!Say([c EXCEPT !.text = c.next, !.next = @ + 1],
                             <<Chat!Start(c.next, "text")>>)
  PROVE  ChatInv(t) /\ t.sourceFormat = c.sourceFormat /\ t.text = c.next
<1> DEFINE r == [c EXCEPT !.next = @ + 1]
           v == [c EXCEPT !.text = c.next, !.next = @ + 1]
           b == c.next
<1>1. /\ ChatInv(r) /\ Unused(r, b)
      /\ r.sourceFormat = c.sourceFormat /\ r.said = c.said /\ r.text = c.text
  BY ChatReserves
<1>2. DOMAIN c = ChatFields
  BY DEF ChatInv, ChatHalf, ChatTyped
<1>3. OpeningAs(v, r, b) /\ v.text = b
  BY <1>2 DEF ChatFields, BaseFields, OpeningAs
<1>4. t = Chat!Say(v, <<Chat!Start(b, "text")>>)
  OBVIOUS
<1> HIDE DEF r, v, b
<1>5. ChatInv(t) /\ t.sourceFormat = r.sourceFormat /\ t.text = v.text
  BY <1>1, <1>3, <1>4, ChatOpensBlock
<1> QED
  BY <1>1, <1>3, <1>5 DEF b

(* What is open for thinking or text can be fed.                           *)
LEMMA FeedsOpen ==
  ASSUME NEW o, ChatInv(o), o.sourceFormat # "openai",
         NEW b \in {o.think, o.text}, b # Closed,
         NEW t, t = Chat!Say(o, <<Chat!Delta(b, 1)>>)
  PROVE  ChatInv(t) /\ t.sourceFormat = o.sourceFormat
<1>1. ChatHalf(o, {}) /\ ChatBlocks(o)
  BY DEF ChatInv, ChatHalf
<1>2. b \in Opened(o.said) \ Shut(o.said)
  BY <1>1 DEF ChatBlocks, OpenFor
<1>3. ChatHalf(t, {}) /\ ChatSame(t, o)
  BY <1>1, <1>2, ChatFeeds
<1> QED
  BY <1>3 DEF ChatInv, ChatSame

(* Thinking goes to the open thinking block, or opens one after all others *)
(* are closed.                                                             *)
LEMMA ClaudeThinks ==
  ASSUME NEW s, ClaudeInv(s)
  PROVE  ClaudeInv(Chat!ClaudeThinking(s))
<1> DEFINE c == Chat!StopBlocks(s)
           w == Chat!Say([c EXCEPT !.think = c.next, !.next = @ + 1],
                         <<Chat!Start(c.next, "thinking")>>)
           o == IF s.think # Closed THEN s ELSE w
           t == Chat!Say(o, <<Chat!Delta(o.think, 1)>>)
<1>1. /\ ClaudeInv(c) /\ Opened(c.said) \subseteq Shut(c.said)
      /\ c.next = s.next /\ c.think = Closed
  BY ClaudeStops
<1>2. Chat!ClaudeThinking(s) = t
  BY <1>1 DEF Chat!ClaudeThinking, Chat!Closed, Closed
<1> HIDE DEF c
<1>3. ChatInv(w) /\ w.sourceFormat = "claude" /\ w.think = c.next
  BY <1>1, NextThinking DEF ClaudeInv
<1>4. c.next # Closed
  BY <1>1 DEF ClaudeInv, ChatInv, ChatHalf, Common, Closed
<1> HIDE DEF w
<1>5. ChatInv(o) /\ o.sourceFormat = "claude" /\ o.think # Closed
  BY <1>3, <1>4 DEF ClaudeInv
<1> HIDE DEF o
<1>6. ChatInv(t) /\ t.sourceFormat = "claude"
  BY <1>5, FeedsOpen
<1> QED
  BY <1>2, <1>6 DEF ClaudeInv

(* So does text.                                                           *)
LEMMA ClaudeTexts ==
  ASSUME NEW s, ClaudeInv(s)
  PROVE  ClaudeInv(Chat!ClaudeText(s))
<1> DEFINE c == Chat!StopBlocks(s)
           w == Chat!Say([c EXCEPT !.text = c.next, !.next = @ + 1],
                         <<Chat!Start(c.next, "text")>>)
           o == IF s.text # Closed THEN s ELSE w
           t == Chat!Say(o, <<Chat!Delta(o.text, 1)>>)
<1>1. /\ ClaudeInv(c) /\ Opened(c.said) \subseteq Shut(c.said)
      /\ c.next = s.next /\ c.text = Closed
  BY ClaudeStops
<1>2. Chat!ClaudeText(s) = t
  BY <1>1 DEF Chat!ClaudeText, Chat!Closed, Closed
<1> HIDE DEF c
<1>3. ChatInv(w) /\ w.sourceFormat = "claude" /\ w.text = c.next
  BY <1>1, NextText DEF ClaudeInv
<1>4. c.next # Closed
  BY <1>1 DEF ClaudeInv, ChatInv, ChatHalf, Common, Closed
<1> HIDE DEF w
<1>5. ChatInv(o) /\ o.sourceFormat = "claude" /\ o.text # Closed
  BY <1>3, <1>4 DEF ClaudeInv
<1> HIDE DEF o
<1>6. ChatInv(t) /\ t.sourceFormat = "claude"
  BY <1>5, FeedsOpen
<1> QED
  BY <1>2, <1>6 DEF ClaudeInv
-----------------------------------------------------------------------------
(* A fragment adds to a tool's arguments and to nothing else of it.        *)
LEMMA GrownIs ==
  ASSUME NEW t \in Chat!Tool, NEW call \in Chat!Calls
  PROVE  LET g == Chat!Grown(t, call) IN
         /\ g \in Chat!Tool
         /\ g.block = t.block /\ g.stopped = t.stopped /\ g.announced = t.announced
         /\ g.custom = t.custom /\ g.sent = t.sent /\ g.name = t.name
         /\ call.args = "none" => g.got = t.got
<1> DEFINE a == Chat!Joined(t.args, call.args)
           n == IF call.args = "none" THEN t.got ELSE t.got + 1
           g == [t EXCEPT !.args = a, !.got = n]
<1>1. /\ call.args \in Chat!Fragments /\ t.args \in Chat!Fragments \union {"broken"}
      /\ t.got \in Nat
  BY DEF Chat!Calls, Chat!Tool
<1>2. a \in Chat!Fragments \union {"broken"}
  BY <1>1 DEF Chat!Joined, Chat!Fragments
<1>3. n \in Nat /\ (call.args = "none" => n = t.got)
  BY <1>1
<1>4. Chat!Grown(t, call) = g
  BY DEF Chat!Grown
<1> HIDE DEF a, n
<1>5. g \in Chat!Tool
  BY <1>2, <1>3 DEF Chat!Tool
<1>6. /\ g.block = t.block /\ g.stopped = t.stopped /\ g.announced = t.announced
      /\ g.custom = t.custom /\ g.sent = t.sent /\ g.name = t.name /\ g.got = n
  BY DEF Chat!Tool
<1> QED
  BY <1>3, <1>4, <1>5, <1>6

(* A call's fragment goes to its block, which its first fragment opens.    *)
LEMMA ClaudeCalls1 ==
  ASSUME NEW s, ClaudeInv(s), NEW call \in Chat!Calls
  PROVE  ClaudeInv(Chat!ClaudeCall(s, call))
<1> DEFINE i == call.index
           c == Chat!StopBlocks(s)
           r == [c EXCEPT !.next = @ + 1]
           w == Chat!Say(Chat!WithTool(r, i, Chat!NewTool(c.next)),
                         <<Chat!Start(c.next, "tool")>>)
           o == IF i \in DOMAIN s.tools THEN s ELSE w
           t == Chat!Grown(o.tools[i], call)
           v == Chat!WithTool(o, i, t)
           u == Chat!Say(v, IF call.args = "none" THEN <<>> ELSE <<Chat!Delta(t.block, 1)>>)
<1>1. /\ ClaudeInv(c) /\ Opened(c.said) \subseteq Shut(c.said)
      /\ c.next = s.next /\ DOMAIN c.tools = DOMAIN s.tools
  BY ClaudeStops
<1>2. Chat!ClaudeCall(s, call) = u
  BY <1>1 DEF Chat!ClaudeCall
<1>3. i \in Nat
  BY DEF Chat!Calls
<1> HIDE DEF c, i
<1>4. /\ ChatInv(r) /\ Unused(r, c.next)
      /\ r.sourceFormat = "claude" /\ r.said = c.said /\ r.tools = c.tools
  BY <1>1, ChatReserves DEF ClaudeInv
<1>w. w = Chat!Say(Chat!WithTool(r, i, Chat!NewTool(c.next)), <<Chat!Start(c.next, "tool")>>)
  OBVIOUS
<1> HIDE DEF r, w
<1>5. i \notin DOMAIN s.tools => ClaudeInv(w) /\ i \in DOMAIN w.tools
  <2> SUFFICES ASSUME i \notin DOMAIN s.tools PROVE ClaudeInv(w) /\ i \in DOMAIN w.tools
    OBVIOUS
  <2>1. i \notin DOMAIN r.tools /\ Opened(r.said) \subseteq Shut(r.said)
    BY <1>1, <1>4
  <2> DEFINE b == c.next
  <2>2. Unused(r, b) /\ w = Chat!Say(Chat!WithTool(r, i, Chat!NewTool(b)), <<Chat!Start(b, "tool")>>)
    BY <1>4, <1>w
  <2> HIDE DEF b
  <2>3. ChatInv(w) /\ w.sourceFormat = "claude" /\ i \in DOMAIN w.tools
    BY <1>3, <1>4, <2>1, <2>2, ChatAddsTool
  <2> QED
    BY <2>3 DEF ClaudeInv
<1>6. ClaudeInv(o) /\ i \in DOMAIN o.tools
  BY <1>5
<1> HIDE DEF o
<1>7. /\ ChatHalf(o, {}) /\ o.sourceFormat = "claude" /\ ClaudeTold(o) /\ ChatTools(o)
      /\ DOMAIN o = ChatFields /\ Common(o)
  BY <1>6 DEF ClaudeInv, ChatInv, ChatHalf, ChatTyped
<1> DEFINE z == o.tools[i]
<1>z. z \in Chat!Tool
  BY <1>6, <1>7 DEF ChatTools
<1>8. t \in Chat!Tool /\ t.block = z.block /\ t.stopped = z.stopped /\ t.announced = z.announced
  BY <1>z, GrownIs
<1>9. Put(v, o, i, t)
  BY <1>7, WithToolPuts
<1> HIDE DEF t, v
<1>10. ChatHalf(v, {}) /\ v.sourceFormat = "claude" /\ v.said = o.said
  <2>1. ChatHalf(v, {})
    BY <1>3, <1>6, <1>7, <1>8, <1>9, ChatGrows
  <2> QED
    BY <1>7, <1>9, <2>1 DEF Put
<1>11. t.block \in Tooled(v.said) /\ t.block \in Opened(v.said)
  <2>1. Tooled(o.said) \subseteq Opened(o.said)
    BY <1>7, LawfulFacts DEF Common
  <2>2. t.block \in Tooled(o.said)
    BY <1>6, <1>7, <1>8 DEF ClaudeTold
  <2> QED
    BY <1>10, <2>1, <2>2
<1>12. CASE call.args = "none"
  <2>1. u = Chat!Say(v, <<>>)
    BY <1>12
  <2>2. ChatHalf(u, {}) /\ ChatSame(u, v)
    BY <1>10, <2>1, ChatSaysNothing
  <2> QED
    BY <1>2, <1>10, <2>2 DEF ClaudeInv, ChatInv, ChatSame
<1>13. CASE call.args # "none"
  <2> DEFINE b == t.block
  <2>1. u = Chat!Say(v, <<Chat!Delta(b, 1)>>)
    BY <1>13
  <2> HIDE DEF b, u
  <2>2. b \in Tooled(v.said) /\ b \in Opened(v.said)
    BY <1>11 DEF b
  <2>3. ChatHalf(u, {}) /\ ChatSame(u, v)
    BY <1>10, <2>1, <2>2, ChatFeeds
  <2> QED
    BY <1>2, <1>10, <2>3 DEF ClaudeInv, ChatInv, ChatSame
<1> QED
  BY <1>12, <1>13

(* All calls of a chunk.                                                   *)
LEMMA ClaudeCallsAll ==
  ASSUME NEW s, ClaudeInv(s), NEW calls \in Seq(Chat!Calls)
  PROVE  ClaudeInv(Chat!ClaudeCalls(s, calls))
<1> DEFINE N == Len(calls)
<1>1. N \in Nat /\ \A n \in 1..N : calls[n] \in Chat!Calls
  OBVIOUS
<1>2. PICK f : IsLoop(f, N, "ClaudeCalls", calls, s) /\ Chat!ClaudeCalls(s, calls) = f[N]
  BY ClaudeCallsRuns
<1> DEFINE T == {n \in 0..N : ClaudeInv(f[n])}
<1> HIDE DEF N
<1>3. 0 \in T
  BY <1>1, <1>2 DEF IsLoop
<1>4. ASSUME NEW n \in 0..N, n \in T, n + 1 <= N
      PROVE  n + 1 \in T
  <2>1. n + 1 \in 1..N /\ (n + 1) - 1 = n /\ n + 1 \in 0..N
    BY <1>1, <1>4
  <2>2. f[n + 1] = Chat!ClaudeCall(f[n], calls[n + 1])
    BY <1>2, <2>1 DEF IsLoop, Round
  <2>3. ClaudeInv(f[n]) /\ calls[n + 1] \in Chat!Calls
    BY <1>1, <1>4, <2>1
  <2>4. ClaudeInv(f[n + 1])
    BY <2>2, <2>3, ClaudeCalls1
  <2> QED
    BY <2>1, <2>4
<1> HIDE DEF T
<1>5. 0..N \subseteq T
  BY <1>1, <1>3, <1>4, BoundedInduction
<1> QED
  BY <1>1, <1>2, <1>5 DEF T

(* A finish reason closes every block, and is held until the next line.    *)
LEMMA ClaudeFinishes ==
  ASSUME NEW s, ClaudeInv(s), NEW finish \in {"none", "stop", "length"}
  PROVE  ClaudeInv(Chat!ClaudeFinish(s, finish))
<1> DEFINE a == Chat!Finish(s)
           v == [a EXCEPT !.held = finish]
<1>1. ClaudeInv(a)
  BY ChatProgress, ClaudeKeeps DEF ClaudeInv
<1> HIDE DEF a
<1>2. ChatLike(v, a)
  <2>1. DOMAIN a = ChatFields /\ Common(a) /\ ChatTyped(a)
    BY <1>1 DEF ClaudeInv, ChatInv, ChatHalf, ChatTyped
  <2> QED
    BY <2>1 DEF Common, ChatTyped, ChatFields, BaseFields, ChatLike
<1> HIDE DEF v
<1>3. ClaudeInv(v)
  BY <1>1, <1>2, ClaudeKeeps
<1>4. ClaudeInv(Chat!StopBlocks(v))
  BY <1>3, ClaudeStops
<1> QED
  BY <1>4 DEF Chat!ClaudeFinish, v, a

(* A chunk's choice: its thinking, its text, its calls, its finish.        *)
LEMMA ClaudeChooses ==
  ASSUME NEW s, ClaudeInv(s), NEW l, Chat!IsLine(l), l.kind = "chunk"
  PROVE  ClaudeInv(Chat!ClaudeChoice(s, l))
<1> DEFINE a == Chat!ClaudeStart(s)
           s1 == Chat!AdvanceIf(a, Chat!Brings(l))
           s2 == IF l.think THEN Chat!ClaudeThinking(s1) ELSE s1
           s3 == IF l.text THEN Chat!ClaudeText(s2) ELSE s2
           s4 == Chat!ClaudeCalls(s3, l.calls)
<1>1. /\ {l.choice, l.think, l.text} \subseteq BOOLEAN
      /\ l.calls \in Seq(Chat!Calls) /\ l.finish \in {"none", "stop", "length"}
  BY DEF Chat!IsLine
<1>2. ClaudeInv(a)
  BY ClaudeStarts
<1> HIDE DEF a
<1>3. s1 = a \/ s1 = Chat!Advance(a)
  BY DEF Chat!AdvanceIf
<1>4. ClaudeInv(s1)
  BY <1>2, <1>3, ChatProgress, ClaudeKeeps DEF ClaudeInv
<1> HIDE DEF s1
<1>5. ClaudeInv(s2)
  BY <1>4, ClaudeThinks
<1> HIDE DEF s2
<1>6. ClaudeInv(s3)
  BY <1>5, ClaudeTexts
<1> HIDE DEF s3
<1>7. ClaudeInv(s4)
  BY <1>1, <1>6, ClaudeCallsAll
<1> HIDE DEF s4
<1>8. ClaudeInv(Chat!ClaudeFinish(s4, l.finish))
  BY <1>1, <1>7, ClaudeFinishes
<1> QED
  BY <1>8 DEF Chat!ClaudeChoice, s4, s3, s2, s1, a

(* One line for a Messages client.                                         *)
LEMMA ClaudeLines ==
  ASSUME NEW s, ClaudeInv(s), NEW l, Chat!IsLine(l)
  PROVE  ClaudeInv(Chat!ClaudeLine(s, l))
<1> DEFINE t == Chat!ClaudeLine(s, l)
<1>1. ClaudeInv(Chat!Fail(s)) /\ ClaudeInv(Chat!Ended(s))
  BY ChatProgress, ClaudeKeeps DEF ClaudeInv
<1>2. CASE l.kind = "error"
  BY <1>1, <1>2 DEF Chat!ClaudeLine
<1>3. CASE l.kind = "done"
  <2> DEFINE a == Chat!Ended(s)
             b == Chat!StopBlocks(a)
             c == Chat!ClaudeTerminal(b)
             x == Chat!Named("message_stop")
             d == Chat!Say(c, <<x>>)
  <2>1. t = Chat!Fail(s) \/ t = d
    BY <1>3 DEF Chat!ClaudeLine
  <2>2. x.ev = "message_stop"
    BY DEF Chat!Named
  <2> HIDE DEF a, x, t
  <2>3. ClaudeInv(a)
    BY <1>1 DEF a
  <2>4. ClaudeInv(b)
    BY <2>3, ClaudeStops
  <2> HIDE DEF b
  <2>5. ClaudeInv(c)
    BY <2>4, ClaudeTerminates
  <2> HIDE DEF c
  <2>6. ClaudeInv(d)
    BY <2>2, <2>5, ClaudeNames
  <2>7. ClaudeInv(t)
    BY <1>1, <2>1, <2>6
  <2> QED
    BY <2>7 DEF t
<1>4. CASE l.kind = "chunk"
  <2> DEFINE a == Chat!ClaudeTerminal(s)
             s1 == Chat!NoteUsage(a, l)
  <2>1. t = IF l.choice THEN Chat!ClaudeChoice(s1, l) ELSE s1
    BY <1>4 DEF Chat!ClaudeLine
  <2>2. ClaudeInv(a)
    BY ClaudeTerminates
  <2>3. l.usage \in Nat
    BY <1>4 DEF Chat!IsLine
  <2> HIDE DEF a
  <2>4. ClaudeInv(s1)
    BY <2>2, <2>3, ChatNotesUsage, ClaudeKeeps DEF ClaudeInv
  <2> HIDE DEF s1
  <2>5. ClaudeInv(Chat!ClaudeChoice(s1, l))
    BY <1>4, <2>4, ClaudeChooses
  <2> QED
    BY <2>1, <2>4, <2>5
<1> QED
  BY <1>2, <1>3, <1>4 DEF Chat!IsLine

(* The finish that is held is flushed.                                     *)
LEMMA ClaudeFlushes ==
  ASSUME NEW s, ClaudeInv(s)
  PROVE  ClaudeInv(Chat!Flush(s))
<1> DEFINE c == Chat!ClaudeTerminal(s)
           x == Chat!Named("message_stop")
<1>1. x.ev = "message_stop"
  BY DEF Chat!Named
<1>2. ClaudeInv(c)
  BY ClaudeTerminates
<1>3. Chat!Flush(s) = s \/ Chat!Flush(s) = Chat!Say(c, <<x>>)
  BY DEF Chat!Flush
<1> HIDE DEF c, x
<1>4. ClaudeInv(Chat!Say(c, <<x>>))
  BY <1>1, <1>2, ClaudeNames
<1> QED
  BY <1>3, <1>4
-----------------------------------------------------------------------------
(* To a Chat Completions client: raw lines.                                *)
OpenaiInv(s) == ChatInv(s) /\ s.sourceFormat = "openai"

(* A step that says nothing, for a client the stream is passed on to.      *)
LEMMA OpenaiKeeps ==
  ASSUME NEW s, OpenaiInv(s), NEW t, ChatLike(t, s)
  PROVE  OpenaiInv(t)
BY ChatKeeps DEF OpenaiInv

(* An event that speaks of no block, for that client.                      *)
LEMMA OpenaiNames ==
  ASSUME NEW s, OpenaiInv(s), NEW x, x.ev \notin {"start", "stop", "delta"}
  PROVE  OpenaiInv(Chat!Say(s, <<x>>))
BY ChatNames DEF OpenaiInv, ChatInv, ChatSame

(* A call that is passed on opens no block of the converter's.             *)
LEMMA OpenaiCalls ==
  ASSUME NEW s, OpenaiInv(s), NEW call \in Chat!Calls
  PROVE  OpenaiInv(Chat!PassCall(s, call))
<1> DEFINE i == call.index
           z == IF i \in DOMAIN s.tools THEN s.tools[i] ELSE Chat!NewTool(0)
           t == Chat!Grown(z, call)
           v == Chat!WithTool(s, i, t)
<1>1. i \in Nat
  BY DEF Chat!Calls
<1>2. ChatHalf(s, {}) /\ ChatTools(s) /\ DOMAIN s = ChatFields /\ s.sourceFormat = "openai"
  BY DEF OpenaiInv, ChatInv, ChatHalf, ChatTyped
<1>3. z \in Chat!Tool
  BY <1>2, NewToolIs DEF ChatTools
<1>4. Chat!PassCall(s, call) = v
  BY DEF Chat!PassCall
<1> HIDE DEF i, z
<1>5. t \in Chat!Tool
  BY <1>3, GrownIs
<1>6. Put(v, s, i, t)
  BY <1>2, WithToolPuts
<1> HIDE DEF t, v
<1>7. ChatHalf(v, {})
  BY <1>1, <1>2, <1>5, <1>6, ChatGrows
<1> QED
  BY <1>2, <1>4, <1>6, <1>7 DEF OpenaiInv, ChatInv, Put

(* Nor do all calls of a chunk.                                            *)
LEMMA OpenaiCallsAll ==
  ASSUME NEW s, OpenaiInv(s), NEW calls \in Seq(Chat!Calls)
  PROVE  OpenaiInv(Chat!PassCalls(s, calls))
<1> DEFINE N == Len(calls)
<1>1. N \in Nat /\ \A n \in 1..N : calls[n] \in Chat!Calls
  OBVIOUS
<1>2. PICK f : IsLoop(f, N, "PassCalls", calls, s) /\ Chat!PassCalls(s, calls) = f[N]
  BY PassCallsRuns
<1> DEFINE T == {n \in 0..N : OpenaiInv(f[n])}
<1> HIDE DEF N
<1>3. 0 \in T
  BY <1>1, <1>2 DEF IsLoop
<1>4. ASSUME NEW n \in 0..N, n \in T, n + 1 <= N
      PROVE  n + 1 \in T
  <2>1. n + 1 \in 1..N /\ (n + 1) - 1 = n /\ n + 1 \in 0..N
    BY <1>1, <1>4
  <2>2. f[n + 1] = Chat!PassCall(f[n], calls[n + 1])
    BY <1>2, <2>1 DEF IsLoop, Round
  <2>3. OpenaiInv(f[n]) /\ calls[n + 1] \in Chat!Calls
    BY <1>1, <1>4, <2>1
  <2>4. OpenaiInv(f[n + 1])
    BY <2>2, <2>3, OpenaiCalls
  <2> QED
    BY <2>1, <2>4
<1> HIDE DEF T
<1>5. 0..N \subseteq T
  BY <1>1, <1>3, <1>4, BoundedInduction
<1> QED
  BY <1>1, <1>2, <1>5 DEF T

(* One line that is passed on.                                             *)
LEMMA OpenaiLines ==
  ASSUME NEW s, OpenaiInv(s), NEW l, Chat!IsLine(l)
  PROVE  OpenaiInv(Chat!PassthroughLine(s, l))
<1> DEFINE t == Chat!PassthroughLine(s, l)
           x == Chat!Named("raw")
<1>1. OpenaiInv(Chat!Fail(s)) /\ OpenaiInv(Chat!Ended(s)) /\ OpenaiInv(Chat!StateStart(s))
  BY ChatProgress, OpenaiKeeps DEF OpenaiInv
<1>2. x.ev = "raw"
  BY DEF Chat!Named
<1>3. CASE l.kind = "error"
  <2>1. t = Chat!Say(s, <<x>>)
    BY <1>3 DEF Chat!PassthroughLine
  <2> HIDE DEF x
  <2> QED
    BY <1>2, <2>1, OpenaiNames
<1>4. CASE l.kind = "done"
  BY <1>1, <1>4 DEF Chat!PassthroughLine
<1>5. CASE l.kind = "chunk"
  <2> DEFINE a  == IF l.choice THEN Chat!StateStart(s) ELSE s
             s1 == Chat!NoteUsage(a, l)
             s2 == Chat!AdvanceIf(s1, Chat!Brings(l))
             s3 == IF l.finish # "none" THEN Chat!Finish(s2) ELSE s2
             s4 == Chat!PassCalls(s3, l.calls)
  <2>1. t = Chat!Say(s4, <<x>>)
    BY <1>5 DEF Chat!PassthroughLine
  <2>2. l.usage \in Nat /\ l.calls \in Seq(Chat!Calls)
    BY <1>5 DEF Chat!IsLine
  <2>3. OpenaiInv(a)
    BY <1>1
  <2> HIDE DEF a, x, t
  <2>4. OpenaiInv(s1)
    BY <2>2, <2>3, ChatNotesUsage, OpenaiKeeps DEF OpenaiInv
  <2>5. s2 = s1 \/ s2 = Chat!Advance(s1)
    BY DEF Chat!AdvanceIf
  <2> HIDE DEF s1
  <2>6. OpenaiInv(s2)
    BY <2>4, <2>5, ChatProgress, OpenaiKeeps DEF OpenaiInv
  <2> HIDE DEF s2
  <2>7. OpenaiInv(s3)
    BY <2>6, ChatProgress, OpenaiKeeps DEF OpenaiInv
  <2> HIDE DEF s3
  <2>8. OpenaiInv(s4)
    BY <2>2, <2>7, OpenaiCallsAll
  <2> HIDE DEF s4
  <2>9. OpenaiInv(t)
    BY <1>2, <2>1, <2>8, OpenaiNames
  <2> QED
    BY <2>9 DEF t
<1> QED
  BY <1>3, <1>4, <1>5 DEF Chat!IsLine

-----------------------------------------------------------------------------
(* To a Responses client.                                                  *)
RespondInv(s) == ChatInv(s) /\ s.sourceFormat = "openai-response"

(* The tool at index i is about to be served.                              *)
Serving(s, i) ==
  ChatHalf(s, {i}) /\ s.sourceFormat = "openai-response" /\ i \in DOMAIN s.tools

(* A step that says nothing, for a Responses client.                       *)
LEMMA RespondKeeps ==
  ASSUME NEW s, RespondInv(s), NEW t, ChatLike(t, s)
  PROVE  RespondInv(t)
BY ChatKeeps DEF RespondInv

(* An event that speaks of no block, for that client.                      *)
LEMMA RespondNames ==
  ASSUME NEW s, RespondInv(s), NEW x, x.ev \notin {"start", "stop", "delta"}
  PROVE  RespondInv(Chat!Say(s, <<x>>))
BY ChatNames DEF RespondInv, ChatInv, ChatSame

(* A tool changed in its place.                                            *)
LEMMA ToolIs ==
  ASSUME NEW s, DOMAIN s = ChatFields, NEW i \in DOMAIN s.tools, NEW t,
         NEW v, v = [s EXCEPT !.tools = [@ EXCEPT ![i] = t]]
  PROVE  Put(v, s, i, t)
<1> DEFINE q == [s.tools EXCEPT ![i] = t]
           p == PutTools(s, i, t)
<1>1. v.tools = q /\ v.order = s.order
  BY DEF ChatFields, BaseFields
<1>2. q = p
  <2>1. DOMAIN q = DOMAIN p
    BY DEF PutTools
  <2>2. \A j \in DOMAIN p : q[j] = p[j]
    BY DEF PutTools
  <2> QED
    BY <2>1, <2>2 DEF PutTools
<1>3. /\ DOMAIN v = ChatFields
      /\ v.sourceFormat = s.sourceFormat /\ v.next = s.next /\ v.said = s.said
      /\ v.items = s.items /\ v.progress = s.progress
      /\ v.started = s.started /\ v.finished = s.finished /\ v.terminalSeen = s.terminalSeen
      /\ v.done = s.done /\ v.failed = s.failed
      /\ v.held = s.held /\ v.terminalSent = s.terminalSent /\ v.usage = s.usage
      /\ v.think = s.think /\ v.text = s.text
  BY DEF ChatFields, BaseFields
<1> HIDE DEF q, p
<1> QED
  BY <1>1, <1>2, <1>3 DEF Put, p

(* The fragments that were held back are sent once the item is open, and   *)
(* are then all sent.                                                      *)
LEMMA RespondServes ==
  ASSUME NEW s, NEW i \in Nat, Serving(s, i)
  PROVE  /\ RespondInv(Chat!SendArguments(s, i))
         /\ DOMAIN Chat!SendArguments(s, i).tools = DOMAIN s.tools
         /\ Chat!SendArguments(s, i).order = s.order
<1> DEFINE t == s.tools[i]
           n == t.got - t.sent
           g == [t EXCEPT !.sent = t.got]
           v == [s EXCEPT !.tools[i].sent = t.got]
           u == Chat!Say(v, <<Chat!Delta(t.block, n)>>)
           r == Chat!SendArguments(s, i)
<1>1. /\ DOMAIN s = ChatFields /\ t \in Chat!Tool /\ RespondTold(s, {i}) /\ ChatBlocks(s)
      /\ s.sourceFormat = "openai-response" /\ ChatHalf(s, {i})
  BY DEF Serving, ChatHalf, ChatTyped, ChatTools
<1>2. CASE Served(t)
  <2>1. r = s
    BY <1>2 DEF Chat!SendArguments, Served
  <2>2. RespondTold(s, {})
    BY <1>1, <1>2 DEF RespondTold
  <2>3. RespondInv(s)
    BY <1>1, <2>2 DEF ChatHalf, RespondInv, ChatInv
  <2> QED
    BY <2>1, <2>3
<1>3. CASE ~Served(t)
  <2>1. r = u
    BY <1>3 DEF Chat!SendArguments, Served
  <2>2. t.announced /\ t.block \in Opened(s.said)
    BY <1>1, <1>3 DEF Serving, RespondTold, Served
  <2>3. ~t.stopped /\ t.block \notin Shut(s.said)
    BY <1>1, <1>3 DEF Serving, RespondTold, ChatBlocks
  <2>4. v = [s EXCEPT !.tools = [@ EXCEPT ![i] = g]]
    BY <1>1 DEF Serving, ChatFields, BaseFields
  <2>5. Put(v, s, i, g)
    BY <1>1, <2>4, ToolIs DEF Serving
  <2>6. /\ g \in Chat!Tool /\ g.block = t.block /\ g.stopped = t.stopped
        /\ g.announced = t.announced /\ Served(g)
    BY <1>1 DEF Chat!Tool, Served
  <2> HIDE DEF v, g, r
  <2>7. ChatHalf(v, {})
    <3>1. {i} \ {i} \subseteq {}
      OBVIOUS
    <3> QED
      BY <1>1, <2>5, <2>6, <3>1, ChatGrows DEF Serving
  <2>8. /\ v.said = s.said /\ v.sourceFormat = "openai-response"
        /\ v.order = s.order /\ DOMAIN v.tools = DOMAIN s.tools
    <3>1. i \in DOMAIN s.tools
      BY DEF Serving
    <3>2. DOMAIN v.tools = DOMAIN s.tools \union {i}
      BY <2>5, PutIs
    <3>3. /\ v.said = s.said /\ v.sourceFormat = s.sourceFormat
          /\ v.order = s.order
      BY <2>5, <3>1 DEF Put
    <3> QED
      BY <1>1, <3>1, <3>2, <3>3
  <2> DEFINE b == t.block
  <2>9. u = Chat!Say(v, <<Chat!Delta(b, n)>>) /\ b \in Opened(v.said) /\ b \notin Shut(v.said)
    BY <2>2, <2>3, <2>8
  <2> HIDE DEF b, n, u
  <2>10. ChatHalf(u, {}) /\ ChatSame(u, v)
    BY <2>7, <2>9, ChatFeeds
  <2>11. RespondInv(u) /\ DOMAIN u.tools = DOMAIN s.tools /\ u.order = s.order
    BY <2>8, <2>10 DEF ChatSame, RespondInv, ChatInv
  <2>12. RespondInv(r) /\ DOMAIN r.tools = DOMAIN s.tools /\ r.order = s.order
    BY <2>1, <2>11
  <2> QED
    BY <2>12 DEF r
<1> QED
  BY <1>2, <1>3
-----------------------------------------------------------------------------
(* An item is opened once, as a function or as a custom tool.              *)
LEMMA RespondAnnounces ==
  ASSUME NEW s, NEW i \in Nat, Serving(s, i), ~s.tools[i].announced, NEW custom \in BOOLEAN
  PROVE  /\ Serving(Chat!Announce(s, i, custom), i)
         /\ DOMAIN Chat!Announce(s, i, custom).tools = DOMAIN s.tools
         /\ Chat!Announce(s, i, custom).order = s.order
<1> DEFINE z == s.tools[i]
           b == z.block
           kind == IF custom THEN "custom" ELSE "tool"
           x == Chat!Start(b, kind)
           g == [[z EXCEPT !.announced = TRUE] EXCEPT !.custom = custom]
           v == [s EXCEPT !.tools[i].announced = TRUE, !.tools[i].custom = custom]
           t == Chat!Say(v, <<x>>)
<1>1. Chat!Announce(s, i, custom) = t
  BY DEF Chat!Announce
<1>2. x.ev = "start" /\ x.block = b
  BY StartIs
<1>3. /\ DOMAIN s = ChatFields /\ z \in Chat!Tool /\ RespondTold(s, {i}) /\ ChatBlocks(s)
      /\ s.sourceFormat = "openai-response" /\ ChatHalf(s, {i}) /\ Common(s)
      /\ i \in DOMAIN s.tools
  BY DEF Serving, ChatHalf, ChatTyped, ChatTools
<1>4. Put(v, s, i, g)
  <2>1. v = [s EXCEPT !.tools = [@ EXCEPT ![i] = g]]
    BY <1>3 DEF ChatFields, BaseFields
  <2> HIDE DEF v, g
  <2> QED
    BY <1>3, <2>1, ToolIs
<1>5. /\ g \in Chat!Tool /\ g.block = b /\ g.stopped = z.stopped
      /\ g.announced
  BY <1>3 DEF Chat!Tool
<1> HIDE DEF g, v, x
<1>6. ChatSame(t, v) /\ t.said = v.said \o <<x>>
  BY <1>4, ChatSaysAny DEF Put
<1>7. Common(v) /\ ChatTyped(v) /\ ChatTools(v)
  BY <1>3, <1>4, <1>5, PutTyped
<1>8. /\ DOMAIN v.tools = DOMAIN s.tools /\ v.tools[i] = g
      /\ \A j \in DOMAIN s.tools : j # i => v.tools[j] = s.tools[j]
  <2>1. /\ DOMAIN v.tools = DOMAIN s.tools \union {i} /\ v.tools[i] = g
        /\ \A j \in DOMAIN s.tools : j # i => v.tools[j] = s.tools[j]
    BY <1>4, PutIs
  <2> QED
    BY <1>3, <2>1
<1>9. /\ t.said = s.said \o <<x>> /\ t.sourceFormat = "openai-response" /\ t.next = s.next
      /\ t.think = s.think /\ t.text = s.text /\ t.tools = v.tools /\ t.order = s.order
  <2>1. /\ v.said = s.said /\ v.sourceFormat = s.sourceFormat /\ v.next = s.next
        /\ v.think = s.think /\ v.text = s.text /\ v.order = s.order
    BY <1>3, <1>4 DEF Put
  <2> QED
    BY <1>3, <1>6, <2>1 DEF ChatSame
<1> HIDE DEF t
<1>10. b \notin Opened(s.said) /\ b \in 0..(s.next - 1)
  BY <1>3 DEF RespondTold, ChatBlocks
<1>11. b \notin Shut(s.said) /\ ~z.stopped
  <2>1. Shut(s.said) \subseteq Opened(s.said)
    BY <1>3, LawfulFacts DEF Common
  <2> QED
    BY <1>3, <1>10, <2>1 DEF ChatBlocks
<1>12. /\ Lawful(t.said, "openai-response")
       /\ Opened(t.said) = Opened(s.said) \union {b}
       /\ Shut(t.said) = Shut(s.said)
  <2>1. Lawful(s.said, "openai-response")
    BY <1>3 DEF Common
  <2>2. MayTell(s.said, "openai-response", x)
    BY <1>2, <1>10 DEF MayTell
  <2> DEFINE w == s.said \o <<x>>
  <2>3. /\ Lawful(w, "openai-response") /\ Opened(w) = Opened(s.said) \union {x.block}
        /\ Shut(w) = Shut(s.said)
    BY <1>2, <2>1, <2>2, Tells
  <2> HIDE DEF w
  <2>4. t.said = w
    BY <1>9 DEF w
  <2> QED
    BY <1>2, <2>3, <2>4
<1>13. Common(t)
  <2>1. Lawful(t.said, t.sourceFormat)
    BY <1>9, <1>12
  <2>2. Opened(t.said) \subseteq 0..(t.next - 1)
    BY <1>3, <1>9, <1>10, <1>12 DEF Common
  <2> QED
    BY <1>6, <1>7, <2>1, <2>2 DEF Common, ChatSame
<1>14. ChatTyped(t) /\ ChatTools(t)
  <2>1. ChatTyped(t)
    BY <1>6, <1>7 DEF ChatTyped, ChatSame
  <2>2. ChatTools(t)
    BY <1>6, <1>7 DEF ChatTools, ChatSame
  <2> QED
    BY <2>1, <2>2
<1>15. ChatBlocks(t)
  <2>1. OpenFor(t.think, t.said) /\ OpenFor(t.text, t.said)
    BY <1>3, <1>9, <1>12 DEF ChatBlocks, OpenFor
  <2>2. t.think = t.text => t.think = Closed
    BY <1>3, <1>9 DEF ChatBlocks
  <2>3. \A j \in DOMAIN t.tools : /\ t.tools[j].block = s.tools[j].block
                                  /\ t.tools[j].stopped = s.tools[j].stopped
    BY <1>5, <1>8, <1>9
  <2>4. ASSUME NEW j \in DOMAIN t.tools
        PROVE  /\ t.tools[j].block \in 0..(t.next - 1)
               /\ t.tools[j].block \notin {t.think, t.text}
               /\ t.tools[j].stopped <=> t.tools[j].block \in Shut(t.said)
    BY <1>3, <1>8, <1>9, <1>12, <2>3, <2>4 DEF ChatBlocks
  <2>5. \A j, k \in DOMAIN t.tools : t.tools[j].block = t.tools[k].block => j = k
    BY <1>3, <1>8, <1>9, <2>3 DEF ChatBlocks
  <2>6. i \in DOMAIN t.tools /\ t.tools[i].block = b
    BY <1>3, <1>5, <1>8, <1>9
  <2>7. ASSUME NEW c \in Opened(t.said) \ Shut(t.said)
        PROVE  c \in {t.think, t.text} \/ \E j \in DOMAIN t.tools : t.tools[j].block = c
    <3>1. CASE c = b
      BY <2>6, <3>1
    <3>2. CASE c # b
      <4>1. c \in Opened(s.said) \ Shut(s.said)
        BY <1>12, <2>7, <3>2
      <4>2. c \in {s.think, s.text} \/ \E j \in DOMAIN s.tools : s.tools[j].block = c
        BY <1>3, <4>1 DEF ChatBlocks
      <4> QED
        BY <1>8, <1>9, <2>3, <4>2
    <3> QED
      BY <3>1, <3>2
  <2> QED
    BY <2>1, <2>2, <2>4, <2>5, <2>7 DEF ChatBlocks
<1>i. t.items = s.items
  BY <1>4, <1>6 DEF ChatSame, Put
<1>16. RespondTold(t, {i})
  <2> SUFFICES ASSUME NEW j \in DOMAIN s.tools
               PROVE  /\ t.tools[j].announced <=> t.tools[j].block \in Opened(t.said)
                      /\ Served(t.tools[j]) \/ (j \in {i} /\ ~t.tools[j].stopped)
    BY <1>3, <1>8, <1>9, <1>12, <1>i DEF RespondTold
  <2>1. CASE j = i
    BY <1>5, <1>8, <1>9, <1>11, <1>12, <2>1
  <2>2. CASE j # i
    <3>1. t.tools[j] = s.tools[j] /\ s.tools[j].block # b
      BY <1>3, <1>8, <1>9, <2>2 DEF ChatBlocks
    <3> QED
      BY <1>3, <1>12, <2>2, <3>1 DEF RespondTold
  <2> QED
    BY <2>1, <2>2
<1>17. Serving(t, i)
  BY <1>3, <1>8, <1>9, <1>13, <1>14, <1>15, <1>16 DEF Serving, ChatHalf
<1> QED
  BY <1>1, <1>8, <1>9, <1>17

(* An item whose name is known is announced, if it was not.                *)
LEMMA RespondAnnouncesNamed ==
  ASSUME NEW s, NEW i \in Nat, Serving(s, i)
  PROVE  Serving(Chat!AnnounceNamed(s, i), i)
<1>1. \/ Chat!AnnounceNamed(s, i) = s
      \/ /\ ~s.tools[i].announced
         /\ Chat!AnnounceNamed(s, i) = Chat!Announce(s, i, s.tools[i].name = "custom")
  BY DEF Chat!AnnounceNamed
<1> DEFINE c == s.tools[i].name = "custom"
<1>2. c \in BOOLEAN
  OBVIOUS
<1>3. \/ Chat!AnnounceNamed(s, i) = s
      \/ ~s.tools[i].announced /\ Chat!AnnounceNamed(s, i) = Chat!Announce(s, i, c)
  BY <1>1
<1> HIDE DEF c
<1> QED
  BY <1>2, <1>3, RespondAnnounces

(* What is known of a name after one more fragment of it.                  *)
LEMMA NameAfterIs ==
  ASSUME NEW name \in Chat!NameParts \union {"unknown"}, NEW f \in Chat!NameParts
  PROVE  Chat!NameAfter(name, f) \in Chat!NameParts \union {"unknown"}
BY DEF Chat!NameAfter, Chat!NameParts

(* A call's fragment closes text and thinking, announces the item if it    *)
(* completes the name, and sends what was held back.                       *)
LEMMA RespondCalls1 ==
  ASSUME NEW s, RespondInv(s), NEW call \in Chat!Calls
  PROVE  RespondInv(Chat!RespondCall(s, call))
<1> DEFINE i == call.index
           a == Chat!CloseThinking(s)
           c == Chat!CloseText(a)
           r == [c EXCEPT !.next = @ + 1]
           w == Chat!WithTool(r, i, Chat!NewTool(c.next))
           o == IF i \in DOMAIN c.tools THEN c ELSE w
           z == o.tools[i]
           t == Chat!Grown(z, call)
           m == IF t.announced THEN t.name ELSE Chat!NameAfter(t.name, call.name)
           g == [t EXCEPT !.name = m]
           v == Chat!WithTool(o, i, g)
           u == Chat!AnnounceNamed(v, i)
           h == Chat!RespondCall(s, call)
<1>1. \/ h = Chat!Fail(s)
      \/ ~(z.stopped /\ call.args # "none") /\ h = Chat!SendArguments(u, i)
  BY DEF Chat!RespondCall
<1>2. i \in Nat /\ call.name \in Chat!NameParts
  BY DEF Chat!Calls
<1> HIDE DEF h, i
<1>3. RespondInv(a)
  BY ClosesThinking DEF RespondInv, After
<1> HIDE DEF a
<1>4. RespondInv(c)
  BY <1>3, ClosesText DEF RespondInv, After
<1> HIDE DEF c
<1>5. /\ ChatInv(r) /\ Unused(r, c.next)
      /\ r.sourceFormat = "openai-response" /\ r.tools = c.tools
  BY <1>4, ChatReserves DEF RespondInv
<1> DEFINE b == c.next
<1>6. w = Chat!WithTool(r, i, Chat!NewTool(b)) /\ Unused(r, b)
  BY <1>5
<1> HIDE DEF r, b, w
<1>7. i \notin DOMAIN c.tools => RespondInv(w) /\ i \in DOMAIN w.tools
  <2> SUFFICES ASSUME i \notin DOMAIN c.tools PROVE RespondInv(w) /\ i \in DOMAIN w.tools
    OBVIOUS
  <2>1. i \notin DOMAIN r.tools
    BY <1>5
  <2>2. ChatInv(w) /\ w.sourceFormat = "openai-response" /\ i \in DOMAIN w.tools
    BY <1>2, <1>5, <1>6, <2>1, ChatNotesTool
  <2> QED
    BY <2>2 DEF RespondInv
<1>8. RespondInv(o) /\ i \in DOMAIN o.tools
  BY <1>4, <1>7
<1> HIDE DEF o
<1>9. /\ ChatHalf(o, {}) /\ o.sourceFormat = "openai-response" /\ RespondTold(o, {})
      /\ DOMAIN o = ChatFields /\ z \in Chat!Tool
  BY <1>8 DEF RespondInv, ChatInv, ChatHalf, ChatTyped, ChatTools
<1>10. Served(z)
  BY <1>8, <1>9 DEF RespondTold
<1> HIDE DEF z
<1>11. /\ t \in Chat!Tool
       /\ t.block = z.block /\ t.stopped = z.stopped /\ t.announced = z.announced
       /\ t.custom = z.custom /\ t.sent = z.sent /\ t.name = z.name
       /\ call.args = "none" => t.got = z.got
  BY <1>9, GrownIs
<1> HIDE DEF t
<1>12. m \in Chat!NameParts \union {"unknown"}
  <2>1. t.name \in Chat!NameParts \union {"unknown"}
    BY <1>11 DEF Chat!Tool
  <2> QED
    BY <1>2, <2>1, NameAfterIs
<1> HIDE DEF m
<1>13. /\ g \in Chat!Tool
       /\ g.block = t.block /\ g.stopped = t.stopped /\ g.announced = t.announced
       /\ g.custom = t.custom /\ g.sent = t.sent /\ g.got = t.got
  BY <1>11, <1>12 DEF Chat!Tool
<1> HIDE DEF g
<1>14. Put(v, o, i, g)
  BY <1>9, WithToolPuts
<1> HIDE DEF v
<1>15. ~(z.stopped /\ call.args # "none") => Serving(v, i)
  <2> SUFFICES ASSUME ~(z.stopped /\ call.args # "none") PROVE Serving(v, i)
    OBVIOUS
  <2>1. Served(g) \/ (i \in {i} /\ ~g.stopped)
    BY <1>10, <1>11, <1>13 DEF Served
  <2>2. /\ g.block = o.tools[i].block /\ g.stopped = o.tools[i].stopped
        /\ g.announced = o.tools[i].announced
    BY <1>11, <1>13 DEF z
  <2>3. {} \ {i} \subseteq {i}
    OBVIOUS
  <2>4. ChatHalf(v, {i})
    BY <1>2, <1>8, <1>9, <1>13, <1>14, <2>1, <2>2, <2>3, ChatGrows
  <2>5. i \in DOMAIN v.tools
    BY <1>14, PutIs
  <2> QED
    BY <1>9, <1>14, <2>4, <2>5 DEF Serving, Put
<1>16. Serving(v, i) => RespondInv(Chat!SendArguments(u, i))
  BY <1>2, RespondAnnouncesNamed, RespondServes
<1>17. RespondInv(Chat!Fail(s))
  BY ChatProgress, RespondKeeps DEF RespondInv
<1>18. RespondInv(h)
  BY <1>1, <1>15, <1>16, <1>17
<1> QED
  BY <1>18 DEF h

(* All calls of a chunk.                                                   *)
LEMMA RespondCallsAll ==
  ASSUME NEW s, RespondInv(s), NEW calls \in Seq(Chat!Calls)
  PROVE  RespondInv(Chat!RespondCalls(s, calls))
<1> DEFINE N == Len(calls)
<1>1. N \in Nat /\ \A n \in 1..N : calls[n] \in Chat!Calls
  OBVIOUS
<1>2. PICK f : IsLoop(f, N, "RespondCalls", calls, s) /\ Chat!RespondCalls(s, calls) = f[N]
  BY RespondCallsRuns
<1> DEFINE T == {n \in 0..N : RespondInv(f[n])}
<1> HIDE DEF N
<1>3. 0 \in T
  BY <1>1, <1>2 DEF IsLoop
<1>4. ASSUME NEW n \in 0..N, n \in T, n + 1 <= N
      PROVE  n + 1 \in T
  <2>1. n + 1 \in 1..N /\ (n + 1) - 1 = n /\ n + 1 \in 0..N
    BY <1>1, <1>4
  <2>2. f[n + 1] = Chat!RespondCall(f[n], calls[n + 1])
    BY <1>2, <2>1 DEF IsLoop, Round
  <2>3. RespondInv(f[n]) /\ calls[n + 1] \in Chat!Calls
    BY <1>1, <1>4, <2>1
  <2>4. RespondInv(f[n + 1])
    BY <2>2, <2>3, RespondCalls1
  <2> QED
    BY <2>1, <2>4
<1> HIDE DEF T
<1>5. 0..N \subseteq T
  BY <1>1, <1>3, <1>4, BoundedInduction
<1> QED
  BY <1>1, <1>2, <1>5 DEF T

(* The finish reason announces the tools that still wait for their names.  *)
LEMMA FinishesTool ==
  ASSUME NEW s, RespondInv(s), NEW i \in Nat, i \in DOMAIN s.tools
  PROVE  /\ RespondInv(Chat!FinishTool(s, i))
         /\ DOMAIN Chat!FinishTool(s, i).tools = DOMAIN s.tools
         /\ Chat!FinishTool(s, i).order = s.order
<1> DEFINE a == IF s.tools[i].announced THEN s ELSE Chat!Announce(s, i, FALSE)
<1>1. Serving(s, i)
  <2>1. RespondTold(s, {i})
    BY DEF RespondInv, ChatInv, ChatHalf, RespondTold
  <2> QED
    BY <2>1 DEF RespondInv, ChatInv, ChatHalf, Serving
<1>2. Serving(a, i) /\ DOMAIN a.tools = DOMAIN s.tools /\ a.order = s.order
  BY <1>1, RespondAnnounces
<1>3. Chat!FinishTool(s, i) = Chat!SendArguments(a, i)
  BY DEF Chat!FinishTool
<1> HIDE DEF a
<1> QED
  BY <1>2, <1>3, RespondServes

(* At the finish every tool that is not announced yet is announced, and    *)
(* gets what was held back.                                                *)
LEMMA FinishesTools ==
  ASSUME NEW s, RespondInv(s)
  PROVE  RespondInv(Chat!FinishTools(s))
<1> DEFINE N == Len(s.order)
<1>1. /\ s.order \in Seq(Nat) /\ N \in Nat
      /\ \A n \in 1..N : s.order[n] \in DOMAIN s.tools /\ s.order[n] \in Nat
  BY DEF RespondInv, ChatInv, ChatHalf, ChatTools
<1>2. PICK f : IsLoop(f, N, "FinishTools", s.order, s) /\ Chat!FinishTools(s) = f[N]
  BY <1>1, FinishToolsRuns
<1> DEFINE T == {n \in 0..N : RespondInv(f[n]) /\ DOMAIN f[n].tools = DOMAIN s.tools}
<1> HIDE DEF N
<1>3. 0 \in T
  BY <1>1, <1>2 DEF IsLoop
<1>4. ASSUME NEW n \in 0..N, n \in T, n + 1 <= N
      PROVE  n + 1 \in T
  <2>1. n + 1 \in 1..N /\ (n + 1) - 1 = n /\ n + 1 \in 0..N
    BY <1>1, <1>4
  <2>2. f[n + 1] = Chat!FinishTool(f[n], s.order[n + 1])
    BY <1>2, <2>1 DEF IsLoop, Round
  <2>3. /\ RespondInv(f[n]) /\ DOMAIN f[n].tools = DOMAIN s.tools
        /\ s.order[n + 1] \in DOMAIN f[n].tools /\ s.order[n + 1] \in Nat
    BY <1>1, <1>4, <2>1
  <2>4. RespondInv(f[n + 1]) /\ DOMAIN f[n + 1].tools = DOMAIN s.tools
    BY <2>2, <2>3, FinishesTool
  <2> QED
    BY <2>1, <2>4
<1> HIDE DEF T
<1>5. 0..N \subseteq T
  BY <1>1, <1>3, <1>4, BoundedInduction
<1> QED
  BY <1>1, <1>2, <1>5 DEF T
-----------------------------------------------------------------------------
(* response.completed, after every item has been closed, or an error.      *)
LEMMA RespondTerminates ==
  ASSUME NEW s, RespondInv(s), NEW synthetic \in BOOLEAN
  PROVE  RespondInv(Chat!RespondTerminal(s, synthetic))
<1> DEFINE t == Chat!RespondTerminal(s, synthetic)
           c == Chat!StopBlocks(s)
           v == [c EXCEPT !.held = "none", !.terminalSent = TRUE]
           u == Chat!Terminal(v)
           x == Chat!Completed(Chat!StatusOf(s.held),
                  Chat!Listed(c.items, c.next))
           e == Chat!Say(u, <<x>>)
           Ready == \A i \in DOMAIN s.tools : s.tools[i].stopped \/ s.tools[i].announced
<1>1. t = s \/ t = Chat!Fail(s) \/ (Ready /\ t = e)
  BY DEF Chat!RespondTerminal
<1>2. x.ev = "completed"
  BY DEF Chat!Completed
<1> HIDE DEF x, t
<1>3. RespondInv(Chat!Fail(s))
  BY ChatProgress, RespondKeeps DEF RespondInv
<1>4. Ready => RespondInv(c)
  <2> SUFFICES ASSUME Ready PROVE RespondInv(c)
    OBVIOUS
  <2>1. \A i \in DOMAIN s.tools : Closable1(s, i)
    BY DEF RespondInv, ChatInv, ChatHalf, RespondTold, Closable1
  <2> QED
    BY <2>1, StopsBlocks DEF RespondInv, After
<1> HIDE DEF c
<1>5. RespondInv(c) => RespondInv(v)
  <2> SUFFICES ASSUME RespondInv(c) PROVE RespondInv(v)
    OBVIOUS
  <2>1. DOMAIN c = ChatFields /\ Common(c) /\ ChatTyped(c)
    BY DEF RespondInv, ChatInv, ChatHalf, ChatTyped
  <2>2. ChatLike(v, c)
    BY <2>1 DEF Common, ChatTyped, ChatFields, BaseFields, ChatLike
  <2> QED
    BY <2>2, RespondKeeps
<1> HIDE DEF v
<1>6. RespondInv(v) => RespondInv(u)
  BY ChatProgress, RespondKeeps DEF RespondInv
<1> HIDE DEF u
<1>7. RespondInv(u) => RespondInv(e)
  BY <1>2, RespondNames
<1> HIDE DEF e
<1>8. RespondInv(t)
  BY <1>1, <1>3, <1>4, <1>5, <1>6, <1>7
<1> QED
  BY <1>8 DEF t

(* response.created.                                                       *)
LEMMA RespondStarts ==
  ASSUME NEW s, RespondInv(s)
  PROVE  RespondInv(Chat!RespondStart(s))
<1> DEFINE v == Chat!StateStart(s)
           x == Chat!Named("created")
<1>1. x.ev = "created"
  BY DEF Chat!Named
<1>2. RespondInv(v)
  BY ChatProgress, RespondKeeps DEF RespondInv
<1>3. Chat!RespondStart(s) = s \/ Chat!RespondStart(s) = Chat!Say(v, <<x>>)
  BY DEF Chat!RespondStart
<1> HIDE DEF v, x
<1>4. RespondInv(Chat!Say(v, <<x>>))
  BY <1>1, <1>2, RespondNames
<1> QED
  BY <1>3, <1>4

(* Reasoning goes to the open reasoning item, or opens one.                *)
LEMMA RespondThinks ==
  ASSUME NEW s, RespondInv(s)
  PROVE  RespondInv(Chat!RespondThinking(s))
<1> DEFINE c == Chat!CloseText(s)
           w == Chat!Say([c EXCEPT !.think = c.next, !.next = @ + 1],
                         <<Chat!Start(c.next, "thinking")>>)
           o == IF c.think # Closed THEN c ELSE w
           t == Chat!Say(o, <<Chat!Delta(o.think, 1)>>)
<1>1. RespondInv(c)
  BY ClosesText DEF RespondInv, After
<1>2. Chat!RespondThinking(s) = t
  BY <1>1 DEF Chat!RespondThinking, Chat!Closed, Closed
<1> HIDE DEF c
<1>3. c.think = Closed => ChatInv(w) /\ w.sourceFormat = "openai-response" /\ w.think = c.next
  BY <1>1, NextThinking DEF RespondInv
<1>4. c.next # Closed
  BY <1>1 DEF RespondInv, ChatInv, ChatHalf, Common, Closed
<1> HIDE DEF w
<1>5. ChatInv(o) /\ o.sourceFormat = "openai-response" /\ o.think # Closed
  BY <1>1, <1>3, <1>4 DEF RespondInv
<1> HIDE DEF o
<1>6. ChatInv(t) /\ t.sourceFormat = "openai-response"
  BY <1>5, FeedsOpen
<1> QED
  BY <1>2, <1>6 DEF RespondInv

(* So does text.                                                           *)
LEMMA RespondTexts ==
  ASSUME NEW s, RespondInv(s)
  PROVE  RespondInv(Chat!RespondText(s))
<1> DEFINE c == Chat!CloseThinking(s)
           w == Chat!Say([c EXCEPT !.text = c.next, !.next = @ + 1],
                         <<Chat!Start(c.next, "text")>>)
           o == IF c.text # Closed THEN c ELSE w
           t == Chat!Say(o, <<Chat!Delta(o.text, 1)>>)
<1>1. RespondInv(c)
  BY ClosesThinking DEF RespondInv, After
<1>2. Chat!RespondText(s) = t
  BY <1>1 DEF Chat!RespondText, Chat!Closed, Closed
<1> HIDE DEF c
<1>3. c.text = Closed => ChatInv(w) /\ w.sourceFormat = "openai-response" /\ w.text = c.next
  BY <1>1, NextText DEF RespondInv
<1>4. c.next # Closed
  BY <1>1 DEF RespondInv, ChatInv, ChatHalf, Common, Closed
<1> HIDE DEF w
<1>5. ChatInv(o) /\ o.sourceFormat = "openai-response" /\ o.text # Closed
  BY <1>1, <1>3, <1>4 DEF RespondInv
<1> HIDE DEF o
<1>6. ChatInv(t) /\ t.sourceFormat = "openai-response"
  BY <1>5, FeedsOpen
<1> QED
  BY <1>2, <1>6 DEF RespondInv

(* A finish reason announces the tools whose names were never whole,       *)
(* closes the thinking item, and is held until the next line.              *)
LEMMA RespondFinishes ==
  ASSUME NEW s, RespondInv(s), NEW finish \in {"none", "stop", "length"}
  PROVE  RespondInv(Chat!RespondFinish(s, finish))
<1> DEFINE a == Chat!FinishTools(s)
           b == Chat!Finish(a)
           v == [b EXCEPT !.held = finish]
           t == Chat!RespondFinish(s, finish)
<1>1. t = s \/ t = Chat!Fail(s) \/ t = Chat!CloseThinking(v)
  BY DEF Chat!RespondFinish
<1>2. RespondInv(Chat!Fail(s))
  BY ChatProgress, RespondKeeps DEF RespondInv
<1>3. RespondInv(a)
  BY FinishesTools
<1> HIDE DEF a, t
<1>4. RespondInv(b)
  BY <1>3, ChatProgress, RespondKeeps DEF RespondInv
<1> HIDE DEF b
<1>5. ChatLike(v, b)
  <2>1. DOMAIN b = ChatFields /\ Common(b) /\ ChatTyped(b)
    BY <1>4 DEF RespondInv, ChatInv, ChatHalf, ChatTyped
  <2> QED
    BY <2>1 DEF Common, ChatTyped, ChatFields, BaseFields, ChatLike
<1> HIDE DEF v
<1>6. RespondInv(v)
  BY <1>4, <1>5, RespondKeeps
<1>7. RespondInv(Chat!CloseThinking(v))
  BY <1>6, ClosesThinking DEF RespondInv, After
<1>8. RespondInv(t)
  BY <1>1, <1>2, <1>7
<1> QED
  BY <1>8 DEF t

(* A chunk's choice.                                                       *)
LEMMA RespondChooses ==
  ASSUME NEW s, RespondInv(s), NEW l, Chat!IsLine(l), l.kind = "chunk"
  PROVE  RespondInv(Chat!RespondChoice(s, l))
<1> DEFINE s1 == Chat!RespondStart(s)
           s2 == IF l.think THEN Chat!RespondThinking(s1) ELSE s1
           s3 == IF l.text THEN Chat!RespondText(s2) ELSE s2
           s4 == Chat!RespondCalls(s3, l.calls)
           s5 == Chat!AdvanceIf(s4, l.finish = "none" /\ (~s.started \/ Chat!Brings(l)))
<1>1. /\ {l.choice, l.think, l.text} \subseteq BOOLEAN
      /\ l.calls \in Seq(Chat!Calls) /\ l.finish \in {"none", "stop", "length"}
  BY DEF Chat!IsLine
<1>2. RespondInv(s1)
  BY RespondStarts
<1> HIDE DEF s1
<1>3. RespondInv(s2)
  BY <1>2, RespondThinks
<1> HIDE DEF s2
<1>4. RespondInv(s3)
  BY <1>3, RespondTexts
<1> HIDE DEF s3
<1>5. RespondInv(s4)
  BY <1>1, <1>4, RespondCallsAll
<1>6. s5 = s4 \/ s5 = Chat!Advance(s4)
  BY DEF Chat!AdvanceIf
<1> HIDE DEF s4
<1>7. RespondInv(s5)
  BY <1>5, <1>6, ChatProgress, RespondKeeps DEF RespondInv
<1>8. Chat!RespondChoice(s, l) = Chat!RespondFinish(s5, l.finish)
  BY DEF Chat!RespondChoice, s4, s3, s2, s1
<1> HIDE DEF s5
<1>9. RespondInv(Chat!RespondFinish(s5, l.finish))
  BY <1>1, <1>7, RespondFinishes
<1> QED
  BY <1>8, <1>9

(* One line for a Responses client.                                        *)
LEMMA RespondLines ==
  ASSUME NEW s, RespondInv(s), NEW l, Chat!IsLine(l)
  PROVE  RespondInv(Chat!ResponsesLine(s, l))
<1> DEFINE t == Chat!ResponsesLine(s, l)
<1>1. RespondInv(Chat!Fail(s))
  BY ChatProgress, RespondKeeps DEF RespondInv
<1>2. CASE l.kind = "error"
  BY <1>1, <1>2 DEF Chat!ResponsesLine
<1>3. CASE l.kind = "done"
  <2> DEFINE a == Chat!CloseThinking(s)
             b == Chat!RespondTerminal(a, TRUE)
             d == [b EXCEPT !.done = TRUE]
             e == Chat!Advance(d)
  <2>1. t = b \/ t = e
    BY <1>3 DEF Chat!ResponsesLine
  <2>2. RespondInv(a)
    BY ClosesThinking DEF RespondInv, After
  <2> HIDE DEF a, t
  <2>3. RespondInv(b)
    BY <2>2, RespondTerminates
  <2> HIDE DEF b
  <2>4. ChatLike(d, b)
    <3>1. DOMAIN b = ChatFields /\ Common(b) /\ ChatTyped(b)
      BY <2>3 DEF RespondInv, ChatInv, ChatHalf, ChatTyped
    <3> QED
      BY <3>1 DEF Common, ChatTyped, ChatFields, BaseFields, ChatLike
  <2> HIDE DEF d
  <2>5. RespondInv(e)
    BY <2>3, <2>4, ChatProgress, RespondKeeps DEF RespondInv
  <2> HIDE DEF e
  <2>6. RespondInv(t)
    BY <2>1, <2>3, <2>5
  <2> QED
    BY <2>6 DEF t
<1>4. CASE l.kind = "chunk"
  <2> DEFINE a == Chat!RespondTerminal(s, FALSE)
             b == Chat!NoteUsage(a, l)
  <2>1. t = b \/ t = Chat!RespondChoice(b, l)
    BY <1>4 DEF Chat!ResponsesLine
  <2>2. RespondInv(a)
    BY RespondTerminates
  <2>3. l.usage \in Nat
    BY <1>4 DEF Chat!IsLine
  <2> HIDE DEF a
  <2>4. RespondInv(b)
    BY <2>2, <2>3, ChatNotesUsage, RespondKeeps DEF RespondInv
  <2> HIDE DEF b
  <2>5. RespondInv(Chat!RespondChoice(b, l))
    BY <1>4, <2>4, RespondChooses
  <2> QED
    BY <2>1, <2>4, <2>5
<1> QED
  BY <1>2, <1>3, <1>4 DEF Chat!IsLine

(* The converter's calls.                                                  *)
LEMMA ChatHandles ==
  ASSUME NEW s, ChatInv(s), NEW l, Chat!IsLine(l)
  PROVE  ChatInv(Chat!HandleLine(s, l))
<1>1. s.sourceFormat \in {"openai", "claude", "openai-response"}
  BY DEF ChatInv, ChatHalf, Common, Formats
<1>2. CASE s.sourceFormat = "openai"
  BY <1>2, OpenaiLines DEF Chat!HandleLine, OpenaiInv
<1>3. CASE s.sourceFormat = "claude"
  BY <1>3, ClaudeLines DEF Chat!HandleLine, ClaudeInv
<1>4. CASE s.sourceFormat = "openai-response"
  BY <1>4, RespondLines DEF Chat!HandleLine, RespondInv
<1> QED
  BY <1>1, <1>2, <1>3, <1>4

(* The end of the upstream stream, and that of the finish grace.           *)
LEMMA ChatEnds ==
  ASSUME NEW s, ChatInv(s)
  PROVE  ChatInv(Chat!FinalizeStream(s)) /\ ChatInv(Chat!FlushWithError(s))
<1>1. ChatInv(Chat!Flush(s))
  <2>1. CASE s.sourceFormat = "claude"
    BY <2>1, ClaudeFlushes DEF ClaudeInv
  <2>2. CASE s.sourceFormat # "claude"
    BY <2>2 DEF Chat!Flush
  <2> QED
    BY <2>1, <2>2
<1>2. ChatInv(Chat!Terminal(Chat!Flush(s))) /\ ChatInv(Chat!Fail(s))
  BY <1>1, ChatProgress, ChatKeeps
<1>3. CASE s.sourceFormat = "openai-response"
  <2>1. ChatInv(Chat!RespondTerminal(s, TRUE)) /\ ChatInv(Chat!RespondTerminal(s, FALSE))
    BY <1>3, RespondTerminates DEF RespondInv
  <2> QED
    BY <1>3, <2>1 DEF Chat!FinalizeStream, Chat!FlushWithError
<1>4. CASE s.sourceFormat # "openai-response"
  BY <1>2, <1>4 DEF Chat!FinalizeStream, Chat!FlushWithError
<1> QED
  BY <1>3, <1>4

(* newStreamConverter of the Chat Completions adapter.                     *)
LEMMA ChatStarts ==
  ASSUME NEW f \in Formats
  PROVE  ChatInv(Chat!Fresh(f)) /\ ~Chat!Fresh(f).done
<1> DEFINE s == Chat!Fresh(f)
<1>1. /\ DOMAIN s = ChatFields
      /\ s.sourceFormat = f /\ s.next = 0 /\ s.progress = 0
      /\ s.started = FALSE /\ s.finished = FALSE /\ s.terminalSeen = FALSE
      /\ s.done = FALSE /\ s.failed = FALSE /\ s.said = <<>>
      /\ s.think = Closed /\ s.text = Closed /\ s.tools = <<>> /\ s.order = <<>>
      /\ s.items = {} /\ s.held = "none" /\ s.terminalSent = FALSE /\ s.usage = 0
  BY DEF Chat!Fresh, Chat!With, Chat!Base, ChatFields, BaseFields, Chat!Closed, Closed
<1> HIDE DEF s
<1>2. /\ Lawful(<<>>, s.sourceFormat) /\ Opened(<<>>) = {} /\ Tooled(<<>>) = {}
      /\ Shut(<<>>) = {}
  BY NothingSaid
<1>3. Lawful(s.said, s.sourceFormat) /\ Opened(s.said) = {} /\ Shut(s.said) = {}
  BY <1>1, <1>2
<1>4. Common(s)
  <2>1. s.sourceFormat \in Formats /\ s.next \in Nat /\ s.progress \in Nat
    BY <1>1
  <2>2. Opened(s.said) \subseteq 0..(s.next - 1)
    BY <1>3
  <2>3. {s.next, s.progress} \subseteq Nat
    BY <2>1
  <2>4. {s.started, s.finished, s.terminalSeen, s.done, s.failed} \subseteq BOOLEAN
    BY <1>1
  <2> QED
    BY <1>3, <2>1, <2>2, <2>3, <2>4 DEF Common
<1>5. DOMAIN s.tools = {} /\ DOMAIN s.order = {} /\ s.order \in Seq(Nat)
  BY <1>1
<1>6. ChatTyped(s)
  <2>1. s.think \in Closed..(s.next - 1) /\ s.text \in Closed..(s.next - 1)
    BY <1>1 DEF Closed
  <2>2. s.items \subseteq 0..(s.next - 1)
    BY <1>1
  <2>3. s.held \in {"none", "stop", "length"} /\ s.usage \in Nat
    BY <1>1
  <2>4. s.terminalSent \in BOOLEAN
    BY <1>1
  <2> QED
    BY <1>1, <2>1, <2>2, <2>3, <2>4 DEF ChatTyped
<1>7. ChatTools(s)
  BY <1>5 DEF ChatTools
<1>8. ChatBlocks(s)
  BY <1>1, <1>3, <1>5 DEF ChatBlocks, OpenFor
<1>9. ClaudeTold(s) /\ RespondTold(s, {})
  BY <1>1, <1>3, <1>5 DEF ClaudeTold, RespondTold
<1>10. ChatInv(s)
  BY <1>4, <1>6, <1>7, <1>8, <1>9 DEF ChatInv, ChatHalf
<1> QED
  BY <1>1, <1>10 DEF s
-----------------------------------------------------------------------------
(* The converters' types.                                                  *)
LEMMA ChatIsTyped ==
  ASSUME NEW s, ChatInv(s)
  PROVE  Chat!TypeInv(s)
<1>1. ChatTyped(s) /\ ChatTools(s)
  BY DEF ChatInv, ChatHalf
<1>2. {s.think, s.text} \subseteq Chat!Closed..(s.next - 1)
  BY <1>1 DEF ChatTyped, Chat!Closed, Closed
<1>3. Chat!Range(s.tools) \subseteq Chat!Tool
  BY <1>1 DEF ChatTools, Chat!Range
<1>4. Chat!Range(s.order) = DOMAIN s.tools
  BY <1>1 DEF ChatTools, Chat!Range
<1>5. Chat!IsInjective(s.order)
  BY <1>1 DEF ChatTools, Chat!IsInjective
<1> QED
  BY <1>1, <1>2, <1>3, <1>4, <1>5 DEF ChatTyped, Chat!TypeInv

(* ... of the Messages converter,                                          *)
LEMMA MessagesIsTyped ==
  ASSUME NEW s, MessagesInv(s)
  PROVE  Messages!TypeInv(s)
<1>1. MessagesTyped(s)
  BY DEF MessagesInv, MessagesHalf
<1>2. Messages!Range(s.blocks) \subseteq Messages!Block
  BY <1>1 DEF MessagesTyped, Messages!Range
<1>3. s.message \in Messages!Closed..(s.next - 1)
  BY <1>1 DEF MessagesTyped, Messages!Closed, Closed
<1> QED
  BY <1>1, <1>2, <1>3 DEF MessagesTyped, Messages!TypeInv

(* ... and of the Responses converter.                                     *)
LEMMA ResponsesIsTyped ==
  ASSUME NEW s, ResponsesInv(s)
  PROVE  Responses!TypeInv(s)
<1>1. ResponsesHalf(s, {}) /\ Common(s)
  BY DEF ResponsesInv, ResponsesHalf
<1> DEFINE blocks == 0..(s.next - 1)
<1>2. Tooled(s.said) \subseteq Opened(s.said) /\ Opened(s.said) \subseteq blocks
  BY <1>1, LawfulFacts DEF Common
<1>3. Responses!Range(s.calls) \subseteq blocks
  BY <1>1, <1>2 DEF ResponsesHalf, Responses!Range
<1>4. s.delivered \subseteq blocks
  BY <1>1, <1>2 DEF ResponsesHalf
<1>5. Responses!Range(s.openBlocks) \subseteq blocks
  <2>1. CASE s.sourceFormat = "claude"
    BY <1>1, <1>2, <2>1 DEF ResponsesHalf, Responses!Range, Range
  <2>2. CASE s.sourceFormat # "claude"
    BY <1>1, <2>2 DEF ResponsesHalf, Responses!Range
  <2> QED
    BY <2>1, <2>2
<1>6. s.text \in blocks \union {Responses!Closed}
  BY <1>1 DEF ResponsesHalf, Responses!Closed, Closed
<1>7. Responses!IsInjective(s.openBlocks)
  BY <1>1 DEF ResponsesHalf, Responses!IsInjective
<1>8. s.text # Responses!Closed /\ ~s.done => s.text \in Responses!Range(s.openBlocks)
  BY <1>1 DEF ResponsesHalf, Responses!Range, Responses!Closed, Closed
<1> HIDE DEF blocks
<1> QED
  BY <1>3, <1>4, <1>5, <1>6, <1>7, <1>8 DEF Responses!TypeInv, blocks

-----------------------------------------------------------------------------
(* The stream.                                                             *)

(* The upstream of a Messages stream has started a block of text.          *)
TextHeard(u) == \E i \in DOMAIN u.blocks : u.blocks[i].type = "text"

UpTyped(u) == DOMAIN u = {"start", "blocks", "finish", "stop"} /\ IsASequence(u.blocks)

ConverterInv(s) ==
  /\ route = "chat"      => ChatInv(s)
  /\ route = "messages"  => MessagesInv(s)
  /\ route = "responses" => ResponsesInv(s)

StreamInv ==
  /\ route \in Routes
  /\ fed \in 0..MaxLines[route]
  /\ outcome \in {"open", "ok", "error"}
  /\ ConverterInv(sc)
  /\ outcome = "open" => ~sc.done
  /\ route = "messages" =>
       /\ UpTyped(up)
       /\ outcome = "open" /\ sc.sourceFormat = "openai-response" /\ TextHeard(up) =>
            sc.message # Closed

(* Whichever converter it is, its fields have their types and its events   *)
(* are lawful.                                                             *)
LEMMA ConverterIsTyped ==
  ASSUME route \in Routes, NEW s, ConverterInv(s)
  PROVE  /\ Common(s)
         /\ CASE route = "chat"      -> Chat!TypeInv(s)
              [] route = "messages"  -> Messages!TypeInv(s)
              [] route = "responses" -> Responses!TypeInv(s)
<1>1. CASE route = "chat"
  BY <1>1, ChatIsTyped DEF ConverterInv, ChatInv, ChatHalf
<1>2. CASE route = "messages"
  BY <1>2, MessagesIsTyped DEF ConverterInv, MessagesInv, MessagesHalf
<1>3. CASE route = "responses"
  BY <1>3, ResponsesIsTyped DEF ConverterInv, ResponsesInv, ResponsesHalf
<1> QED
  BY <1>1, <1>2, <1>3 DEF Routes

(* Feed returns an error: nothing it said is emitted.                      *)
LEMMA ConverterFails ==
  ASSUME route \in Routes, NEW s, ConverterInv(s)
  PROVE  ConverterInv(Fail(s)) /\ Fail(s).failed
<1>1. CASE route = "chat"
  <2>1. ChatInv(s)
    BY <1>1 DEF ConverterInv
  <2>2. ChatInv(Chat!Fail(s)) /\ Chat!Fail(s) = Fail(s)
    BY <2>1, ChatProgress, ChatKeeps DEF Chat!Fail, Fail
  <2>3. Fail(s).failed
    BY <2>1 DEF ChatInv, ChatHalf, ChatTyped, ChatFields, BaseFields, Fail
  <2> QED
    BY <1>1, <2>2, <2>3 DEF ConverterInv
<1>2. CASE route = "messages"
  <2>1. MessagesInv(Messages!Fail(s)) /\ Messages!Fail(s).failed /\ Messages!Fail(s) = Fail(s)
    BY <1>2, MessagesFails DEF ConverterInv, Messages!Fail, Fail
  <2> QED
    BY <1>2, <2>1 DEF ConverterInv
<1>3. CASE route = "responses"
  <2>1. ResponsesInv(Responses!Fail(s)) /\ Responses!Fail(s).failed /\ Responses!Fail(s) = Fail(s)
    BY <1>3, ResponsesFails DEF ConverterInv, Responses!Fail, Fail
  <2> QED
    BY <1>3, <2>1 DEF ConverterInv
<1> QED
  BY <1>1, <1>2, <1>3 DEF Routes

(* A converter that was just made satisfies the invariant.                 *)
LEMMA StreamInit == Init => StreamInv
<1> SUFFICES ASSUME Init PROVE StreamInv
  OBVIOUS
<1>1. fed \in 0..MaxLines[route] /\ route \in Routes
  <2>1. route \in Routes
    BY DEF Init, Routes
  <2>2. MaxLines[route] \in Nat
    BY <2>1, ConvertersAssumption
  <2> QED
    BY <2>1, <2>2 DEF Init
<1>2. ConverterInv(sc) /\ ~sc.done
  BY ChatStarts, MessagesStarts, ResponsesStarts DEF Init, ConverterInv
<1>3. route = "messages" => UpTyped(up) /\ ~TextHeard(up)
  <2> SUFFICES ASSUME up = Messages!Silence PROVE UpTyped(up) /\ ~TextHeard(up)
    BY DEF Init
  <2>1. up.blocks = <<>> /\ DOMAIN up = {"start", "blocks", "finish", "stop"}
    BY DEF Messages!Silence
  <2>2. IsASequence(<<>>)
    BY NothingSaid DEF Lawful
  <2> QED
    BY <2>1, <2>2 DEF UpTyped, TextHeard
<1> QED
  BY <1>1, <1>2, <1>3 DEF Init, StreamInv

(* What is heard of a Messages upstream.                                   *)
LEMMA HeardTyped ==
  ASSUME NEW u, UpTyped(u), NEW l, Messages!IsLine(l)
  PROVE  /\ UpTyped(Messages!Heard(u, l))
         /\ TextHeard(Messages!Heard(u, l)) =>
              TextHeard(u) \/ (l.kind = "block_start" /\ l.type = "text")
<1> DEFINE v == Messages!Heard(u, l)
<1>1. DOMAIN u = {"start", "blocks", "finish", "stop"} /\ IsASequence(u.blocks)
  BY DEF UpTyped
<1>2. CASE l.kind = "block_start"
  <2> DEFINE x == [type |-> l.type, args |-> "none", told |-> FALSE, parts |-> 0]
             q == Append(u.blocks, x)
  <2>1. v = [u EXCEPT !.blocks = q]
    BY <1>2 DEF Messages!Heard
  <2>2. PICK S : u.blocks \in Seq(S)
    BY <1>1 DEF IsASequence
  <2>3. x.type = l.type
    OBVIOUS
  <2> HIDE DEF x
  <2> DEFINE T == S \union {x}
  <2>4. u.blocks \in Seq(T) /\ x \in T
    BY <2>2
  <2> HIDE DEF T
  <2>5. /\ q \in Seq(T) /\ DOMAIN q = DOMAIN u.blocks \union {Len(u.blocks) + 1}
        /\ q[Len(u.blocks) + 1] = x /\ \A i \in DOMAIN u.blocks : q[i] = u.blocks[i]
    BY <2>4
  <2> HIDE DEF q, v
  <2>6. v.blocks = q /\ DOMAIN v = DOMAIN u
    BY <1>1, <2>1
  <2>7. UpTyped(v)
    BY <1>1, <2>5, <2>6 DEF UpTyped, IsASequence
  <2>8. TextHeard(v) => TextHeard(u) \/ (l.kind = "block_start" /\ l.type = "text")
    BY <1>2, <2>3, <2>5, <2>6 DEF TextHeard
  <2> QED
    BY <2>7, <2>8 DEF v
<1>3. CASE l.kind = "block_delta"
  <2> DEFINE k == l.index + 1
             z == u.blocks[k]
             y == [z EXCEPT !.args = Messages!Joined(@, l.args), !.told = TRUE,
                            !.parts = @ + Messages!Parts(l)]
             q == [u.blocks EXCEPT ![k] = y]
  <2>1. v.blocks = q /\ DOMAIN v = DOMAIN u
    BY <1>1, <1>3 DEF Messages!Heard
  <2>2. y.type = z.type
    OBVIOUS
  <2> HIDE DEF y, v
  <2>3. PICK S : u.blocks \in Seq(S)
    BY <1>1 DEF IsASequence
  <2>4. Len(u.blocks) \in Nat /\ u.blocks \in [1..Len(u.blocks) -> S]
    BY <2>3
  <2> DEFINE T == S \union {y}
             N == Len(u.blocks)
  <2>5. q \in [1..N -> T] /\ DOMAIN q = DOMAIN u.blocks
    BY <2>4
  <2>6. q \in Seq(T)
    BY <2>4, <2>5
  <2>7. \A i \in DOMAIN q : q[i] = IF i = k THEN y ELSE u.blocks[i]
    BY <2>5
  <2> HIDE DEF q, T
  <2>8. UpTyped(v)
    BY <1>1, <2>1, <2>6 DEF UpTyped, IsASequence
  <2>9. \A i \in DOMAIN q : q[i].type = u.blocks[i].type
    BY <2>2, <2>7
  <2>10. TextHeard(v) => TextHeard(u)
    BY <2>1, <2>5, <2>9 DEF TextHeard
  <2> QED
    BY <2>8, <2>10 DEF v
<1>4. CASE l.kind \notin {"block_start", "block_delta"}
  <2>1. v.blocks = u.blocks /\ DOMAIN v = DOMAIN u
    BY <1>1, <1>4 DEF Messages!Heard
  <2> QED
    BY <1>1, <2>1 DEF UpTyped, TextHeard
<1> QED
  BY <1>2, <1>3, <1>4
-----------------------------------------------------------------------------
(* No step of the Messages converter changes the client's format.          *)
Formed(t, s) == "sourceFormat" \in DOMAIN t /\ t.sourceFormat = s.sourceFormat

(* dispatch keeps it,                                                      *)
LEMMA MessagesFormatKept ==
  ASSUME NEW s, MessagesInv(s), NEW l, Messages!IsLine(l)
  PROVE  Messages!Dispatch(s, l).sourceFormat = s.sourceFormat
<1>0. Formed(s, s) /\ s.sourceFormat \in Formats
  BY DEF MessagesInv, MessagesHalf, Common, MessagesTyped, MessagesFields, BaseFields, Formed
<1>1. \A r, e : Formed(r, s) => Formed(Messages!Say(r, e), s)
  BY DEF Messages!Say, Formed
<1>2. \A r : Formed(r, s) => Formed(Messages!Fail(r), s)
  BY DEF Messages!Fail, Formed
<1>3. ASSUME NEW r, Formed(r, s), NEW i, NEW b PROVE Formed(Messages!WithBlock(r, i, b), s)
  <2> DEFINE B == [j \in DOMAIN r.blocks \union {i} |-> IF j = i THEN b ELSE r.blocks[j]]
  <2>1. Messages!WithBlock(r, i, b) = [r EXCEPT !.blocks = B]
    BY DEF Messages!WithBlock
  <2> HIDE DEF B
  <2> QED
    BY <1>3, <2>1 DEF Formed
<1>4. ASSUME NEW r, Formed(r, s) PROVE Formed(Messages!EmitRole(r), s)
  <2> DEFINE u == [r EXCEPT !.role = TRUE]
  <2>1. Formed(u, s)
    BY <1>4 DEF Formed
  <2> HIDE DEF u
  <2> QED
    BY <1>1, <1>4, <2>1 DEF Messages!EmitRole, u
<1>5. l.kind \in {"message_start", "message_stop", "error", "ping", "block_start",
                  "block_delta", "finish"}
  BY DEF Messages!IsLine
<1>6. l.kind = "block_delta" => l.type \in {"text", "tool_use", "thinking"}
  BY DEF Messages!IsLine, Messages!BlockKinds
<1>7. l.kind = "block_delta" => Formed(Messages!ChatDelta(s, l), s)
  <2> DEFINE r == [s EXCEPT !.blocks[l.index].emitted = TRUE]
  <2>1. Formed(r, s)
    BY <1>0 DEF Formed
  <2> HIDE DEF r
  <2> QED
    BY <1>0, <1>1, <1>2, <1>4, <1>6, <2>1 DEF Messages!ChatDelta, r
<1>8. Formed(Messages!DispatchOpenAI(s, l), s)
  <2> DEFINE r == [s EXCEPT !.next = IF l.type = "tool_use" THEN @ + 1 ELSE @]
             u == [s EXCEPT !.done = TRUE]
  <2>1. Formed(r, s) /\ Formed(u, s)
    BY <1>0 DEF Formed
  <2> HIDE DEF r, u
  <2> QED
    BY <1>0, <1>1, <1>2, <1>3, <1>4, <1>5, <1>7, <2>1 DEF Messages!DispatchOpenAI, r, u
<1>9. l.kind = "block_delta" => Formed(Messages!ResponsesDelta(s, l), s)
  <2> DEFINE r == [s EXCEPT !.blocks[l.index].args = Messages!Joined(@, l.args)]
  <2>1. Formed(r, s)
    BY <1>0 DEF Formed
  <2> HIDE DEF r
  <2> QED
    BY <1>0, <1>1, <1>2, <1>6, <2>1 DEF Messages!ResponsesDelta, r
<1>10. Formed(Messages!ResponsesBlockStart(s, l), s)
  <2> DEFINE item == IF l.type = "text" /\ s.message # Messages!Closed THEN s.message ELSE s.next
             r == [s EXCEPT !.next = @ + 1, !.message = IF l.type = "text" THEN item ELSE @]
  <2>1. Formed(r, s)
    BY <1>0 DEF Formed
  <2> HIDE DEF r
  <2> QED
    BY <1>0, <1>1, <1>3, <2>1 DEF Messages!ResponsesBlockStart, r
<1>11. \A r : Formed(r, s) => Formed(Messages!ResponsesCompleted(r), s)
  BY <1>1 DEF Messages!ResponsesCompleted
<1>12. Formed(Messages!DispatchResponses(s, l), s)
  <2> DEFINE r == [s EXCEPT !.stop = l.stop]
             u == [s EXCEPT !.done = TRUE]
  <2>1. Formed(r, s) /\ Formed(u, s)
    BY <1>0 DEF Formed
  <2> HIDE DEF r, u
  <2> QED
    BY <1>0, <1>1, <1>2, <1>5, <1>9, <1>10, <1>11, <2>1 DEF Messages!DispatchResponses, r, u
<1>13. Formed(Messages!DispatchClaude(s, l), s)
  <2> DEFINE r == [s EXCEPT !.done = (l.kind = "message_stop")]
  <2>1. Formed(r, s)
    BY <1>0 DEF Formed
  <2> HIDE DEF r
  <2> QED
    BY <1>0, <1>1, <1>2, <2>1 DEF Messages!DispatchClaude, r
<1>14. Formed(Messages!Dispatch(s, l), s)
  BY <1>0, <1>8, <1>12, <1>13 DEF Messages!Dispatch, Formats
<1> QED
  BY <1>14 DEF Formed

(* ... and so does a whole frame.                                          *)
LEMMA MessagesKeepsFormat ==
  ASSUME NEW s, MessagesInv(s), NEW l, Messages!IsLine(l),
         s.sourceFormat = "openai-response" /\ l.kind = "block_delta" /\ l.type = "text" =>
           s.message # Closed
  PROVE  Messages!HandleLine(s, l).sourceFormat = s.sourceFormat
<1> DEFINE d == Messages!Dispatch(s, l)
           e == [d EXCEPT !.emitted = @ \/ d.said # s.said]
<1>1. d.sourceFormat = s.sourceFormat
  BY MessagesFormatKept
<1>2. MessagesInv(d)
  BY MessagesDispatches
<1>3. Messages!HandleLine(s, l) =
        IF d.failed THEN d
        ELSE IF d.done /\ ~Messages!ToolsWellFormed(d) THEN Messages!Fail(d)
        ELSE IF s.typed THEN Messages!ObserveFrame(e, l) ELSE e
  BY DEF Messages!HandleLine
<1> HIDE DEF d
<1>4. e.sourceFormat = d.sourceFormat /\ Messages!Fail(d).sourceFormat = d.sourceFormat
  BY DEF Messages!Fail
<1>5. MessagesInv(e)
  <2>1. MessagesLike(e, d)
    BY <1>2 DEF MessagesInv, MessagesHalf, Common, MessagesTyped, MessagesFields, BaseFields,
                MessagesLike
  <2> HIDE DEF e
  <2> QED
    BY <1>2, <2>1, MessagesKeepsLike
<1> HIDE DEF e
<1>6. Messages!ObserveFrame(e, l).sourceFormat = e.sourceFormat
  BY <1>5, MessagesObserves DEF MessagesLike
<1> QED
  BY <1>1, <1>3, <1>4, <1>6

(* A line that the upstream may send keeps the invariant, whether the      *)
(* converter takes it or fails.                                            *)
LEMMA FeedKeeps == StreamInv /\ Feed => StreamInv'
<1> SUFFICES ASSUME StreamInv, Feed PROVE StreamInv'
  OBVIOUS
<1>1. /\ route \in Routes /\ ConverterInv(sc) /\ ~sc.done /\ outcome = "open"
      /\ route' = route /\ fed' = fed + 1 /\ fed < MaxLines[route]
  BY DEF StreamInv, Feed
<1>2. PICK l \in Lines[route] :
        MayCome(l) /\ up' = HeardOf(l) /\ Returned(HandleLine(sc, l))
  BY DEF Feed
<1> DEFINE t == HandleLine(sc, l)
<1>3. sc' = IF t.failed THEN Fail(sc) ELSE t
  BY <1>2 DEF Returned
<1>4. outcome' = IF sc'.failed THEN "error" ELSE IF sc'.done THEN "ok" ELSE "open"
  BY DEF Feed
<1>5. ConverterInv(Fail(sc)) /\ Fail(sc).failed
  BY <1>1, ConverterFails
<1>6. ConverterInv(t)
  <2>1. CASE route = "chat"
    <3>1. Chat!IsLine(l) /\ ChatInv(sc) /\ t = Chat!HandleLine(sc, l)
      BY <1>1, <1>2, <2>1, ConvertersAssumption DEF ConverterInv, HandleLine
    <3> HIDE DEF t
    <3>2. ChatInv(t)
      BY <3>1, ChatHandles
    <3> QED
      BY <2>1, <3>2 DEF ConverterInv
  <2>2. CASE route = "messages"
    <3>1. Messages!IsLine(l) /\ MessagesInv(sc) /\ t = Messages!HandleLine(sc, l)
      BY <1>1, <1>2, <2>2, ConvertersAssumption DEF ConverterInv, HandleLine
    <3>2. sc.sourceFormat = "openai-response" /\ l.kind = "block_delta" /\ l.type = "text" =>
            sc.message # Closed
      <4> SUFFICES ASSUME sc.sourceFormat = "openai-response",
                          l.kind = "block_delta", l.type = "text"
                   PROVE  sc.message # Closed
        OBVIOUS
      <4>1. /\ l.index < Len(up.blocks) /\ up.blocks[l.index + 1].type = "text"
        BY <1>2, <2>2 DEF MayCome, Messages!MayFollow
      <4>2. l.index \in Nat
        BY <3>1 DEF Messages!IsLine
      <4>3. PICK S : up.blocks \in Seq(S)
        BY <2>2 DEF StreamInv, UpTyped, IsASequence
      <4>4. l.index + 1 \in DOMAIN up.blocks
        BY <4>1, <4>2, <4>3
      <4>5. TextHeard(up)
        BY <4>1, <4>4 DEF TextHeard
      <4> QED
        BY <1>1, <2>2, <4>5 DEF StreamInv
    <3> HIDE DEF t
    <3>3. MessagesInv(t)
      BY <3>1, <3>2, MessagesHandles
    <3> QED
      BY <2>2, <3>3 DEF ConverterInv
  <2>3. CASE route = "responses"
    <3>1. Responses!IsLine(l) /\ ResponsesInv(sc) /\ t = Responses!HandleLine(sc, l)
      BY <1>1, <1>2, <2>3, ConvertersAssumption DEF ConverterInv, HandleLine
    <3> HIDE DEF t
    <3>2. ResponsesInv(t)
      BY <1>1, <3>1, ResponsesHandles
    <3> QED
      BY <2>3, <3>2 DEF ConverterInv
  <2> QED
    BY <1>1, <2>1, <2>2, <2>3 DEF Routes
<1>7. ConverterInv(sc)'
  <2>1. ConverterInv(sc')
    BY <1>3, <1>5, <1>6
  <2> QED
    BY <1>1, <2>1 DEF ConverterInv
<1>8. route = "messages" =>
        /\ UpTyped(up')
        /\ outcome' = "open" /\ sc'.sourceFormat = "openai-response" /\ TextHeard(up') =>
             sc'.message # Closed
  <2> SUFFICES ASSUME route = "messages"
               PROVE  /\ UpTyped(up')
                      /\ outcome' = "open" /\ sc'.sourceFormat = "openai-response"
                         /\ TextHeard(up') => sc'.message # Closed
    OBVIOUS
  <2>1. /\ Messages!IsLine(l) /\ MessagesInv(sc) /\ t = Messages!HandleLine(sc, l)
        /\ up' = Messages!Heard(up, l) /\ UpTyped(up)
    BY <1>1, <1>2, ConvertersAssumption DEF ConverterInv, HandleLine, HeardOf, StreamInv
  <2>2. UpTyped(up')
    BY <2>1, HeardTyped
  <2>3. ASSUME outcome' = "open", sc'.sourceFormat = "openai-response", TextHeard(up')
        PROVE  sc'.message # Closed
    <3>1. sc' = t
      BY <1>3, <1>4, <1>5, <2>3
    <3>2. TextHeard(up) \/ (l.kind = "block_start" /\ l.type = "text")
      BY <2>1, <2>3, HeardTyped
    <3>3. sc.sourceFormat = "openai-response" /\ TextHeard(up) => sc.message # Closed
      BY <1>1 DEF StreamInv
    <3>4. sc.sourceFormat = "openai-response" /\ l.kind = "block_delta" /\ l.type = "text" =>
            sc.message # Closed
      <4> SUFFICES ASSUME sc.sourceFormat = "openai-response",
                          l.kind = "block_delta", l.type = "text"
                   PROVE  sc.message # Closed
        OBVIOUS
      <4> QED
        BY <3>2, <3>3
    <3>5. sc.sourceFormat = "openai-response"
      <4>1. t.sourceFormat = sc.sourceFormat
        BY <2>1, <3>4, MessagesKeepsFormat
      <4> QED
        BY <2>3, <3>1, <4>1
    <3> HIDE DEF t
    <3>6. t.message # Closed
      BY <2>1, <3>2, <3>3, <3>4, <3>5, MessagesHandles
    <3> QED
      BY <3>1, <3>6
  <2> QED
    BY <2>2, <2>3
<1>9. fed' \in 0..MaxLines[route'] /\ outcome' \in {"open", "ok", "error"}
  <2>1. MaxLines[route] \in Nat
    BY <1>1, ConvertersAssumption
  <2>2. fed' \in 0..MaxLines[route]
    BY <1>1, <2>1 DEF StreamInv
  <2> QED
    BY <1>1, <1>4, <2>2
<1>10. outcome' = "open" => ~sc'.done
  BY <1>4
<1> QED
  BY <1>1, <1>7, <1>8, <1>9, <1>10 DEF StreamInv
-----------------------------------------------------------------------------
(* FlushWithError and FinalizeStream.                                      *)
LEMMA ConverterEnds ==
  ASSUME route \in Routes, NEW s, ConverterInv(s)
  PROVE  ConverterInv(FlushWithError(s)) /\ ConverterInv(FinalizeStream(s))
<1>1. CASE route = "chat"
  BY <1>1, ChatEnds DEF ConverterInv, FlushWithError, FinalizeStream
<1>2. CASE route = "messages"
  BY <1>2, MessagesEnds DEF ConverterInv, FlushWithError, FinalizeStream
<1>3. CASE route = "responses"
  BY <1>3, ResponsesEnds DEF ConverterInv, FlushWithError, FinalizeStream
<1> QED
  BY <1>1, <1>2, <1>3 DEF Routes

(* So does whatever ends the stream,                                       *)
LEMMA EndKeeps ==
  ASSUME StreamInv, NEW t, ConverterInv(t), Returned(t), outcome' \in {"ok", "error"},
         UNCHANGED <<route, up, fed>>
  PROVE  StreamInv'
<1>1. ConverterInv(sc')
  BY ConverterFails DEF Returned, StreamInv
<1>2. ConverterInv(sc)'
  BY <1>1 DEF ConverterInv
<1>3. route = "messages" => UpTyped(up')
  BY DEF StreamInv
<1> QED
  BY <1>2, <1>3 DEF StreamInv

(* ... and so every step.                                                  *)
LEMMA StreamSteps == StreamInv /\ [Next]_vars => StreamInv'
<1> SUFFICES ASSUME StreamInv, [Next]_vars PROVE StreamInv'
  OBVIOUS
<1>1. CASE Feed
  BY <1>1, FeedKeeps
<1>2. CASE UpstreamEnds
  <2>1. ConverterInv(FlushWithError(sc))
    BY ConverterEnds DEF StreamInv
  <2> QED
    BY <1>2, <2>1, EndKeeps DEF UpstreamEnds
<1>3. CASE GraceEnds
  <2>1. ConverterInv(FinalizeStream(sc))
    BY ConverterEnds DEF StreamInv
  <2> QED
    BY <1>3, <2>1, EndKeeps DEF GraceEnds
<1>4. CASE UNCHANGED vars
  <2>1. ConverterInv(sc)'
    BY <1>4 DEF StreamInv, ConverterInv, vars
  <2> QED
    BY <1>4, <2>1 DEF StreamInv, vars
<1> QED
  BY <1>1, <1>2, <1>3, <1>4 DEF Next, Ended

(* Spec => []StreamInv: whatever an upstream sends, in however many lines, *)
(* the converter's record of open blocks, tools and items is what its      *)
(* client was told, and what the client was told is lawful.                *)
THEOREM StreamInvariant == Spec => []StreamInv
BY StreamInit, StreamSteps, PTL DEF Spec

(* The invariant has the types in it.                                      *)
LEMMA StreamIsTyped == StreamInv => TypeOK
<1> SUFFICES ASSUME StreamInv PROVE TypeOK
  OBVIOUS
<1>1. ConverterInv(sc) /\ route \in Routes
  BY DEF StreamInv
<1>2. Common(sc)
  BY <1>1, ConverterIsTyped
<1>3. (CASE route = "chat"      -> Chat!TypeInv(sc)
         [] route = "messages"  -> Messages!TypeInv(sc)
         [] route = "responses" -> Responses!TypeInv(sc))
  BY <1>1, ConverterIsTyped
<1>4. /\ sc.sourceFormat \in Formats
      /\ {sc.next, sc.progress} \subseteq Nat
      /\ {sc.started, sc.finished, sc.terminalSeen, sc.done, sc.failed} \subseteq BOOLEAN
  BY <1>2 DEF Common
<1> QED
  BY <1>3, <1>4 DEF StreamInv, TypeOK

(* Spec => []TypeOK: the fields of the three converters have their types   *)
(* after any number of lines; the ids, indexes and orders kept for tools   *)
(* and blocks agree, and a block that is open has been given out.          *)
THEOREM TypeCorrect == Spec => []TypeOK
BY StreamInvariant, StreamIsTyped, PTL
-----------------------------------------------------------------------------
(* A set all of whose elements are equal.                                  *)
LEMMA AtMostOne ==
  ASSUME NEW S, \A i, j \in S : i = j
  PROVE  Cardinality(S) <= 1
<1>1. CASE S = {}
  BY <1>1, FS_EmptySet
<1>2. CASE S # {}
  <2>1. PICK i : i \in S
    BY <1>2
  <2>2. S = {i}
    BY <2>1
  <2>3. Cardinality({i}) = 1
    BY FS_Singleton
  <2> QED
    BY <2>2, <2>3
<1> QED
  BY <1>1, <1>2

(* The invariant has BlocksWellFormed in it.                               *)
LEMMA StreamIsWellFormed == StreamInv => BlocksWellFormed
<1> SUFFICES ASSUME StreamInv PROVE BlocksWellFormed
  OBVIOUS
<1>1. Common(sc)
  BY ConverterIsTyped DEF StreamInv
<1> DEFINE w == sc.said
<1>2. Lawful(w, sc.sourceFormat)
  BY <1>1 DEF Common
<1>3. IsASequence(w)
  BY <1>2 DEF Lawful
<1>4. \A ev, b : At(ev, b) = {k \in DOMAIN w : w[k].ev = ev /\ w[k].block = b}
  BY DEF At, Said
<1>5. \A k \in Said("start") : k \in DOMAIN w /\ w[k].ev = "start"
  BY DEF Said
<1>6. Tooled(w) = ToolBlocks
  BY DEF Tooled, ToolBlocks, Said
<1> SUFFICES ASSUME NEW b \in 0..(sc.next - 1)
             PROVE  /\ Cardinality(At("start", b)) <= 1
                    /\ Cardinality(At("stop", b)) <= 1
                    /\ \A k \in At("delta", b) \union At("stop", b) :
                         \E o \in At("start", b) : o < k
                    /\ sc.sourceFormat = "claude" =>
                         \A o \in At("start", b), e \in Said("start") :
                           e < o => \E k \in At("stop", w[e].block) : k < o
                    /\ (sc.sourceFormat = "claude" /\ b \in ToolBlocks) \/ QuietAfterStop(b)
  BY DEF BlocksWellFormed
<1> HIDE DEF w
<1>7. ASSUME NEW ev \in {"start", "stop"} PROVE Cardinality(At(ev, b)) <= 1
  <2>1. \A i, j \in At(ev, b) : i = j
    BY <1>2, <1>4 DEF Lawful
  <2> QED
    BY <2>1, AtMostOne
<1>8. ASSUME NEW k \in At("delta", b) \union At("stop", b)
      PROVE  \E o \in At("start", b) : o < k
  BY <1>2, <1>4 DEF Lawful
<1>9. ASSUME sc.sourceFormat = "claude", NEW o \in At("start", b), NEW e \in Said("start"), e < o
      PROVE  \E k \in At("stop", w[e].block) : k < o
  BY <1>2, <1>4, <1>5, <1>9 DEF Lawful
<1>10. (sc.sourceFormat = "claude" /\ b \in ToolBlocks) \/ QuietAfterStop(b)
  <2>1. ASSUME NEW k \in At("stop", b), NEW d \in At("delta", b),
               ~(sc.sourceFormat = "claude" /\ b \in ToolBlocks)
        PROVE  d < k
    <3>1. /\ k \in DOMAIN w /\ w[k].ev = "stop" /\ w[k].block = b
          /\ d \in DOMAIN w /\ w[d].ev = "delta" /\ w[d].block = b
      BY <1>4
    <3>2. d < k \/ (sc.sourceFormat = "claude" /\ w[k].block \in Tooled(w))
      BY <1>2, <3>1 DEF Lawful
    <3> QED
      BY <1>6, <2>1, <3>1, <3>2
  <2> QED
    BY <2>1 DEF QuietAfterStop
<1> QED
  BY <1>7, <1>8, <1>9, <1>10

(* Spec => []BlocksWellFormed: for every sequence of lines an upstream may *)
(* send, however text, thinking and the fragments of several calls are     *)
(* interleaved, all three converters open a block once, close it at most   *)
(* once and never feed it before it was opened; stopBlocks and             *)
(* closeOpenBlocks leave no block open when a Messages client is told of   *)
(* the next.  That a block is not fed after its stop either is proved of   *)
(* all blocks but the tool blocks of a Messages client, of which it is     *)
(* false (StrictLifecycle).                                                *)
THEOREM BlocksAreWellFormed == Spec => []BlocksWellFormed
BY StreamInvariant, StreamIsWellFormed, PTL

=============================================================================
