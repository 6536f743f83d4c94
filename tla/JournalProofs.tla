--------------------------- MODULE JournalProofs ----------------------------
(***************************************************************************)
(* Proofs about Journal over the in-memory provider, for every set of       *)
(* events, every bound and any number of incarnations, snapshots and        *)
(* deletions: what a recovery yields.                                       *)
(***************************************************************************)
EXTENDS Journal, SequenceTheorems, WellFoundedInduction, TLAPS

\* Steps that need arithmetic or sequences name the SMT solver.
USE Zenon

Entry == [sequence : Nat, payload : Events]
Snap == [sequence : Nat, payload : Seq(Events)]
Operation == [op : {"none", "message", "batch", "snapshot"}, events : Seq(Events)]

-----------------------------------------------------------------------------
(* The operators of the storage. *)

\* A non-empty set of natural numbers has a least element.
LEMMA Least ==
    ASSUME NEW T \in SUBSET Nat, T # {}
    PROVE  \E x \in T : \A y \in T : x <= y
<1> DEFINE R == {p \in Nat \X Nat : p[1] < p[2]}
<1>1. IsWellFoundedOn(R, Nat)
  BY NatLessThanWellFounded DEF OpToRel
<1>2. PICK x \in T : \A y \in T : <<y, x>> \notin R
  BY <1>1, WFMin
<1>3. ASSUME NEW y \in T
      PROVE  x <= y
  <2>1. ~(y < x)
    BY <1>2
  <2>2. QED
    BY SMT, <2>1
<1>4. QED
  BY <1>3

\* k is the position from which on EntriesFrom(ms, s) answers.
IsFirst(ms, s, k) ==
    /\ k \in 1 .. Len(ms) + 1
    /\ k <= Len(ms) => ms[k].sequence >= s
    /\ \A j \in 1 .. k - 1 : ms[j].sequence < s

\* The search of get_messages_to finds a position, and only one fits.
LEMMA FirstFromIsFirst ==
    ASSUME NEW ms \in Seq(Entry), NEW s \in Nat
    PROVE  /\ IsFirst(ms, s, FirstFrom(ms, s))
           /\ \A k : IsFirst(ms, s, k) => k = FirstFrom(ms, s)
<1> DEFINE T == {i \in 1 .. Len(ms) : ms[i].sequence >= s}
<1>0. \A i \in 1 .. Len(ms) : ms[i].sequence \in Nat
  <2>1. \A i \in 1 .. Len(ms) : ms[i] \in Entry
    BY SMT
  <2>2. QED
    BY <2>1 DEF Entry
<1>1. \E k : IsFirst(ms, s, k)
  <2>1. CASE T = {}
    BY SMT, <2>1, <1>0 DEF IsFirst
  <2>2. CASE T # {}
    <3>1. PICK k \in T : \A y \in T : k <= y
      <4>1. T \in SUBSET Nat
        BY SMT
      <4>2. QED
        BY <2>2, <4>1, Least
    <3>2. QED
      BY SMTT(30), <3>1, <1>0 DEF IsFirst
  <2>3. QED
    BY <2>1, <2>2
<1>2. IsFirst(ms, s, FirstFrom(ms, s))
  BY <1>1 DEF FirstFrom, IsFirst
<1>3. ASSUME NEW k, IsFirst(ms, s, k), NEW l, IsFirst(ms, s, l)
      PROVE  k = l
  BY SMT, <1>3, <1>0 DEF IsFirst
<1>4. QED
  BY <1>2, <1>3

\* What EntriesFrom answers, position by position.
LEMMA EntriesFromProperties ==
    ASSUME NEW ms \in Seq(Entry), NEW s \in Nat, NEW k, IsFirst(ms, s, k)
    PROVE  /\ EntriesFrom(ms, s) \in Seq(Entry)
           /\ Len(EntriesFrom(ms, s)) = Len(ms) - k + 1
           /\ \A i \in 1 .. Len(ms) - k + 1 : EntriesFrom(ms, s)[i] = ms[k + i - 1]
<1>1. EntriesFrom(ms, s) = SubSeq(ms, k, Len(ms))
  BY FirstFromIsFirst DEF EntriesFrom
<1>2. k \in 1 .. Len(ms) + 1 /\ Len(ms) \in Nat
  BY SMT DEF IsFirst
<1>3. QED
  BY SMT, <1>1, <1>2, SubSeqProperties

\* Entries that are all new enough are answered after those there were.
LEMMA EntriesFromConcat ==
    ASSUME NEW ms \in Seq(Entry), NEW es \in Seq(Entry), NEW s \in Nat,
           \A i \in 1 .. Len(es) : es[i].sequence >= s
    PROVE  EntriesFrom(ms \o es, s) = EntriesFrom(ms, s) \o es
<1>1. PICK k : IsFirst(ms, s, k)
  BY FirstFromIsFirst
<1>2. PICK all : all = ms \o es
  OBVIOUS
<1>3. /\ all \in Seq(Entry)
      /\ Len(all) = Len(ms) + Len(es)
      /\ \A i \in 1 .. Len(ms) : all[i] = ms[i]
      /\ \A i \in 1 .. Len(es) : all[Len(ms) + i] = es[i]
      /\ Len(es) > 0 => all[Len(ms) + 1] = es[1]
  BY SMT, <1>2
<1>4. k \in Nat /\ k >= 1 /\ k <= Len(ms) + 1 /\ Len(ms) \in Nat /\ Len(es) \in Nat
  BY SMT, <1>1 DEF IsFirst
<1>5. IsFirst(all, s, k)
  <2>1. ASSUME k <= Len(all)
        PROVE  all[k].sequence >= s
    <3>1. CASE k <= Len(ms)
      BY SMT, <1>1, <1>3, <1>4, <3>1 DEF IsFirst
    <3>2. CASE k = Len(ms) + 1
      BY SMT, <1>3, <1>4, <2>1, <3>2
    <3>3. QED
      BY SMT, <1>4, <3>1, <3>2
  <2>2. ASSUME NEW j \in 1 .. k - 1
        PROVE  all[j].sequence < s
    BY SMTT(30), <1>1, <1>3, <1>4, <2>2 DEF IsFirst
  <2>3. QED
    BY SMT, <1>3, <1>4, <2>1, <2>2 DEF IsFirst
<1>6. PICK l : l = EntriesFrom(all, s)
  OBVIOUS
<1>7. PICK r : r = EntriesFrom(ms, s)
  OBVIOUS
<1>8. /\ l \in Seq(Entry) /\ Len(l) = Len(all) - k + 1
      /\ \A i \in 1 .. Len(all) - k + 1 : l[i] = all[k + i - 1]
  <2>1. all \in Seq(Entry)
    BY <1>3
  <2>2. QED
    BY SMT, <1>5, <1>6, <2>1, EntriesFromProperties
<1>9. /\ r \in Seq(Entry) /\ Len(r) = Len(ms) - k + 1
      /\ \A i \in 1 .. Len(ms) - k + 1 : r[i] = ms[k + i - 1]
  BY SMT, <1>1, <1>7, EntriesFromProperties
<1>10. /\ r \o es \in Seq(Entry)
       /\ Len(r \o es) = Len(l)
       /\ \A i \in 1 .. Len(r) : (r \o es)[i] = r[i]
       /\ \A i \in 1 .. Len(es) : (r \o es)[Len(r) + i] = es[i]
  <2>1. r \in Seq(Entry)
    BY <1>9
  <2>2. /\ r \o es \in Seq(Entry)
        /\ Len(r \o es) = Len(r) + Len(es)
        /\ \A i \in 1 .. Len(r) : (r \o es)[i] = r[i]
        /\ \A i \in 1 .. Len(es) : (r \o es)[Len(r) + i] = es[i]
    BY SMT, <2>1
  <2>3. Len(r) + Len(es) = Len(l)
    BY SMT, <1>3, <1>4, <1>8, <1>9
  <2>4. QED
    BY <2>2, <2>3
<1>11. ASSUME NEW i \in 1 .. Len(l)
       PROVE  l[i] = (r \o es)[i]
  <2>1. CASE i <= Len(r)
    <3>1. i \in 1 .. Len(r) /\ k + i - 1 \in 1 .. Len(ms)
      BY SMT, <1>4, <1>9, <2>1
    <3>2. l[i] = ms[k + i - 1]
      BY <1>3, <1>4, <1>8, <3>1
    <3>3. QED
      BY <1>4, <1>9, <1>10, <3>1, <3>2
  <2>2. CASE i > Len(r)
    <3>1. PICK j \in 1 .. Len(es) : i = Len(r) + j
      <4>1. i - Len(r) \in 1 .. Len(es) /\ i = Len(r) + (i - Len(r))
        BY SMT, <1>3, <1>4, <1>8, <1>9, <2>2
      <4>2. QED
        BY <4>1
    <3>2. k + i - 1 = Len(ms) + j
      BY SMT, <1>4, <1>9, <3>1
    <3>3. l[i] = es[j]
      BY <1>3, <1>8, <3>2
    <3>4. QED
      BY <1>10, <3>1, <3>3
  <2>3. Len(r) \in Nat /\ Len(l) \in Nat
    BY SMT, <1>8, <1>9
  <2>4. i <= Len(r) \/ i > Len(r)
    BY SMT, <2>3
  <2>5. QED
    BY <2>1, <2>2, <2>4
<1>12. QED
  BY <1>2, <1>6, <1>7, <1>8, <1>10, <1>11, SeqEqual

\* Entries that are all too old are not answered.
LEMMA EntriesFromNone ==
    ASSUME NEW ms \in Seq(Entry), NEW s \in Nat, \A i \in 1 .. Len(ms) : ms[i].sequence < s
    PROVE  EntriesFrom(ms, s) = <<>>
<1>1. IsFirst(ms, s, Len(ms) + 1)
  BY SMT DEF IsFirst
<1>2. EntriesFrom(ms, s) \in Seq(Entry) /\ Len(EntriesFrom(ms, s)) = 0
  <2>1. Len(ms) \in Nat
    BY SMT
  <2>2. QED
    BY SMT, <1>1, <2>1, EntriesFromProperties
<1>3. QED
  BY <1>2, EmptySeq

\* Nothing that a read starts after is lost with what came before it.
LEMMA EntriesFromTwice ==
    ASSUME NEW ms \in Seq(Entry), NEW s \in Nat
    PROVE  EntriesFrom(EntriesFrom(ms, s), s + 1) = EntriesFrom(ms, s + 1)
<1>1. PICK k : IsFirst(ms, s, k)
  BY FirstFromIsFirst
<1>2. PICK l : IsFirst(ms, s + 1, l)
  BY SMT, FirstFromIsFirst
<1>3. PICK es : es = EntriesFrom(ms, s)
  OBVIOUS
<1>4. es \in Seq(Entry)
  BY <1>1, <1>3, EntriesFromProperties
<1>5. /\ Len(es) = Len(ms) - k + 1
      /\ \A i \in 1 .. Len(ms) - k + 1 : es[i] = ms[k + i - 1]
  BY SMT, <1>1, <1>3, EntriesFromProperties
<1>6. \A i \in 1 .. Len(ms) : ms[i].sequence \in Nat
  <2>1. \A i \in 1 .. Len(ms) : ms[i] \in Entry
    BY SMT
  <2>2. QED
    BY <2>1 DEF Entry
<1>7. k \in 1 .. Len(ms) + 1 /\ l \in 1 .. Len(ms) + 1 /\ k <= l /\ Len(ms) \in Nat
  BY SMT, <1>1, <1>2, <1>6 DEF IsFirst
<1> DEFINE m == l - k + 1
<1>8. IsFirst(es, s + 1, m)
  <2>1. m \in 1 .. Len(es) + 1
    BY SMT, <1>5, <1>7
  <2>2. ASSUME m <= Len(es)
        PROVE  es[m].sequence >= s + 1
    <3>1. m \in 1 .. Len(ms) - k + 1 /\ k + m - 1 = l /\ l <= Len(ms)
      BY SMT, <1>5, <1>7, <2>2
    <3>2. es[m] = ms[l]
      BY <1>5, <3>1
    <3>3. QED
      BY <1>2, <3>1, <3>2 DEF IsFirst
  <2>3. ASSUME NEW j \in 1 .. m - 1
        PROVE  es[j].sequence < s + 1
    <3>1. j \in 1 .. Len(ms) - k + 1 /\ k + j - 1 \in 1 .. l - 1
      BY SMT, <1>7, <2>3
    <3>2. es[j] = ms[k + j - 1]
      BY <1>5, <3>1
    <3>3. QED
      BY <1>2, <3>1, <3>2 DEF IsFirst
  <2>4. QED
    BY <2>1, <2>2, <2>3 DEF IsFirst
<1>9. PICK a : a = EntriesFrom(es, s + 1)
  OBVIOUS
<1>10. PICK b : b = EntriesFrom(ms, s + 1)
  OBVIOUS
<1>11. /\ a \in Seq(Entry) /\ Len(a) = Len(es) - m + 1
       /\ \A i \in 1 .. Len(es) - m + 1 : a[i] = es[m + i - 1]
  <2> HIDE DEF m
  <2>1. s + 1 \in Nat
    BY SMT
  <2>2. QED
    BY SMT, <1>4, <1>8, <1>9, <2>1, EntriesFromProperties
<1>12. /\ b \in Seq(Entry) /\ Len(b) = Len(ms) - l + 1
       /\ \A i \in 1 .. Len(ms) - l + 1 : b[i] = ms[l + i - 1]
  <2>1. s + 1 \in Nat
    BY SMT
  <2>2. QED
    BY SMT, <1>2, <1>10, <2>1, EntriesFromProperties
<1>13. Len(es) - m + 1 = Len(ms) - l + 1
  BY SMT, <1>5, <1>7
<1>14. ASSUME NEW i \in 1 .. Len(ms) - l + 1
       PROVE  a[i] = b[i]
  <2>1. m + i - 1 \in 1 .. Len(ms) - k + 1 /\ k + (m + i - 1) - 1 = l + i - 1
    BY SMT, <1>7
  <2>2. a[i] = es[m + i - 1]
    BY <1>11, <1>13
  <2>3. es[m + i - 1] = ms[l + i - 1]
    BY <1>5, <2>1
  <2>4. QED
    BY <1>12, <2>2, <2>3
<1>15. a = b
  <2>1. Len(a) = Len(b) /\ \A i \in 1 .. Len(a) : a[i] = b[i]
    BY <1>11, <1>12, <1>13, <1>14
  <2>2. QED
    BY <1>11, <1>12, <2>1, SeqEqual
<1>16. QED
  BY <1>3, <1>9, <1>10, <1>15

\* The payloads of entries that follow each other follow each other.
LEMMA PayloadsProperties ==
    ASSUME NEW es \in Seq(Entry)
    PROVE  /\ Payloads(es) \in Seq(Events)
           /\ Len(Payloads(es)) = Len(es)
           /\ \A i \in 1 .. Len(es) : Payloads(es)[i] = es[i].payload
<1>1. \A i \in 1 .. Len(es) : es[i] \in Entry
  BY SMT
<1>2. \A i \in 1 .. Len(es) : es[i].payload \in Events
  BY <1>1 DEF Entry
<1>3. Payloads(es) = [i \in 1 .. Len(es) |-> es[i].payload] /\ Len(es) \in Nat
  BY SMT DEF Payloads
<1>4. QED
  BY SMT, <1>2, <1>3, IsASeq

\* The payloads of appended entries are appended.
LEMMA PayloadsConcat ==
    ASSUME NEW es \in Seq(Entry), NEW fs \in Seq(Entry)
    PROVE  Payloads(es \o fs) = Payloads(es) \o Payloads(fs)
<1>1. PICK all : all = es \o fs
  OBVIOUS
<1>2. /\ all \in Seq(Entry) /\ Len(all) = Len(es) + Len(fs)
      /\ \A i \in 1 .. Len(es) : all[i] = es[i]
      /\ \A i \in 1 .. Len(fs) : all[Len(es) + i] = fs[i]
  BY SMT, <1>1
<1>3. PICK p : p = Payloads(all)
  OBVIOUS
<1>4. /\ p \in Seq(Events) /\ Len(p) = Len(all)
      /\ \A i \in 1 .. Len(all) : p[i] = all[i].payload
  <2>1. all \in Seq(Entry)
    BY <1>2
  <2>2. QED
    BY <1>3, <2>1, PayloadsProperties
<1>5. PICK q : q = Payloads(es)
  OBVIOUS
<1>6. PICK r : r = Payloads(fs)
  OBVIOUS
<1>7. /\ q \in Seq(Events) /\ Len(q) = Len(es)
      /\ \A i \in 1 .. Len(es) : q[i] = es[i].payload
  BY <1>5, PayloadsProperties
<1>8. /\ r \in Seq(Events) /\ Len(r) = Len(fs)
      /\ \A i \in 1 .. Len(fs) : r[i] = fs[i].payload
  BY <1>6, PayloadsProperties
<1>9. /\ q \o r \in Seq(Events) /\ Len(q \o r) = Len(q) + Len(r)
      /\ \A i \in 1 .. Len(q) : (q \o r)[i] = q[i]
      /\ \A i \in 1 .. Len(r) : (q \o r)[Len(q) + i] = r[i]
  <2>1. q \in Seq(Events) /\ r \in Seq(Events)
    BY <1>7, <1>8
  <2>2. QED
    BY SMT, <2>1
<1>10. ASSUME NEW i \in 1 .. Len(p)
       PROVE  p[i] = (q \o r)[i]
  <2>1. Len(es) \in Nat /\ Len(fs) \in Nat /\ Len(p) = Len(es) + Len(fs)
    BY SMT, <1>2, <1>4
  <2>2. CASE i <= Len(es)
    <3>1. i \in 1 .. Len(es) /\ i \in 1 .. Len(all)
      BY SMT, <1>4, <2>1, <2>2
    <3>2. QED
      BY ZenonT(30), <1>2, <1>4, <1>7, <1>9, <3>1
  <2>3. CASE i > Len(es)
    <3>1. PICK j \in 1 .. Len(fs) : i = Len(es) + j
      <4>1. i - Len(es) \in 1 .. Len(fs) /\ i = Len(es) + (i - Len(es))
        BY SMT, <2>1, <2>3
      <4>2. QED
        BY <4>1
    <3>2. p[i] = fs[j].payload
      BY <1>2, <1>4, <3>1
    <3>3. QED
      BY <1>7, <1>8, <1>9, <3>1, <3>2
  <2>4. i <= Len(es) \/ i > Len(es)
    BY SMT, <2>1
  <2>5. QED
    BY <2>2, <2>3, <2>4
<1>11. Len(p) = Len(q \o r)
  BY <1>2, <1>4, <1>7, <1>8, <1>9
<1>12. p = q \o r
  BY <1>4, <1>9, <1>10, <1>11, SeqEqual
<1>13. QED
  BY <1>1, <1>3, <1>5, <1>6, <1>12

-----------------------------------------------------------------------------
(* Subsequences. *)

\* A history that goes on still has what it had.
LEMMA SubsequenceOfLonger ==
    ASSUME NEW s \in Seq(Events), NEW t \in Seq(Events), NEW u \in Seq(Events),
           IsSubsequence(s, t)
    PROVE  IsSubsequence(s, t \o u)
<1>1. PICK f \in [DOMAIN s -> DOMAIN t] :
        /\ \A i, j \in DOMAIN s : i < j => f[i] < f[j]
        /\ \A i \in DOMAIN s : s[i] = t[f[i]]
  BY DEF IsSubsequence
<1>2. \A k \in DOMAIN t : k \in DOMAIN (t \o u) /\ (t \o u)[k] = t[k]
  BY SMT
<1>3. f \in [DOMAIN s -> DOMAIN (t \o u)] /\ \A i \in DOMAIN s : s[i] = (t \o u)[f[i]]
  BY <1>1, <1>2
<1>4. QED
  BY <1>1, <1>3 DEF IsSubsequence

\* What is added to both is kept.
LEMMA SubsequenceExtends ==
    ASSUME NEW s \in Seq(Events), NEW t \in Seq(Events), NEW u \in Seq(Events),
           IsSubsequence(s, t)
    PROVE  IsSubsequence(s \o u, t \o u)
<1>1. PICK f \in [DOMAIN s -> DOMAIN t] :
        /\ \A i, j \in DOMAIN s : i < j => f[i] < f[j]
        /\ \A i \in DOMAIN s : s[i] = t[f[i]]
  BY DEF IsSubsequence
<1>2. PICK m \in Nat, n \in Nat, k \in Nat :
        m = Len(s) /\ n = Len(t) /\ k = Len(u)
        /\ DOMAIN s = 1 .. m /\ DOMAIN t = 1 .. n /\ DOMAIN u = 1 .. k
  BY SMT
<1> DEFINE g == [i \in 1 .. m + k |-> IF i <= m THEN f[i] ELSE n + (i - m)]
<1>3. PICK a : a = s \o u
  OBVIOUS
<1>4. PICK b : b = t \o u
  OBVIOUS
<1>5. /\ DOMAIN a = 1 .. m + k
      /\ \A i \in 1 .. m : a[i] = s[i]
      /\ \A i \in 1 .. k : a[m + i] = u[i]
  BY SMT, <1>2, <1>3
<1>6. /\ DOMAIN b = 1 .. n + k
      /\ \A i \in 1 .. n : b[i] = t[i]
      /\ \A i \in 1 .. k : b[n + i] = u[i]
  BY SMT, <1>2, <1>4
<1>7. /\ \A i \in 1 .. m : f[i] \in 1 .. n /\ s[i] = t[f[i]]
      /\ \A i, j \in 1 .. m : i < j => f[i] < f[j]
  BY <1>1, <1>2
<1>8. g \in [1 .. m + k -> 1 .. n + k]
  BY SMT, <1>7
<1>9. \A i, j \in 1 .. m + k : i < j => g[i] < g[j]
  <2> SUFFICES ASSUME NEW i \in 1 .. m + k, NEW j \in 1 .. m + k, i < j
               PROVE  g[i] < g[j]
    OBVIOUS
  <2>1. CASE j <= m
    <3>1. i \in 1 .. m /\ j \in 1 .. m /\ g[i] = f[i] /\ g[j] = f[j]
      BY SMT, <2>1
    <3>2. QED
      BY <1>7, <3>1
  <2>2. CASE i <= m /\ j > m
    <3>1. i \in 1 .. m /\ g[i] = f[i] /\ g[j] = n + (j - m)
      BY SMT, <2>2
    <3>2. QED
      BY SMT, <1>7, <2>2, <3>1
  <2>3. CASE i > m
    BY SMT, <2>3
  <2>4. QED
    BY SMT, <2>1, <2>2, <2>3
<1>10. ASSUME NEW i \in 1 .. m + k
       PROVE  a[i] = b[g[i]]
  <2>1. CASE i <= m
    <3>1. i \in 1 .. m /\ g[i] = f[i]
      BY SMT, <2>1
    <3>2. QED
      BY SMT, <1>5, <1>6, <1>7, <3>1
  <2>2. CASE i > m
    <3>1. PICK j \in 1 .. k : i = m + j
      <4>1. i - m \in 1 .. k /\ i = m + (i - m)
        BY SMT, <2>2
      <4>2. QED
        BY <4>1
    <3>2. g[i] = n + j
      BY SMT, <3>1
    <3>3. QED
      BY SMTT(30), <1>5, <1>6, <3>1, <3>2
  <2>3. QED
    BY SMT, <2>1, <2>2
<1>11. \E h \in [DOMAIN a -> DOMAIN b] :
         /\ \A i, j \in DOMAIN a : i < j => h[i] < h[j]
         /\ \A i \in DOMAIN a : a[i] = b[h[i]]
  <2> HIDE DEF g
  <2>1. QED
    BY ZenonT(30), <1>5, <1>6, <1>8, <1>9, <1>10
<1>12. QED
  BY <1>3, <1>4, <1>11 DEF IsSubsequence

-----------------------------------------------------------------------------
(* The inductive invariant. *)

Latest == IF snapshots = <<>> THEN NoSnapshot ELSE snapshots[Len(snapshots)]

\* What the in-memory provider answers a recovery with, and what it yields.
Replay(ms, s) == IF s = 0 THEN ms ELSE EntriesFrom(ms, s + 1)
Recovered == Latest.payload \o Payloads(Replay(messages, Latest.sequence))

Types ==
    /\ messages \in Seq(Entry) /\ snapshots \in Seq(Snap)
    /\ last_sequence_id \in Nat
    /\ state \in Seq(Events) /\ acked \in Seq(Events)
    /\ pending \in Operation

Sorted(ms) == \A i, j \in 1 .. Len(ms) : i <= j => ms[i].sequence <= ms[j].sequence

\* Only a running actor persists, and it persists what it is when it snapshots.
PendingIsRunning ==
    pending # NoOp =>
        /\ status = "running"
        /\ pending.op # "none"
        /\ pending.op = "message" => Len(pending.events) = 1
        /\ pending.op = "snapshot" => pending.events = state

\* The storage on its own: entries in the order of their sequences, a snapshot's
\* sequence is never 0, and what it yields is part of the acknowledged history.
StorageInv ==
    /\ Sorted(messages)
    /\ snapshots # <<>> => Latest.sequence >= 1
    /\ IsSubsequence(Recovered, acked)
    /\ snapshots = <<>> => Recovered = acked

\* Half-way through a recovery the actor is the latest snapshot.
LoadedIsLatest ==
    status = "loaded_snapshot" =>
        /\ state = Latest.payload
        /\ last_sequence_id = Latest.sequence
        /\ last_snapshot_sequence_id = Latest.sequence

\* A running actor's counter is at or above all sequences, and its state is at
\* most one event ahead of the storage: none when the counter is still at the
\* snapshot, where the next message is the one that a recovery skips.
RunningInv ==
    status = "running" =>
        /\ last_snapshot_sequence_id = Latest.sequence
        /\ Latest.sequence <= last_sequence_id
        /\ \A i \in 1 .. Len(messages) : messages[i].sequence <= last_sequence_id
        /\ IsSubsequence(state, acked)
        /\ Len(state) <= Len(Recovered) + 1
        /\ snapshots = <<>> \/ last_sequence_id = Latest.sequence =>
              Len(state) <= Len(Recovered)

MInv == Types /\ PendingIsRunning /\ StorageInv /\ LoadedIsLatest /\ RunningInv

IInv == provider \in Providers /\ (provider = "memory" => MInv)

\* read_latest_snapshot answers a snapshot (sequence 0 when there is none).
LEMMA LatestType ==
    ASSUME Types
    PROVE  Latest \in Snap
<1>1. CASE snapshots = <<>>
  BY SMT, <1>1 DEF Latest, NoSnapshot, Snap
<1>2. CASE snapshots # <<>>
  <2>1. snapshots \in Seq(Snap) /\ Len(snapshots) \in 1 .. Len(snapshots)
    BY SMT, <1>2 DEF Types
  <2>2. QED
    BY SMT, <1>2, <2>1 DEF Latest
<1>3. QED
  BY <1>1, <1>2

\* read_latest_messages answers entries.
LEMMA ReplayType ==
    ASSUME NEW ms \in Seq(Entry), NEW s \in Nat
    PROVE  Replay(ms, s) \in Seq(Entry)
<1>1. s + 1 \in Nat
  BY SMT
<1>2. EntriesFrom(ms, s + 1) \in Seq(Entry)
  BY <1>1, FirstFromIsFirst, EntriesFromProperties
<1>3. QED
  BY <1>2 DEF Replay

\* A recovery yields events.
LEMMA RecoveredType ==
    ASSUME Types
    PROVE  /\ Latest.sequence \in Nat /\ Latest.payload \in Seq(Events)
           /\ Replay(messages, Latest.sequence) \in Seq(Entry)
           /\ Payloads(Replay(messages, Latest.sequence)) \in Seq(Events)
           /\ Recovered \in Seq(Events)
<1>1. Latest.sequence \in Nat /\ Latest.payload \in Seq(Events)
  BY LatestType DEF Snap
<1>2. Replay(messages, Latest.sequence) \in Seq(Entry)
  BY <1>1, ReplayType DEF Types
<1>3. Payloads(Replay(messages, Latest.sequence)) \in Seq(Events)
  BY <1>2, PayloadsProperties
<1>4. QED
  BY SMT, <1>1, <1>2, <1>3 DEF Recovered

\* For the in-memory provider a recovery has one result.
LEMMA RecoverableIsOne ==
    ASSUME provider = "memory"
    PROVE  Recoverable = {Recovered}
<1>1. read_latest_snapshot(snapshots) = {Latest}
  BY DEF read_latest_snapshot, Latest
<1>2. \A s : read_latest_messages(messages, s) = Replay(messages, s)
  BY DEF read_latest_messages, Replay
<1>3. QED
  BY <1>1, <1>2 DEF Recoverable, Recovered

\* What a recovery yields depends on the storage alone.
LEMMA StorageUnchanged ==
    ASSUME UNCHANGED <<messages, snapshots>>
    PROVE  Latest' = Latest /\ Recovered' = Recovered
BY DEF Latest, Recovered

\* The entries of an operation: their sequences count up from the first.
LEMMA EntriesOfProperties ==
    ASSUME Types, NEW es, es = EntriesOf(pending.events)
    PROVE  /\ es \in Seq(Entry)
           /\ Len(es) = Len(pending.events)
           /\ \A i \in 1 .. Len(es) : es[i].sequence = FirstSequence + i - 1
           /\ Payloads(es) = pending.events
<1>1. PICK n \in Nat : n = Len(pending.events) /\ DOMAIN pending.events = 1 .. n
  BY SMT DEF Types, Operation
<1>2. FirstSequence \in Nat
  BY SMT DEF Types, FirstSequence
<1>3. es = [i \in 1 .. n |-> [sequence |-> FirstSequence + i - 1, payload |-> pending.events[i]]]
  BY <1>1 DEF EntriesOf
<1>4. \A i \in 1 .. n : pending.events[i] \in Events
  BY SMT, <1>1 DEF Types, Operation
<1>5. \A i \in 1 .. n : es[i] = [sequence |-> FirstSequence + i - 1, payload |-> pending.events[i]]
  BY <1>3
<1>6. ASSUME NEW i \in 1 .. n
      PROVE  /\ es[i] \in Entry
             /\ es[i].sequence = FirstSequence + i - 1 /\ es[i].payload = pending.events[i]
  <2>1. FirstSequence + i - 1 \in Nat
    BY SMT, <1>2
  <2>2. pending.events[i] \in Events
    BY <1>4
  <2>3. es[i] = [sequence |-> FirstSequence + i - 1, payload |-> pending.events[i]]
    BY <1>5
  <2>4. QED
    BY SMT, <2>1, <2>2, <2>3 DEF Entry
<1>7. es \in Seq(Entry) /\ Len(es) = n
  BY SMT, <1>3, <1>6, IsASeq
<1>8. /\ Payloads(es) \in Seq(Events) /\ Len(Payloads(es)) = n
      /\ \A i \in 1 .. n : Payloads(es)[i] = pending.events[i]
  <2>1. /\ Payloads(es) \in Seq(Events) /\ Len(Payloads(es)) = n
        /\ \A i \in 1 .. n : Payloads(es)[i] = es[i].payload
    BY <1>7, PayloadsProperties
  <2>2. QED
    BY <1>6, <2>1
<1>9. pending.events \in Seq(Events)
  BY DEF Types, Operation
<1>10. Payloads(es) = pending.events
  BY <1>1, <1>8, <1>9, SeqEqual
<1>11. QED
  BY <1>1, <1>6, <1>7, <1>10

\* Writing entries that are not older than those there are.
LEMMA SortedConcat ==
    ASSUME NEW ms \in Seq(Entry), NEW es \in Seq(Entry), NEW first \in Nat, NEW last \in Nat,
           Sorted(ms), first <= last,
           \A i \in 1 .. Len(ms) : ms[i].sequence <= first,
           \A i \in 1 .. Len(es) : es[i].sequence \in first .. last,
           \A i, j \in 1 .. Len(es) : i <= j => es[i].sequence <= es[j].sequence
    PROVE  /\ Sorted(ms \o es)
           /\ \A i \in 1 .. Len(ms \o es) : (ms \o es)[i].sequence <= last
<1>1. PICK all : all = ms \o es
  OBVIOUS
<1>2. PICK m \in Nat, n \in Nat : m = Len(ms) /\ n = Len(es)
  BY SMT
<1>3. /\ Len(all) = m + n
      /\ \A i \in 1 .. m : all[i] = ms[i]
      /\ \A i \in 1 .. n : all[m + i] = es[i]
  BY SMT, <1>1, <1>2
<1>4. \A i \in 1 .. m : ms[i].sequence \in Nat
  <2>1. \A i \in 1 .. m : ms[i] \in Entry
    BY SMT, <1>2
  <2>2. QED
    BY <2>1 DEF Entry
<1>5. ASSUME NEW i \in 1 .. m + n
      PROVE  \/ i \in 1 .. m /\ all[i] = ms[i]
             \/ \E k \in 1 .. n : i = m + k /\ all[i] = es[k]
  <2>1. i \in 1 .. m \/ (i - m \in 1 .. n /\ i = m + (i - m))
    BY SMT
  <2>2. QED
    BY <1>3, <2>1
<1>6. \A i \in 1 .. m + n : all[i].sequence <= last
  <2> SUFFICES ASSUME NEW i \in 1 .. m + n
               PROVE  all[i].sequence <= last
    OBVIOUS
  <2>1. CASE i \in 1 .. m /\ all[i] = ms[i]
    BY SMT, <1>2, <1>4, <2>1
  <2>2. ASSUME NEW k \in 1 .. n, all[i] = es[k]
        PROVE  all[i].sequence <= last
    BY SMT, <1>2, <2>2
  <2>3. QED
    BY <1>5, <2>1, <2>2
<1>7. ASSUME NEW i \in 1 .. m + n, NEW j \in 1 .. m + n, i <= j
      PROVE  all[i].sequence <= all[j].sequence
  <2>1. CASE j \in 1 .. m
    <3>1. i \in 1 .. m /\ all[i] = ms[i] /\ all[j] = ms[j]
      BY SMT, <1>3, <1>7, <2>1
    <3>2. QED
      BY <1>2, <1>7, <2>1, <3>1 DEF Sorted
  <2>2. ASSUME NEW l \in 1 .. n, j = m + l, all[j] = es[l]
        PROVE  all[i].sequence <= all[j].sequence
    <3>1. CASE i \in 1 .. m
      BY SMT, <1>2, <1>3, <1>4, <2>2, <3>1
    <3>2. ASSUME NEW k \in 1 .. n, i = m + k, all[i] = es[k]
          PROVE  all[i].sequence <= all[j].sequence
      <4>1. k <= l
        BY SMT, <1>7, <2>2, <3>2
      <4>2. QED
        BY <1>2, <2>2, <3>2, <4>1
    <3>3. QED
      BY <1>5, <3>1, <3>2
  <2>3. QED
    BY <1>5, <2>1, <2>2
<1>8. QED
  BY <1>1, <1>3, <1>6, <1>7 DEF Sorted

\* Appending events is associative.
LEMMA EventsConcat ==
    ASSUME NEW a \in Seq(Events), NEW b \in Seq(Events), NEW c \in Seq(Events)
    PROVE  (a \o b) \o c = a \o (b \o c)
BY SMT, ConcatAssociative

\* What the next recovery yields after entries were written: all of them, unless
\* the first takes the sequence of the latest snapshot.
LEMMA WrittenIsReplayed ==
    ASSUME Types, NEW es \in Seq(Entry), messages' = messages \o es, UNCHANGED snapshots,
           Latest.sequence = 0 \/ \A i \in 1 .. Len(es) : es[i].sequence >= Latest.sequence + 1
    PROVE  Recovered' = Recovered \o Payloads(es)
<1>1. PICK s : s = Latest.sequence
  OBVIOUS
<1>2. s \in Nat /\ Latest.payload \in Seq(Events) /\ Replay(messages, s) \in Seq(Entry)
  BY <1>1, RecoveredType
<1>3. Replay(messages \o es, s) = Replay(messages, s) \o es
  <2>1. CASE s = 0
    BY <2>1 DEF Replay
  <2>2. CASE s # 0
    <3>1. s + 1 \in Nat /\ messages \in Seq(Entry)
      BY SMT, <1>2 DEF Types
    <3>2. EntriesFrom(messages \o es, s + 1) = EntriesFrom(messages, s + 1) \o es
      BY <1>1, <2>2, <3>1, EntriesFromConcat
    <3>3. QED
      BY <2>2, <3>2 DEF Replay
  <2>3. QED
    BY <2>1, <2>2
<1>4. Payloads(Replay(messages, s) \o es) = Payloads(Replay(messages, s)) \o Payloads(es)
  BY <1>2, PayloadsConcat
<1>5. Payloads(Replay(messages, s)) \in Seq(Events) /\ Payloads(es) \in Seq(Events)
  BY <1>2, PayloadsProperties
<1>6. Latest' = Latest
  BY DEF Latest
<1>7. Recovered' = Latest.payload \o (Payloads(Replay(messages, s)) \o Payloads(es))
  BY <1>1, <1>3, <1>4, <1>6 DEF Recovered
<1>8. QED
  BY <1>1, <1>2, <1>5, <1>7, EventsConcat DEF Recovered

-----------------------------------------------------------------------------
(* Each action preserves MInv. *)

\* persist_message and persist_batch answer Ok.
LEMMA EventsStep ==
    ASSUME MInv, provider = "memory", PersistOk, pending.op # "snapshot"
    PROVE  MInv'
<1> DEFINE ev == pending.events
           es == EntriesOf(ev)
           first == FirstSequence
           last == last_sequence_id'
<1>1. /\ Types /\ status = "running" /\ status' = "running"
      /\ pending.op \in {"message", "batch"} /\ ev \in Seq(Events) /\ Len(ev) \in Nat
      /\ pending.op = "message" => Len(ev) = 1
      /\ pending' = NoOp
  BY SMT DEF MInv, PendingIsRunning, PersistOk, Types, Operation
<1>2. /\ messages' = messages \o es /\ UNCHANGED <<snapshots, last_snapshot_sequence_id>>
      /\ state' = state \o ev /\ acked' = acked \o ev
      /\ last = IF pending.op = "batch" THEN last_sequence_id + Len(ev) ELSE last_sequence_id + 1
  BY <1>1 DEF PersistOk, StoreWrite, write_messages
<1>3. /\ es \in Seq(Entry) /\ Len(es) = Len(ev) /\ Payloads(es) = ev
      /\ \A i \in 1 .. Len(es) : es[i].sequence = first + i - 1
  BY <1>1, EntriesOfProperties
<1>4. /\ first \in Nat /\ last \in Nat /\ last_sequence_id \in Nat
      /\ last_sequence_id <= first
      /\ pending.op = "message" => first = last_sequence_id
      /\ pending.op = "batch" => first = last_sequence_id + 1
      /\ first + Len(ev) - 1 <= last /\ last_sequence_id <= last
      /\ pending.op = "message" => last = last_sequence_id + 1
  <2>1. last_sequence_id \in Nat
    BY <1>1 DEF Types
  <2>2. CASE pending.op = "message"
    <3>1. first = last_sequence_id /\ last = last_sequence_id + 1
      BY <1>2, <2>2 DEF FirstSequence
    <3> HIDE DEF ev, first, last
    <3>2. Len(ev) = 1
      BY <1>1, <2>2
    <3>3. QED
      BY SMT, <2>1, <2>2, <3>1, <3>2
  <2>3. CASE pending.op = "batch"
    <3>1. first = last_sequence_id + 1 /\ last = last_sequence_id + Len(ev)
      BY <1>2, <2>3 DEF FirstSequence
    <3> HIDE DEF ev, first, last
    <3>2. Len(ev) \in Nat
      BY <1>1
    <3>3. QED
      BY SMT, <2>1, <2>3, <3>1, <3>2
  <2>4. QED
    BY <1>1, <2>2, <2>3
<1>5. /\ Latest' = Latest /\ Latest.sequence \in Nat /\ Recovered \in Seq(Events)
      /\ Latest.payload \in Seq(Events)
  BY <1>1, <1>2, RecoveredType DEF Latest
<1> HIDE DEF es, ev, first, last
<1>6. Types'
  BY SMT, <1>1, <1>2, <1>3, <1>4, ConcatProperties DEF Types, Operation, NoOp, last
<1>7. PendingIsRunning' /\ LoadedIsLatest'
  BY <1>1 DEF PendingIsRunning, LoadedIsLatest
<1>8. /\ Latest.sequence <= last_sequence_id
      /\ last_snapshot_sequence_id = Latest.sequence
      /\ \A i \in 1 .. Len(messages) : messages[i].sequence <= last_sequence_id
      /\ IsSubsequence(state, acked) /\ IsSubsequence(Recovered, acked)
      /\ Len(state) <= Len(Recovered) + 1
      /\ snapshots = <<>> \/ last_sequence_id = Latest.sequence => Len(state) <= Len(Recovered)
      /\ snapshots # <<>> => Latest.sequence >= 1
      /\ snapshots = <<>> => Recovered = acked
      /\ Sorted(messages)
  BY <1>1 DEF MInv, RunningInv, StorageInv
<1>9. /\ snapshots = <<>> => Latest.sequence = 0
      /\ state \in Seq(Events) /\ acked \in Seq(Events) /\ messages \in Seq(Entry)
  BY <1>1 DEF Latest, NoSnapshot, Types
<1>10. /\ Sorted(messages')
       /\ \A i \in 1 .. Len(messages') : messages'[i].sequence <= last
  <2>1. \A i \in 1 .. Len(messages) : messages[i].sequence \in Nat
    <3>1. \A i \in 1 .. Len(messages) : messages[i] \in Entry
      BY SMT, <1>9
    <3>2. QED
      BY <3>1 DEF Entry
  <2>2. \A i \in 1 .. Len(messages) : messages[i].sequence <= first
    BY SMT, <1>4, <1>8, <2>1
  <2>3. CASE Len(ev) = 0
    <3>1. messages' = messages
      BY <1>2, <1>3, <1>9, <2>3, ConcatEmptySeq, EmptySeq
    <3>2. QED
      BY SMT, <1>4, <1>8, <2>1, <3>1
  <2>4. CASE Len(ev) > 0
    <3>1. first <= last
      BY SMT, <1>1, <1>4, <2>4
    <3>2. /\ first \in Nat /\ last \in Nat /\ Len(es) \in Nat /\ first + Len(es) - 1 <= last
          /\ \A i \in 1 .. Len(es) : es[i].sequence = first + i - 1
      BY <1>1, <1>3, <1>4
    <3>3. /\ \A i \in 1 .. Len(es) : es[i].sequence \in first .. last
          /\ \A i, j \in 1 .. Len(es) : i <= j => es[i].sequence <= es[j].sequence
      BY SMT, <3>2
    <3>4. QED
      BY <1>2, <1>3, <1>4, <1>8, <1>9, <2>2, <3>1, <3>3, SortedConcat
  <2>5. QED
    BY SMT, <1>1, <2>3, <2>4
<1>11. IsSubsequence(state, acked)'
  BY <1>1, <1>2, <1>8, <1>9, SubsequenceExtends
<1>12. Len(state') = Len(state) + Len(ev) /\ Len(state) \in Nat /\ Len(Recovered) \in Nat
  BY SMT, <1>1, <1>2, <1>5, <1>9
<1>13. CASE Latest.sequence = 0 \/ first >= Latest.sequence + 1
  <2>1. Recovered' = Recovered \o ev
    <3>1. Latest.sequence = 0 \/ \A i \in 1 .. Len(es) : es[i].sequence >= Latest.sequence + 1
      BY SMT, <1>1, <1>3, <1>4, <1>5, <1>13
    <3>2. QED
      BY <1>1, <1>2, <1>3, <3>1, WrittenIsReplayed
  <2>2. Len(Recovered') = Len(Recovered) + Len(ev)
    BY SMT, <1>1, <1>5, <2>1
  <2>3. IsSubsequence(Recovered, acked)'
    BY <1>1, <1>2, <1>5, <1>8, <1>9, <2>1, SubsequenceExtends
  <2>4. StorageInv'
    BY <1>2, <1>5, <1>8, <1>10, <2>1, <2>3 DEF StorageInv
  <2>5. RunningInv'
    <3>1. Latest.sequence <= last /\ last = last_sequence_id' /\ last_sequence_id <= last
      BY SMT, <1>4, <1>5, <1>8 DEF last
    <3>2. Len(state') <= Len(Recovered') + 1
      BY SMT, <1>1, <1>8, <1>12, <2>2
    <3>3. ASSUME snapshots' = <<>> \/ last_sequence_id' = Latest'.sequence
          PROVE  Len(state') <= Len(Recovered')
      <4>1. snapshots = <<>> \/ last_sequence_id = Latest.sequence
        BY SMT, <1>2, <1>4, <1>5, <1>8, <3>1, <3>3
      <4>2. QED
        BY SMT, <1>1, <1>8, <1>12, <2>2, <4>1
    <3>4. QED
      BY <1>1, <1>2, <1>5, <1>8, <1>10, <1>11, <3>1, <3>2, <3>3 DEF RunningInv
  <2>6. QED
    BY <1>6, <1>7, <2>4, <2>5 DEF MInv
<1>14. CASE Latest.sequence # 0 /\ first <= Latest.sequence
  <2>1. /\ pending.op = "message" /\ Len(ev) = 1 /\ snapshots # <<>>
        /\ first = last_sequence_id /\ last_sequence_id = Latest.sequence
        /\ last = last_sequence_id + 1
    <3>1. first = last_sequence_id /\ last_sequence_id = Latest.sequence
      BY SMT, <1>1, <1>4, <1>5, <1>8, <1>14
    <3>2. pending.op = "message"
      BY SMT, <1>1, <1>4, <3>1
    <3>3. QED
      BY <1>1, <1>4, <1>9, <1>14, <3>1, <3>2
  <2>2. Recovered' = Recovered
    <3>1. Latest.sequence + 1 \in Nat
      BY SMT, <1>5
    <3>2. \A i \in 1 .. Len(messages) : messages[i].sequence < Latest.sequence + 1
      <4>1. \A i \in 1 .. Len(messages) : messages[i] \in Entry
        BY SMT, <1>9
      <4>2. QED
        BY SMT, <1>4, <1>8, <2>1, <4>1 DEF Entry
    <3>3. EntriesFrom(messages, Latest.sequence + 1) = <<>>
      BY <1>9, <3>1, <3>2, EntriesFromNone
    <3>4. messages' \in Seq(Entry)
      BY <1>6 DEF Types
    <3>5. \A i \in 1 .. Len(messages') : messages'[i].sequence < Latest.sequence + 1
      <4>1. \A i \in 1 .. Len(messages) : (messages \o es)[i] = messages[i]
        BY SMT, <1>3, <1>9
      <4>2. Len(messages \o es) = Len(messages) + 1 /\ (messages \o es)[Len(messages) + 1] = es[1]
        <5>1. Len(es) = 1
          BY <1>3, <2>1
        <5>2. /\ Len(messages \o es) = Len(messages) + Len(es)
              /\ \A i \in 1 .. Len(es) : (messages \o es)[Len(messages) + i] = es[i]
          <6>1. messages \in Seq(Entry) /\ es \in Seq(Entry)
            BY <1>3, <1>9
          <6>2. QED
            BY SMT, <6>1
        <5>3. QED
          BY SMT, <5>1, <5>2
      <4>3. es[1].sequence < Latest.sequence + 1
        BY SMT, <1>3, <1>4, <2>1
      <4>4. QED
        BY SMT, <1>2, <1>9, <3>2, <4>1, <4>2, <4>3
    <3>6. EntriesFrom(messages', Latest.sequence + 1) = <<>>
      BY <3>1, <3>4, <3>5, EntriesFromNone
    <3>7. QED
      BY <1>5, <1>14, <3>3, <3>6 DEF Recovered, Replay
  <2>3. IsSubsequence(Recovered, acked)'
    BY <1>1, <1>2, <1>5, <1>8, <1>9, <2>2, SubsequenceOfLonger
  <2>4. StorageInv'
    BY <1>2, <1>5, <1>8, <1>10, <2>1, <2>2, <2>3 DEF StorageInv
  <2>5. RunningInv'
    <3>1. Latest.sequence <= last /\ last = last_sequence_id' /\ last # Latest.sequence
      BY SMT, <1>4, <1>5, <2>1 DEF last
    <3>2. Len(state') <= Len(Recovered') + 1
      BY SMT, <1>8, <1>12, <2>1, <2>2
    <3>3. QED
      BY <1>1, <1>2, <1>5, <1>8, <1>10, <1>11, <2>1, <3>1, <3>2 DEF RunningInv
  <2>6. QED
    BY <1>6, <1>7, <2>4, <2>5 DEF MInv
<1>15. QED
  BY SMT, <1>4, <1>5, <1>13, <1>14

\* persist_snapshot answers Ok: from now on a recovery yields the state itself.
LEMMA SnapshotStep ==
    ASSUME MInv, provider = "memory", PersistOk, pending.op = "snapshot"
    PROVE  MInv'
<1> DEFINE snap == [sequence |-> last_sequence_id + 1, payload |-> state]
<1>1. /\ Types /\ status = "running" /\ status' = "running"
      /\ pending.events = state /\ pending' = NoOp
  BY DEF MInv, PendingIsRunning, PersistOk
<1>2. FirstSequence = last_sequence_id + 1
  BY DEF FirstSequence
<1>3. /\ snapshots' = Append(snapshots, snap) /\ UNCHANGED <<messages, state, acked>>
      /\ last_sequence_id' = last_sequence_id + 1
      /\ last_snapshot_sequence_id' = last_sequence_id + 1
  BY <1>1, <1>2 DEF PersistOk, StoreWrite, write_snapshot
<1>4. /\ messages \in Seq(Entry) /\ snapshots \in Seq(Snap) /\ last_sequence_id \in Nat
      /\ state \in Seq(Events) /\ acked \in Seq(Events)
  BY <1>1 DEF Types
<1>5. snap \in Snap
  BY SMT, <1>4 DEF Snap
<1> HIDE DEF snap
<1>6. snapshots' \in Seq(Snap) /\ snapshots' # <<>> /\ snapshots'[Len(snapshots')] = snap
  BY SMT, <1>3, <1>4, <1>5
<1>7. Latest' = snap
  BY <1>6 DEF Latest
<1>8. snap.sequence = last_sequence_id + 1 /\ snap.payload = state
  BY DEF snap
<1>9. Types'
  BY SMT, <1>1, <1>3, <1>4, <1>6 DEF Types, Operation, NoOp
<1>10. PendingIsRunning' /\ LoadedIsLatest'
  BY <1>1 DEF PendingIsRunning, LoadedIsLatest
<1>11. /\ \A i \in 1 .. Len(messages) : messages[i].sequence <= last_sequence_id
       /\ \A i \in 1 .. Len(messages) : messages[i].sequence \in Nat
       /\ IsSubsequence(state, acked) /\ Sorted(messages)
  <2>1. \A i \in 1 .. Len(messages) : messages[i] \in Entry
    BY SMT, <1>4
  <2>2. QED
    BY <1>1, <2>1 DEF MInv, RunningInv, StorageInv, Entry
<1>12. Recovered' = state
  <2>1. last_sequence_id + 2 \in Nat /\ last_sequence_id + 1 # 0
        /\ (last_sequence_id + 1) + 1 = last_sequence_id + 2
    BY SMT, <1>4
  <2>2. \A i \in 1 .. Len(messages) : messages[i].sequence < last_sequence_id + 2
    BY SMT, <1>4, <1>11
  <2>3. EntriesFrom(messages, last_sequence_id + 2) = <<>>
    BY <1>4, <2>1, <2>2, EntriesFromNone
  <2>4. Replay(messages', Latest'.sequence) = <<>>
    BY <1>3, <1>7, <1>8, <2>1, <2>3 DEF Replay
  <2>5. Payloads(<<>>) = <<>>
    BY SMT DEF Payloads
  <2>6. Recovered' = state \o <<>>
    BY <1>7, <1>8, <2>4, <2>5 DEF Recovered
  <2>7. QED
    BY SMT, <1>4, <2>6
<1>13. StorageInv'
  <2>1. Latest'.sequence >= 1
    BY SMT, <1>4, <1>7, <1>8
  <2>2. QED
    BY <1>3, <1>6, <1>11, <1>12, <2>1 DEF StorageInv
<1>14. RunningInv'
  <2>1. Len(state) \in Nat
    BY SMT, <1>4
  <2>2. \A i \in 1 .. Len(messages) : messages[i].sequence <= last_sequence_id + 1
    BY SMT, <1>4, <1>11
  <2>3. QED
    BY SMT, <1>3, <1>4, <1>7, <1>8, <1>11, <1>12, <2>1, <2>2 DEF RunningInv
<1>15. QED
  BY <1>9, <1>10, <1>13, <1>14 DEF MInv

\* clear_old_messages deletes nothing that a recovery would replay.
LEMMA ClearStep ==
    ASSUME MInv, provider = "memory", clear_old_messages
    PROVE  MInv' /\ Recovered' = Recovered
<1> DEFINE s == Latest.sequence
<1>1. /\ Types /\ status = "running" /\ s \in Nat /\ s # 0
      /\ messages \in Seq(Entry)
      /\ UNCHANGED <<snapshots, last_sequence_id, last_snapshot_sequence_id, status, pending,
                     state, acked>>
      /\ messages' = IF messages # <<>> /\ messages[Len(messages)].sequence < s
                     THEN <<>> ELSE EntriesFrom(messages, s)
  <2>1. Types /\ status = "running" /\ last_snapshot_sequence_id = s /\ s # 0
    BY DEF MInv, RunningInv, clear_old_messages
  <2>2. s \in Nat
    BY <2>1, RecoveredType
  <2>3. QED
    BY <2>1, <2>2 DEF clear_old_messages, delete_messages_to, Types, journal, history
<1>2. Sorted(messages) /\ \A i \in 1 .. Len(messages) : messages[i].sequence \in Nat
  <2>1. \A i \in 1 .. Len(messages) : messages[i] \in Entry
    BY SMT, <1>1
  <2>2. QED
    BY <2>1 DEF MInv, StorageInv, Entry
<1>3. Latest' = Latest
  BY <1>1 DEF Latest
<1> HIDE DEF s
<1>4. s + 1 \in Nat
  BY SMT, <1>1
<1>5. /\ messages' \in Seq(Entry)
      /\ EntriesFrom(messages', s + 1) = EntriesFrom(messages, s + 1)
      /\ \E d \in Nat : \A i \in 1 .. Len(messages') :
             i + d \in 1 .. Len(messages) /\ messages'[i] = messages[i + d]
  <2>1. CASE messages # <<>> /\ messages[Len(messages)].sequence < s
    <3>1. messages' = <<>>
      BY <1>1, <2>1
    <3>2. \A i \in 1 .. Len(messages) : messages[i].sequence < s + 1
      <4>1. Len(messages) \in 1 .. Len(messages)
        BY SMT, <1>1, <2>1
      <4>2. \A i \in 1 .. Len(messages) : messages[i].sequence <= messages[Len(messages)].sequence
        BY SMT, <1>1, <1>2, <4>1 DEF Sorted
      <4>3. QED
        BY SMT, <1>1, <1>2, <2>1, <4>1, <4>2
    <3>3. EntriesFrom(messages, s + 1) = <<>>
      BY <1>1, <1>4, <3>2, EntriesFromNone
    <3>4. messages' \in Seq(Entry) /\ \A i \in 1 .. Len(messages') : FALSE
      BY SMT, <3>1
    <3>5. EntriesFrom(messages', s + 1) = <<>>
      BY <1>4, <3>4, EntriesFromNone
    <3>6. QED
      BY <3>3, <3>4, <3>5
  <2>2. CASE ~(messages # <<>> /\ messages[Len(messages)].sequence < s)
    <3>1. messages' = EntriesFrom(messages, s)
      BY <1>1, <2>2
    <3>2. PICK k : IsFirst(messages, s, k)
      BY <1>1, FirstFromIsFirst
    <3>3. k \in 1 .. Len(messages) + 1 /\ Len(messages) \in Nat
      BY SMT, <1>1, <3>2 DEF IsFirst
    <3>4. messages' \in Seq(Entry) /\ Len(messages') = Len(messages) - k + 1
      BY SMT, <1>1, <3>1, <3>2, EntriesFromProperties
    <3>5. \A i \in 1 .. Len(messages) - k + 1 : messages'[i] = messages[k + i - 1]
      BY SMT, <1>1, <3>1, <3>2, EntriesFromProperties
    <3>6. k - 1 \in Nat /\ \A i \in 1 .. Len(messages') :
             i + (k - 1) \in 1 .. Len(messages) /\ messages'[i] = messages[i + (k - 1)]
      <4>1. ASSUME NEW i \in 1 .. Len(messages')
            PROVE  i + (k - 1) \in 1 .. Len(messages) /\ i + (k - 1) = k + i - 1
        BY SMT, <3>3, <3>4
      <4>2. QED
        BY SMT, <3>3, <3>4, <3>5, <4>1
    <3>7. EntriesFrom(messages', s + 1) = EntriesFrom(messages, s + 1)
      BY <1>1, <3>1, EntriesFromTwice
    <3>8. QED
      BY <3>4, <3>6, <3>7
  <2>3. QED
    BY <2>1, <2>2
<1>6. PICK d \in Nat : \A i \in 1 .. Len(messages') :
             i + d \in 1 .. Len(messages) /\ messages'[i] = messages[i + d]
  BY <1>5
<1>7. Recovered' = Recovered
  BY <1>1, <1>3, <1>5 DEF Recovered, Replay, s
<1>8. Sorted(messages')
  <2>1. ASSUME NEW i \in 1 .. Len(messages'), NEW j \in 1 .. Len(messages'), i <= j
        PROVE  messages'[i].sequence <= messages'[j].sequence
    <3>1. i + d <= j + d /\ i + d \in 1 .. Len(messages) /\ j + d \in 1 .. Len(messages)
      BY SMT, <1>5, <1>6, <2>1
    <3>2. QED
      BY <1>2, <1>6, <3>1 DEF Sorted
  <2>2. QED
    BY <2>1 DEF Sorted
<1>9. \A i \in 1 .. Len(messages') : messages'[i].sequence <= last_sequence_id
  BY <1>1, <1>6 DEF MInv, RunningInv
<1>10. Types' /\ PendingIsRunning' /\ LoadedIsLatest'
  BY <1>1, <1>5 DEF MInv, Types, PendingIsRunning, LoadedIsLatest
<1>11. StorageInv' /\ RunningInv'
  BY <1>1, <1>3, <1>7, <1>8, <1>9 DEF MInv, StorageInv, RunningInv
<1>12. QED
  BY <1>7, <1>10, <1>11 DEF MInv

\* recover_snapshot: the actor is the latest snapshot.
LEMMA RecoverSnapshotStep ==
    ASSUME MInv, provider = "memory", recover_snapshot
    PROVE  MInv'
<1>1. /\ Types /\ status' = "loaded_snapshot" /\ pending = NoOp
      /\ UNCHANGED <<messages, snapshots, pending, acked>>
  BY DEF MInv, PendingIsRunning, recover_snapshot, storage, history
<1>2. read_latest_snapshot(snapshots) = {Latest}
  BY DEF read_latest_snapshot, Latest
<1>3. /\ state' = Latest.payload /\ last_sequence_id' = Latest.sequence
      /\ last_snapshot_sequence_id' = Latest.sequence
  BY <1>2 DEF recover_snapshot
<1>4. Latest' = Latest /\ Recovered' = Recovered
  BY <1>1, StorageUnchanged
<1>5. Latest.sequence \in Nat /\ Latest.payload \in Seq(Events)
  BY <1>1, RecoveredType
<1>6. Types'
  BY <1>1, <1>3, <1>5 DEF Types
<1>7. PendingIsRunning' /\ LoadedIsLatest' /\ RunningInv'
  BY <1>1, <1>3, <1>4 DEF PendingIsRunning, LoadedIsLatest, RunningInv
<1>8. StorageInv'
  BY <1>1, <1>4 DEF MInv, StorageInv
<1>9. QED
  BY <1>6, <1>7, <1>8 DEF MInv

\* recover_messages: the actor is what the storage yields, and its counter is at
\* the last entry.
LEMMA RecoverMessagesStep ==
    ASSUME MInv, provider = "memory", recover_messages
    PROVE  MInv'
<1> DEFINE read == Replay(messages, Latest.sequence)
           s == Latest.sequence
<1>1. /\ Types /\ status' = "running" /\ pending = NoOp
      /\ UNCHANGED <<messages, snapshots, pending, acked, last_snapshot_sequence_id>>
      /\ state = Latest.payload /\ last_sequence_id = s /\ last_snapshot_sequence_id = s
  BY DEF MInv, PendingIsRunning, LoadedIsLatest, recover_messages, storage, history
<1>2. read_latest_messages(messages, last_sequence_id) = read
  BY <1>1 DEF read_latest_messages, Replay
<1>3. /\ state' = Recovered
      /\ last_sequence_id' = IF read = <<>> THEN s ELSE read[Len(read)].sequence
  BY <1>1, <1>2 DEF recover_messages, Recovered
<1>4. Latest' = Latest /\ Recovered' = Recovered
  BY <1>1, StorageUnchanged
<1>5. /\ s \in Nat /\ read \in Seq(Entry) /\ Recovered \in Seq(Events)
      /\ messages \in Seq(Entry) /\ acked \in Seq(Events)
  BY <1>1, RecoveredType DEF Types
<1>6. /\ Sorted(messages) /\ IsSubsequence(Recovered, acked)
      /\ \A i \in 1 .. Len(messages) : messages[i].sequence \in Nat
  <2>1. \A i \in 1 .. Len(messages) : messages[i] \in Entry
    BY SMT, <1>5
  <2>2. QED
    BY <2>1 DEF MInv, StorageInv, Entry
<1> HIDE DEF read, s
<1>7. /\ last_sequence_id' \in Nat /\ s <= last_sequence_id'
      /\ \A i \in 1 .. Len(messages) : messages[i].sequence <= last_sequence_id'
  <2>1. PICK k \in 1 .. Len(messages) + 1 :
           /\ Len(read) = Len(messages) - k + 1
           /\ \A i \in 1 .. Len(messages) - k + 1 : read[i] = messages[k + i - 1]
           /\ \A j \in 1 .. k - 1 : messages[j].sequence <= s
           /\ s = 0 \/ (k <= Len(messages) => messages[k].sequence > s)
    <3>1. CASE s = 0
      <4>1. read = messages
        BY <3>1 DEF read, s, Replay
      <4>2. QED
        BY SMT, <1>5, <3>1, <4>1
    <3>2. CASE s # 0
      <4>1. read = EntriesFrom(messages, s + 1) /\ s + 1 \in Nat
        BY SMT, <1>5, <3>2 DEF read, s, Replay
      <4>2. PICK k : IsFirst(messages, s + 1, k)
        BY <1>5, <4>1, FirstFromIsFirst
      <4>3. /\ Len(read) = Len(messages) - k + 1
            /\ \A i \in 1 .. Len(messages) - k + 1 : read[i] = messages[k + i - 1]
        BY SMT, <1>5, <4>1, <4>2, EntriesFromProperties
      <4>4. /\ k \in 1 .. Len(messages) + 1
            /\ \A j \in 1 .. k - 1 : messages[j].sequence <= s
            /\ k <= Len(messages) => messages[k].sequence > s
        <5>1. k \in 1 .. Len(messages) + 1 /\ Len(messages) \in Nat
          BY SMT, <1>5, <4>2 DEF IsFirst
        <5>2. ASSUME NEW j \in 1 .. k - 1
              PROVE  messages[j].sequence <= s
          <6>1. messages[j].sequence < s + 1 /\ j \in 1 .. Len(messages)
            BY SMT, <4>2, <5>1 DEF IsFirst
          <6>2. QED
            BY SMT, <1>5, <1>6, <6>1
        <5>3. ASSUME k <= Len(messages)
              PROVE  messages[k].sequence > s
          <6>1. messages[k].sequence >= s + 1 /\ k \in 1 .. Len(messages)
            BY SMT, <4>2, <5>1, <5>3 DEF IsFirst
          <6>2. QED
            BY SMT, <1>5, <1>6, <6>1
        <5>4. QED
          BY <5>1, <5>2, <5>3
      <4>5. QED
        BY <4>3, <4>4
    <3>3. QED
      BY <3>1, <3>2
  <2>2. PICK n \in Nat : n = Len(messages)
    BY SMT, <1>5
  <2>3. CASE read = <<>>
    <3>1. k = n + 1
      BY SMT, <2>1, <2>2, <2>3
    <3>2. QED
      BY SMT, <1>3, <1>5, <2>1, <2>2, <2>3, <3>1
  <2>4. CASE read # <<>>
    <3>1. Len(read) \in Nat /\ Len(read) # 0
      BY SMT, <1>5, <2>4
    <3>2. /\ k \in 1 .. n /\ Len(read) \in 1 .. Len(messages) - k + 1
          /\ k + Len(read) - 1 = n /\ n \in 1 .. n
      BY SMT, <2>1, <2>2, <3>1
    <3>3. read[Len(read)] = messages[n]
      BY <2>1, <3>2
    <3>4. last_sequence_id' = messages[n].sequence
      BY <1>3, <2>4, <3>3
    <3>5. \A i \in 1 .. n : messages[i].sequence <= messages[n].sequence
      BY SMT, <1>6, <2>2, <3>2 DEF Sorted
    <3>6. s <= messages[n].sequence
      BY SMT, <1>5, <1>6, <2>1, <2>2, <3>2, <3>5
    <3>7. QED
      BY <1>6, <2>2, <3>2, <3>4, <3>5, <3>6
  <2>5. QED
    BY <2>3, <2>4
<1>8. Types'
  BY <1>1, <1>3, <1>5, <1>7 DEF Types
<1>9. PendingIsRunning' /\ LoadedIsLatest'
  BY <1>1 DEF PendingIsRunning, LoadedIsLatest
<1>10. StorageInv'
  BY <1>1, <1>4 DEF MInv, StorageInv
<1>11. RunningInv'
  <2>1. Len(Recovered) \in Nat
    BY SMT, <1>5
  <2>2. QED
    BY SMT, <1>1, <1>3, <1>4, <1>6, <1>7, <2>1 DEF RunningInv, s
<1>12. QED
  BY <1>8, <1>9, <1>10, <1>11 DEF MInv

\* A handler begins an operation, the actor stops between two, a new incarnation
\* begins: the storage, and what it yields, stay.
LEMMA OtherSteps ==
    ASSUME MInv, provider = "memory",
           \/ persist \/ persist_batch \/ snapshot \/ Stop \/ Start \/ UNCHANGED vars
    PROVE  MInv'
<1> USE DEF MInv
<1>1. UNCHANGED <<messages, snapshots, acked>>
  BY DEF persist, persist_batch, BeginEvents, snapshot, Begin, Stop, Start, init_journal, storage,
         history, vars
<1>2. Latest' = Latest /\ Recovered' = Recovered
  BY <1>1, StorageUnchanged
<1>3. StorageInv'
  BY <1>1, <1>2 DEF StorageInv
<1>4. ASSUME NEW op \in {"message", "batch", "snapshot"}, NEW ev \in Seq(Events), Begin(op, ev),
             op = "message" => Len(ev) = 1, op = "snapshot" => ev = state
      PROVE  MInv'
  <2>1. Types'
    BY <1>4 DEF Types, Begin, Operation, storage, journal
  <2>2. PendingIsRunning' /\ LoadedIsLatest'
    BY <1>4 DEF Begin, PendingIsRunning, LoadedIsLatest
  <2>3. RunningInv'
    BY <1>2, <1>4 DEF Begin, RunningInv, storage, journal
  <2>4. QED
    BY <1>3, <2>1, <2>2, <2>3
<1>5. CASE persist
  <2>1. PICK e \in Events : Begin("message", <<e>>)
    BY <1>5 DEF persist, BeginEvents
  <2>2. <<e>> \in Seq(Events) /\ Len(<<e>>) = 1
    BY SMT
  <2>3. QED
    BY <1>4, <2>1, <2>2
<1>6. CASE persist_batch
  <2>1. PICK e \in Events, f \in Events : Begin("batch", <<e, f>>)
    BY <1>6 DEF persist_batch, BeginEvents
  <2>2. <<e, f>> \in Seq(Events)
    BY SMT
  <2>3. QED
    BY <1>4, <2>1, <2>2
<1>7. CASE snapshot
  BY <1>4, <1>7 DEF snapshot, Types
<1>8. CASE Stop
  <2>1. Types' /\ PendingIsRunning' /\ LoadedIsLatest' /\ RunningInv'
    BY <1>1, <1>8 DEF Stop, Types, PendingIsRunning, LoadedIsLatest, RunningInv, Operation, NoOp,
                      journal
  <2>2. QED
    BY <1>3, <2>1
<1>9. CASE Start
  <2>1. pending' = NoOp
    BY <1>9 DEF Start, PendingIsRunning
  <2>2. Types' /\ PendingIsRunning' /\ LoadedIsLatest' /\ RunningInv'
    BY SMT, <1>1, <1>9, <2>1 DEF Start, init_journal, Types, PendingIsRunning, LoadedIsLatest, RunningInv
  <2>3. QED
    BY <1>3, <2>2
<1>10. CASE UNCHANGED vars
  <2>1. Types' /\ PendingIsRunning' /\ LoadedIsLatest' /\ RunningInv'
    BY <1>2, <1>10 DEF vars, storage, journal, history, Types, PendingIsRunning, LoadedIsLatest,
                       RunningInv
  <2>2. QED
    BY <1>3, <2>1
<1>11. QED
  BY <1>5, <1>6, <1>7, <1>8, <1>9, <1>10

\* A new actor over an empty storage satisfies IInv.
LEMMA InitIInv == Init => IInv
<1> SUFFICES ASSUME Init PROVE IInv
  OBVIOUS
<1>1. Types
  BY SMT DEF Init, Types, Operation, NoOp
<1>2. PendingIsRunning /\ LoadedIsLatest /\ RunningInv
  BY DEF Init, PendingIsRunning, LoadedIsLatest, RunningInv
<1>3. Recovered = <<>> /\ acked = <<>> /\ messages = <<>> /\ snapshots = <<>>
  BY SMT DEF Init, Recovered, Latest, NoSnapshot, Replay, Payloads
<1>4. IsSubsequence(Recovered, acked)
  <2>1. DOMAIN Recovered = {}
    BY SMT, <1>3
  <2>2. [i \in {} |-> 0] \in [DOMAIN Recovered -> DOMAIN acked]
    BY <2>1
  <2>3. QED
    BY <2>1, <2>2 DEF IsSubsequence
<1>5. StorageInv
  BY SMT, <1>3, <1>4 DEF StorageInv, Sorted
<1>6. QED
  BY <1>1, <1>2, <1>5 DEF Init, IInv, MInv

\* Every step of the actor keeps IInv; the in-memory provider never answers Err.
LEMMA NextIInv == IInv /\ [Next]_vars => IInv'
<1> SUFFICES ASSUME IInv, [Next]_vars PROVE IInv'
  OBVIOUS
<1>1. UNCHANGED provider /\ provider' \in Providers
  BY DEF IInv, Next, vars
<1> SUFFICES ASSUME provider = "memory" PROVE MInv'
  BY <1>1 DEF IInv
<1>2. MInv /\ Outcomes = {"ok"}
  BY DEF IInv, Outcomes
<1>3. CASE PersistOk
  BY <1>2, <1>3, EventsStep, SnapshotStep
<1>4. CASE PersistErr \/ RecoverErr
  BY <1>2, <1>4 DEF PersistErr, RecoverErr
<1>5. CASE clear_old_messages
  BY <1>2, <1>5, ClearStep
<1>6. CASE recover_snapshot \/ recover_messages
  BY <1>2, <1>6, RecoverSnapshotStep, RecoverMessagesStep
<1>7. CASE \/ persist \/ persist_batch \/ snapshot \/ Stop \/ Start \/ UNCHANGED vars
  BY <1>2, <1>7, OtherSteps
<1>8. QED
  BY <1>3, <1>4, <1>5, <1>6, <1>7 DEF Next

-----------------------------------------------------------------------------
(* Theorems *)

\* IInv is an invariant: what every theorem below follows from.
THEOREM JournalInvariance == Spec => []IInv
BY InitIInv, NextIInv, PTL DEF Spec

\* Over the in-memory provider, after any sequence of persists, batches,
\* snapshots, deletions and restarts, a recovery yields the acknowledged events
\* in their order with some left out, and at most one fewer than the running
\* actor has applied: the one that persist_message gave the snapshot's sequence.
THEOREM RecoveryIsOrdered == Spec => []RecoveryLosesAtMostOne
<1>1. IInv => RecoveryLosesAtMostOne
  BY RecoverableIsOne DEF IInv, MInv, StorageInv, RunningInv, RecoveryLosesAtMostOne
<1>2. QED
  BY <1>1, JournalInvariance, PTL

\* Without a snapshot a recovery yields exactly the acknowledged events, although
\* persist_message and persist_batch give sequences twice.
THEOREM NothingLostWithoutSnapshot == Spec => []NoSnapshotNoLoss
<1>1. IInv => NoSnapshotNoLoss
  BY RecoverableIsOne DEF IInv, MInv, StorageInv, NoSnapshotNoLoss
<1>2. QED
  BY <1>1, JournalInvariance, PTL

\* delete_messages_to of the in-memory provider and read_latest_messages agree:
\* what clear_old_messages deletes no recovery would have replayed.
THEOREM ClearingIsHarmless == Spec => ClearKeepsRecoverable
<1>1. IInv /\ [Next]_vars
        => [clear_old_messages /\ provider = "memory" => Recoverable' = Recoverable]_vars
  <2> SUFFICES ASSUME IInv, Next, clear_old_messages, provider = "memory"
               PROVE  Recoverable' = Recoverable
    OBVIOUS
  <2>1. provider' = "memory"
    BY DEF Next
  <2>2. Recoverable' = {Recovered}'
    <3>1. (provider = "memory" => Recoverable = {Recovered})'
      BY RecoverableIsOne, PTL
    <3>2. QED
      BY <2>1, <3>1
  <2>3. Recovered' = Recovered
    BY ClearStep DEF IInv
  <2>4. QED
    BY <2>2, <2>3, RecoverableIsOne
<1>2. QED
  BY <1>1, JournalInvariance, PTL DEF Spec, ClearKeepsRecoverable
=============================================================================
