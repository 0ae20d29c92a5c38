---------------------------- MODULE ArchiveProofs ----------------------------
(***************************************************************************)
(* What an archive's index lists can be read back, and what is read of it: *)
(* each page by its URL, pages of the index, the newest capture of a       *)
(* collection, the end of a chain of redirects; for every set of captures, *)
(* number of restarts, of walks and of redirects.                          *)
(*                                                                         *)
(* IndexedReadsBack alone is not inductive: a capture enters the index     *)
(* long after its files were created, so the invariant says which files    *)
(* exist at each label of a handler, and speaks of every file, indexed or  *)
(* not.  What Reading computes by recursion is computed again as a closed  *)
(* form or step by step, by induction.                                     *)
(***************************************************************************)
EXTENDS Reading, FiniteSetTheorems, SequenceTheorems, TLAPS

\* What a handler has created when it is at each of its labels.
HandlerInv ==
  \A c \in Captures :
    /\ pc[c] \in {"createBody", "writeBody", "record", "tornRecord"}
         => meta[UrlOf[c]] # None
    /\ pc[c] \in {"createBody", "writeBody", "tornRecord"} => HashOf[c] # None
    /\ pc[c] \in {"writeBody", "record", "tornRecord"} /\ HashOf[c] # None
         => body[HashOf[c]] # None

\* The files of a capture that is in an index exist.
IndexedInv ==
  \A c \in index \cup file \cup loaded :
    /\ meta[UrlOf[c]] # None
    /\ HashOf[c] # None => body[HashOf[c]] # None

\* A file is empty only because of a handler that was cut short.
MetaInv ==
  \A u \in Urls : meta[u] = Empty =>
    \E d \in Captures : UrlOf[d] = u /\ pc[d] \in {"writeMeta", "tornMeta"}
BodyInv ==
  \A x \in Hashes : body[x] = Empty =>
    \E d \in Captures : HashOf[d] = x /\ pc[d] \in {"writeBody", "tornRecord", "tornBody"}

ArchiveInv == TypeOK /\ HandlerInv /\ IndexedInv /\ MetaInv /\ BodyInv

LEMMA InitArchive == Init => ArchiveInv
<1> SUFFICES ASSUME Init PROVE ArchiveInv
  OBVIOUS
<1> USE ArchiveAssumption DEF Init
<1>1. TypeOK
  <2>1. starts \in 0 .. MaxStarts
    BY ONLY Init, ArchiveAssumption DEF Init, ArchiveAssumption
  <2> QED
    BY <2>1 DEF TypeOK, Labels
<1>2. HandlerInv /\ IndexedInv
  BY DEF HandlerInv, IndexedInv
<1>3. MetaInv /\ BodyInv
  BY DEF MetaInv, BodyInv
<1> QED
  BY <1>1, <1>2, <1>3 DEF ArchiveInv

LEMMA InvReadsBack == ArchiveInv => IndexedReadsBack
<1> SUFFICES ASSUME ArchiveInv, NEW c \in index \cup file \cup loaded
             PROVE  /\ meta[UrlOf[c]] \in Captures \/ CutMeta(c)
                    /\ HashOf[c] # None => body[HashOf[c]] = "whole" \/ CutBody(c)
  BY DEF IndexedReadsBack
<1>1. c \in Captures /\ UrlOf[c] \in Urls /\ HashOf[c] \in Hashes \cup {None}
  BY ArchiveAssumption DEF ArchiveInv, TypeOK
<1>2. meta[UrlOf[c]] \in Captures \cup {Empty}
  BY <1>1 DEF ArchiveInv, TypeOK, IndexedInv
<1>3. HashOf[c] # None => body[HashOf[c]] \in {"whole", Empty}
  BY <1>1 DEF ArchiveInv, TypeOK, IndexedInv
<1> QED
  BY <1>1, <1>2, <1>3 DEF ArchiveInv, MetaInv, BodyInv, CutMeta, CutBody

\* A handler's step: what it does to the files, and where it goes.
LEMMA StepArchive ==
  ASSUME ArchiveInv, NEW c \in Captures,
         \/ Handle(c) \/ CreateMeta(c) \/ WriteMeta(c) \/ CreateBody(c) \/ WriteBody(c)
         \/ Fail(c) \/ Record(c)
  PROVE  ArchiveInv'
<1> USE ArchiveAssumption DEF Step, files, process
<1>1. UrlOf[c] \in Urls /\ HashOf[c] \in Hashes \cup {None} /\ TypeOK
  BY DEF ArchiveInv
<1>2. TypeOK'
  <2>1. pc' \in [Captures -> Labels]
    BY <1>1 DEF TypeOK, Labels, Handle, CreateMeta, WriteMeta, CreateBody, WriteBody,
                Fail, Record
  <2>2. meta' \in [Urls -> Captures \cup {None, Empty}]
    BY <1>1 DEF TypeOK, Handle, CreateMeta, WriteMeta, CreateBody, WriteBody, Fail, Record
  <2>3. body' \in [Hashes -> {"whole", None, Empty}]
    BY <1>1 DEF TypeOK, Handle, CreateMeta, WriteMeta, CreateBody, WriteBody, Fail, Record
  <2>4. index' \subseteq Captures /\ UNCHANGED <<closed, file, process, loaded>>
    BY <1>1 DEF TypeOK, Handle, CreateMeta, WriteMeta, CreateBody, WriteBody, Fail, Record
  <2> QED
    BY <1>1, <2>1, <2>2, <2>3, <2>4 DEF TypeOK
<1>3. CASE Handle(c)
  <2>1. HandlerInv' /\ IndexedInv'
    BY <1>1, <1>3 DEF Handle, ArchiveInv, TypeOK, HandlerInv, IndexedInv
  <2>2. MetaInv' /\ BodyInv'
    BY <1>1, <1>3 DEF Handle, ArchiveInv, TypeOK, MetaInv, BodyInv
  <2> QED
    BY <1>2, <2>1, <2>2 DEF ArchiveInv
<1>4. CASE CreateMeta(c)
  <2>1. HandlerInv' /\ IndexedInv'
    BY <1>1, <1>4 DEF CreateMeta, ArchiveInv, TypeOK, HandlerInv, IndexedInv
  <2>2. MetaInv' /\ BodyInv'
    BY <1>1, <1>4 DEF CreateMeta, ArchiveInv, TypeOK, MetaInv, BodyInv
  <2> QED
    BY <1>2, <2>1, <2>2 DEF ArchiveInv
<1>5. CASE WriteMeta(c)
  <2>1. HandlerInv' /\ IndexedInv'
    BY <1>1, <1>5 DEF WriteMeta, ArchiveInv, TypeOK, HandlerInv, IndexedInv
  <2>2. MetaInv' /\ BodyInv'
    BY <1>1, <1>5 DEF WriteMeta, ArchiveInv, TypeOK, MetaInv, BodyInv
  <2> QED
    BY <1>2, <2>1, <2>2 DEF ArchiveInv
<1>6. CASE CreateBody(c)
  <2>1. HandlerInv' /\ IndexedInv'
    BY <1>1, <1>6 DEF CreateBody, ArchiveInv, TypeOK, HandlerInv, IndexedInv
  <2>2. MetaInv' /\ BodyInv'
    BY <1>1, <1>6 DEF CreateBody, ArchiveInv, TypeOK, MetaInv, BodyInv
  <2> QED
    BY <1>2, <2>1, <2>2 DEF ArchiveInv
<1>7. CASE WriteBody(c)
  <2>0. HashOf[c] \in Hashes
    BY <1>1, <1>7 DEF WriteBody, ArchiveInv, HandlerInv
  <2>1. HandlerInv' /\ IndexedInv'
    BY <1>1, <1>7, <2>0 DEF WriteBody, ArchiveInv, TypeOK, HandlerInv, IndexedInv
  <2>2. MetaInv' /\ BodyInv'
    BY <1>1, <1>7, <2>0 DEF WriteBody, ArchiveInv, TypeOK, MetaInv, BodyInv
  <2> QED
    BY <1>2, <2>1, <2>2 DEF ArchiveInv
<1>8. CASE Fail(c)
  <2>1. HandlerInv' /\ IndexedInv'
    BY <1>1, <1>8 DEF Fail, ArchiveInv, TypeOK, HandlerInv, IndexedInv
  <2>2. MetaInv' /\ BodyInv'
    BY <1>1, <1>8 DEF Fail, ArchiveInv, TypeOK, MetaInv, BodyInv
  <2> QED
    BY <1>2, <2>1, <2>2 DEF ArchiveInv
<1>9. CASE Record(c)
  <2>1. HandlerInv' /\ IndexedInv'
    BY <1>1, <1>9 DEF Record, ArchiveInv, TypeOK, HandlerInv, IndexedInv
  <2>2. MetaInv' /\ BodyInv'
    BY <1>1, <1>9 DEF Record, ArchiveInv, TypeOK, MetaInv, BodyInv
  <2> QED
    BY <1>2, <2>1, <2>2 DEF ArchiveInv
<1> QED
  BY <1>3, <1>4, <1>5, <1>6, <1>7, <1>8, <1>9

\* The processes come and go, the files and the handlers' labels stay.
LEMMA ProcessArchive ==
  ASSUME ArchiveInv, Finalize \/ Exit \/ Start \/ Load \/ UNCHANGED vars
  PROVE  ArchiveInv'
<1> USE ArchiveAssumption DEF vars, files, process
<1>1. UNCHANGED <<meta, body, pc>>
  BY DEF Finalize, Exit, Start, Load
<1>2. index' \cup file' \cup loaded' \subseteq index \cup file \cup loaded
  BY DEF Finalize, Exit, Start, Load
<1>3. TypeOK'
  <2>1. starts' \in 0 .. MaxStarts
    BY DEF ArchiveInv, TypeOK, Finalize, Exit, Start, Load
  <2>2. dead' \subseteq Captures /\ closed' \in BOOLEAN /\ running' \in BOOLEAN
    BY DEF ArchiveInv, TypeOK, Finalize, Exit, Start, Load
  <2> QED
    BY <1>1, <1>2, <2>1, <2>2 DEF ArchiveInv, TypeOK
<1>4. HandlerInv' /\ IndexedInv' /\ MetaInv' /\ BodyInv'
  BY <1>1, <1>2 DEF ArchiveInv, HandlerInv, IndexedInv, MetaInv, BodyInv
<1> QED
  BY <1>3, <1>4 DEF ArchiveInv

LEMMA NextArchive == ArchiveInv /\ [Next]_vars => ArchiveInv'
  BY StepArchive, ProcessArchive DEF Next

\* What an index lists can be read back, unless a handler was cut short: a
\* capture is indexed only after its files, and files are never removed.
THEOREM ArchiveReadsBack == Spec => []IndexedReadsBack
  BY InitArchive, NextArchive, InvReadsBack, PTL DEF Spec
------------------------------------------------------------------------------
(***************************************************************************)
(* Numbers and recursion.  The library's induction theorems have an        *)
(* operator as parameter; here sets and functions take its place.          *)
(***************************************************************************)
\* Induction, of a set instead of an operator: n is not the first number missing,
\* since then the missing ones up to n map to those below n by one step down.
LEMMA SetInduction ==
  ASSUME NEW S, 0 \in S, \A n \in Nat : n \in S => n + 1 \in S
  PROVE  \A n \in Nat : n \in S
<1> SUFFICES ASSUME NEW n \in Nat, n \notin S PROVE FALSE
  OBVIOUS
<1> DEFINE A == (0 .. n) \ S
           f == [i \in A |-> i - 1]
<1>1. IsFiniteSet(A) /\ IsFiniteSet(A \ {n}) /\ n \in A
  <2>1. IsFiniteSet(0 .. n) /\ A \in SUBSET (0 .. n) /\ n \in 0 .. n
    BY FS_Interval
  <2> HIDE DEF A
  <2>2. IsFiniteSet(A) /\ IsFiniteSet(A \ {n})
    BY <2>1, FS_Subset, FS_RemoveElement
  <2> QED
    BY <2>1, <2>2 DEF A
<1>2. Cardinality(A \ {n}) = Cardinality(A) - 1 /\ Cardinality(A) \in Nat
  BY <1>1, FS_RemoveElement, FS_CardinalityType
<1>3. f \in [A -> A \ {n}]
  <2> SUFFICES ASSUME NEW i \in A PROVE i - 1 \in A \ {n}
    OBVIOUS
  <2>1. i \in Nat /\ i # 0 /\ i <= n
    OBVIOUS
  <2>2. i - 1 \in Nat /\ (i - 1) + 1 = i
    BY <2>1
  <2>3. i - 1 \notin S
    BY <2>2
  <2> QED
    BY <2>1, <2>2, <2>3
<1>4. PICK x, y \in A : x # y /\ f[x] = f[y]
  <2> HIDE DEF A, f
  <2>1. Cardinality(A \ {n}) < Cardinality(A)
    BY <1>2
  <2> QED
    BY <1>1, <1>3, <2>1, FS_PigeonHole
<1>5. x - 1 = y - 1 /\ x \in Nat /\ y \in Nat
  BY <1>4
<1> QED
  BY <1>4, <1>5

LEMMA LeastNumber ==
  ASSUME NEW S, S \subseteq Nat, S # {}
  PROVE  Min(S) \in S /\ \A n \in S : Min(S) <= n
<1> DEFINE T == {n \in Nat : \A m \in 0 .. n : m \notin S}
<1>1. SUFFICES \E n \in S : \A m \in S : n <= m
  BY DEF Min
<1>2. SUFFICES ASSUME \A n \in S : \E m \in S : ~(n <= m) PROVE FALSE
  OBVIOUS
<1>3. 0 \in T
  <2>1. 0 \notin S
    BY <1>2
  <2> QED
    BY <2>1
<1>4. ASSUME NEW n \in Nat, n \in T PROVE n + 1 \in T
  <2>1. \A m \in 0 .. n + 1 : m \in 0 .. n \/ m = n + 1
    OBVIOUS
  <2>2. n + 1 \notin S
    <3> SUFFICES ASSUME n + 1 \in S PROVE FALSE
      OBVIOUS
    <3>1. PICK m \in S : ~(n + 1 <= m)
      BY <1>2
    <3>2. m \in 0 .. n
      BY <3>1
    <3> QED
      BY <1>4, <3>1, <3>2
  <2> QED
    BY <1>4, <2>1, <2>2
<1> HIDE DEF T
<1>5. \A n \in Nat : n \in T
  BY <1>3, <1>4, SetInduction
<1>6. PICK n \in Nat : n \in S
  OBVIOUS
<1> QED
  BY <1>5, <1>6 DEF T

\* f is computed from first by a step for each number up to n.
Runs(f, V, first, step, n) ==
  f \in [0 .. n -> V] /\ f[0] = first /\ \A i \in 1 .. n : f[i] = step[i][f[i - 1]]

\* A recursive function whose values stay in V exists.
LEMMA Recursion ==
  ASSUME NEW V, NEW first, NEW step, NEW N,
         N \in Nat, first \in V, step \in [Nat -> [V -> V]]
  PROVE  \E f : Runs(f, V, first, step, N)
<1> DEFINE S == {n \in Nat : \E f : Runs(f, V, first, step, n)}
<1>1. 0 \in S
  <2>1. Runs([i \in 0 .. 0 |-> first], V, first, step, 0)
    BY DEF Runs
  <2> QED
    BY <2>1
<1>2. ASSUME NEW n \in Nat, n \in S PROVE n + 1 \in S
  <2>1. PICK f : Runs(f, V, first, step, n)
    BY <1>2
  <2> DEFINE g == [i \in 0 .. n + 1 |-> IF i = n + 1 THEN step[n + 1][f[n]] ELSE f[i]]
  <2>2. step[n + 1][f[n]] \in V
    BY <2>1 DEF Runs
  <2>3. g \in [0 .. n + 1 -> V] /\ g[0] = first
    BY <2>1, <2>2 DEF Runs
  <2>4. ASSUME NEW i \in 1 .. n + 1 PROVE g[i] = step[i][g[i - 1]]
    <3>1. CASE i = n + 1
      BY <3>1
    <3>2. CASE i # n + 1
      <4>1. i \in 1 .. n /\ i - 1 \in 0 .. n /\ i - 1 # n + 1 /\ i \in 0 .. n
        BY <3>2
      <4> QED
        BY <2>1, <4>1, <3>2 DEF Runs
    <3> QED
      BY <3>1, <3>2
  <2> HIDE DEF g
  <2>5. Runs(g, V, first, step, n + 1)
    BY <2>3, <2>4 DEF Runs
  <2> QED
    BY <2>3, <2>5
<1> HIDE DEF S
<1>3. N \in S
  BY <1>1, <1>2, SetInduction
<1> QED
  BY <1>3 DEF S

------------------------------------------------------------------------------
(***************************************************************************)
(* IndexedGetsBack.                                                        *)
(***************************************************************************)
\* A file describes a capture of its own URL that somebody has handled, and
\* only such captures are recorded.
DescribedInv ==
  /\ \A u \in Urls : meta[u] \in Captures => UrlOf[meta[u]] = u /\ pc[meta[u]] # "none"
  /\ \A c \in index \cup file \cup loaded : pc[c] # "none"

LEMMA NextDescribed ==
  ArchiveInv /\ DescribedInv /\ [Next]_vars => DescribedInv'
<1> SUFFICES ASSUME ArchiveInv, DescribedInv, [Next]_vars PROVE DescribedInv'
  OBVIOUS
<1> USE ArchiveAssumption DEF ArchiveInv, TypeOK, DescribedInv, files, process
<1>1. ASSUME NEW c \in Captures,
             \/ Handle(c) \/ CreateMeta(c) \/ CreateBody(c) \/ WriteBody(c) \/ Fail(c)
             \/ Record(c)
      PROVE  DescribedInv'
  <2>1. /\ UNCHANGED meta \/ meta' = [meta EXCEPT ![UrlOf[c]] = Empty]
        /\ index' \subseteq index \cup {c} /\ UNCHANGED <<file, loaded>>
        /\ index' # index => pc'[c] # "none"
        /\ \A d \in Captures : pc'[d] = pc[d] \/ pc'[d] # "none"
    BY <1>1 DEF Handle, CreateMeta, CreateBody, WriteBody, Fail, Record, Step
  <2>2. \A u \in Urls : meta'[u] \in Captures => meta'[u] = meta[u]
    BY <2>1
  <2>3. \A d \in index' \cup file' \cup loaded' : pc'[d] # "none"
    BY <2>1
  <2> QED
    BY <2>1, <2>2, <2>3
<1>2. ASSUME NEW c \in Captures, WriteMeta(c) PROVE DescribedInv'
  <2>1. /\ meta' = [meta EXCEPT ![UrlOf[c]] = c] /\ pc'[c] # "none"
        /\ UNCHANGED <<index, file, loaded>>
        /\ \A d \in Captures : pc'[d] = pc[d] \/ pc'[d] # "none"
    BY <1>2 DEF WriteMeta, Step
  <2> QED
    BY <2>1
<1>3. ASSUME Finalize \/ Exit \/ Start \/ Load \/ UNCHANGED vars PROVE DescribedInv'
  <2>1. /\ UNCHANGED <<meta, pc>>
        /\ index' \cup file' \cup loaded' \subseteq index \cup file \cup loaded
    BY <1>3 DEF Finalize, Exit, Start, Load, vars
  <2> QED
    BY <2>1
<1> QED
  BY ONLY [Next]_vars, <1>1, <1>2, <1>3 DEF Next

\* What FindIndex finds is a record of the URL in the loaded index.
LEMMA FindsRecord ==
  ASSUME TypeOK, NEW u, FindIndex(u) # 0
  PROVE  Order[FindIndex(u)] \in loaded /\ UrlOf[Order[FindIndex(u)]] = u
<1> DEFINE at == Positions(u, DOMAIN Order)
<1>1. at # {} /\ FindIndex(u) = Min(at)
  BY DEF FindIndex
<1>2. DOMAIN Order \subseteq Nat
  BY ReadingAssumption
<1>3. at \subseteq Nat
  BY <1>2 DEF Positions
<1> HIDE DEF at
<1>4. Min(at) \in at
  BY <1>1, <1>3, LeastNumber
<1> QED
  BY <1>1, <1>4 DEF at, Positions

\* It finds one if there is one.
LEMMA FindsIt ==
  ASSUME TypeOK, NEW c \in loaded
  PROVE  FindIndex(UrlOf[c]) # 0
<1> DEFINE at == Positions(UrlOf[c], DOMAIN Order)
<1>1. PICK i \in Nat : i \in 1 .. Len(Order) /\ Order[i] = c
  BY ReadingAssumption DEF TypeOK, Contains
<1>2. at # {} /\ at \subseteq Nat /\ 0 \notin at
  BY <1>1, ReadingAssumption DEF Positions
<1> HIDE DEF at
<1>3. Min(at) # 0
  BY <1>2, LeastNumber
<1> QED
  BY <1>2, <1>3 DEF FindIndex, at

LEMMA InvGetsBack ==
  ArchiveInv /\ DescribedInv /\ IndexedReadsBack => IndexedGetsBack
<1> SUFFICES ASSUME ArchiveInv, DescribedInv, IndexedReadsBack, NEW c \in loaded,
                    \A d \in Captures \ {c} : UrlOf[d] = UrlOf[c] => pc[d] = "none",
                    ~CutMeta(c), ~CutBody(c), HashOf[c] # None
             PROVE  Get(UrlOf[c]) = [of |-> c, body |-> HashOf[c]]
  BY DEF IndexedGetsBack
<1>1. TypeOK /\ c \in Captures /\ UrlOf[c] \in Urls
  BY ArchiveAssumption DEF ArchiveInv, TypeOK
<1>2. meta[UrlOf[c]] \in Captures /\ body[HashOf[c]] = "whole"
  BY DEF IndexedReadsBack
<1>3. meta[UrlOf[c]] = c
  BY <1>1, <1>2 DEF DescribedInv
<1>4. \A d \in loaded : UrlOf[d] = UrlOf[c] => d = c
  BY <1>1 DEF DescribedInv, TypeOK
<1>5. FindIndex(UrlOf[c]) # 0 /\ Order[FindIndex(UrlOf[c])] = c
  BY <1>1, <1>4, FindsIt, FindsRecord
<1> QED
  BY <1>1, <1>2, <1>3, <1>5 DEF Get

\* A page of a loaded index is read back with its own description and body, for
\* every set of captures, while others are written and after any restart,
\* unless another capture shares its URL or a handler was cut short.
THEOREM PagesGetBack == Spec => []IndexedGetsBack
<1>1. Init => DescribedInv
  BY ArchiveAssumption DEF Init, DescribedInv
<1> QED
  BY <1>1, InitArchive, NextArchive, NextDescribed, InvReadsBack, InvGetsBack, PTL DEF Spec

------------------------------------------------------------------------------
(***************************************************************************)
(* CollectionIsNewest.                                                     *)
(***************************************************************************)
\* What is read from a walk.
Resources == [of : Captures \cup OldCaptures, body : Hashes]

LEMMA GetTyped ==
  ASSUME TypeOK, NEW u \in Urls
  PROVE  Get(u) \in Resources \cup {None}
<1> DEFINE i == FindIndex(u)
<1>1. CASE i = 0
  BY <1>1 DEF Get
<1>2. CASE i # 0
  <2>1. Order[i] \in Captures
    BY <1>2, FindsRecord DEF TypeOK
  <2>2. HashOf[Order[i]] \in Hashes \cup {None}
    BY <2>1, ArchiveAssumption
  <2> QED
    BY <2>2 DEF Get, Resources
<1> QED
  BY <1>1, <1>2

LEMMA WalkGetTyped ==
  ASSUME TypeOK, NEW w \in {"live", "old"}, NEW u \in Urls
  PROVE  WalkGet(w, u) \in Resources \cup {None}
  BY GetTyped, ReadingAssumption DEF WalkGet, Resources

\* What the loop over the walks of a collection has read.
Reads(read, walks, u) ==
  /\ read[0] = [rsc |-> None, failed |-> FALSE]
  /\ \A i \in 1 .. Len(walks) : read[i] = Visit(read[i - 1], WalkGet(walks[i], u))

LEMMA CollectionReads ==
  ASSUME TypeOK, NEW walks \in Collections, NEW u \in Urls
  PROVE  \E read : /\ Reads(read, walks, u)
                   /\ CollectionGet(walks, u) = IF read[Len(walks)].failed THEN None
                                                ELSE read[Len(walks)].rsc
<1> DEFINE N == Len(walks)
           V == [rsc : Resources \cup {None}, failed : BOOLEAN]
           first == [rsc |-> None, failed |-> FALSE]
           step == [i \in Nat |-> [r \in V |->
                      IF i \in 1 .. N THEN Visit(r, WalkGet(walks[i], u)) ELSE r]]
           read == CHOOSE read : read =
                     [i \in 0 .. N |->
                        IF i = 0 THEN first ELSE Visit(read[i - 1], WalkGet(walks[i], u))]
<1>1. N \in Nat /\ \A i \in 1 .. N : walks[i] \in {"live", "old"}
  BY ReadingAssumption
<1>2. step \in [Nat -> [V -> V]]
  <2> SUFFICES ASSUME NEW i \in 1 .. N, NEW r \in V
               PROVE  Visit(r, WalkGet(walks[i], u)) \in V
    OBVIOUS
  <2>1. WalkGet(walks[i], u) \in Resources \cup {None}
    BY <1>1, WalkGetTyped
  <2> QED
    BY <2>1 DEF Visit
<1>3. PICK f : Runs(f, V, first, step, N)
  <2>1. first \in V
    OBVIOUS
  <2> HIDE DEF step, V, N, first, read
  <2> QED
    BY <1>1, <1>2, <2>1, Recursion
<1>4. f = [i \in 0 .. N |->
             IF i = 0 THEN first ELSE Visit(f[i - 1], WalkGet(walks[i], u))]
  <2>1. ASSUME NEW i \in 1 .. N PROVE f[i] = Visit(f[i - 1], WalkGet(walks[i], u))
    <3> HIDE DEF V, first
    <3>1. i - 1 \in 0 .. N /\ i \in Nat
      BY <1>1
    <3>2. f[i - 1] \in V
      BY <1>3, <3>1 DEF Runs
    <3> QED
      BY <1>3, <3>1, <3>2 DEF Runs
  <2>2. \A i \in 0 .. N : i # 0 => i \in 1 .. N
    BY <1>1
  <2> HIDE DEF first, step, V, N
  <2> QED
    BY <1>3, <2>1, <2>2 DEF Runs
<1>5. read = [i \in 0 .. N |->
                IF i = 0 THEN first ELSE Visit(read[i - 1], WalkGet(walks[i], u))]
  <2> HIDE DEF N, first
  <2> QED
    BY <1>4, Zenon
<1>6. Reads(read, walks, u)
  <2> HIDE DEF read
  <2>1. read[0] = first
    BY <1>1, <1>5
  <2>2. ASSUME NEW i \in 1 .. N PROVE read[i] = Visit(read[i - 1], WalkGet(walks[i], u))
    <3>1. i \in 0 .. N /\ i # 0
      BY <1>1
    <3> HIDE DEF N
    <3> QED
      BY <1>5, <3>1
  <2> QED
    BY <2>1, <2>2 DEF Reads
<1>7. CollectionGet(walks, u) = IF read[N].failed THEN None ELSE read[N].rsc
  BY DEF CollectionGet
<1> QED
  BY <1>6, <1>7

\* After n walks: whether one of them failed, and if none did, the newest of
\* them, the first of equals.
NewestSoFar(r, walks, u, n) ==
  LET rsc(i) == WalkGet(walks[i], u)
      time(i) == TimeOf[rsc(i).of]
  IN  /\ r \in [rsc : Resources \cup {None}, failed : BOOLEAN]
      /\ r.failed <=> \E j \in 1 .. n : rsc(j) = None
      /\ n = 0 => r.rsc = None
      /\ n # 0 /\ ~r.failed =>
           \E i \in 1 .. n :
             /\ r.rsc = rsc(i)
             /\ \A j \in 1 .. n : time(j) <= time(i) /\ (time(j) = time(i) => i <= j)

\* One more walk.
LEMMA VisitNewest ==
  ASSUME TypeOK, NEW walks \in Collections, NEW u \in Urls, NEW n \in Nat, n < Len(walks),
         NEW r, NewestSoFar(r, walks, u, n)
  PROVE  NewestSoFar(Visit(r, WalkGet(walks[n + 1], u)), walks, u, n + 1)
<1> DEFINE rsc(i) == WalkGet(walks[i], u)
           time(i) == TimeOf[rsc(i).of]
           v == Visit(r, rsc(n + 1))
<1>1. Len(walks) \in Nat /\ \A i \in 1 .. Len(walks) : walks[i] \in {"live", "old"}
  BY ReadingAssumption
<1>2. \A i \in 1 .. n + 1 :
        rsc(i) \in Resources \cup {None} /\ (rsc(i) # None => time(i) \in Nat)
  <2> SUFFICES ASSUME NEW i \in 1 .. n + 1
               PROVE rsc(i) \in Resources \cup {None} /\ (rsc(i) # None => time(i) \in Nat)
    OBVIOUS
  <2>1. rsc(i) \in Resources \cup {None}
    BY <1>1, WalkGetTyped
  <2> HIDE DEF rsc
  <2> QED
    BY <2>1, ReadingAssumption DEF Resources
<1>3. \A j : j \in 1 .. n + 1 <=> j \in 1 .. n \/ j = n + 1
  OBVIOUS
<1>4. /\ r \in [rsc : Resources \cup {None}, failed : BOOLEAN]
      /\ r.failed <=> \E j \in 1 .. n : rsc(j) = None
      /\ n = 0 => r.rsc = None
      /\ n # 0 /\ ~r.failed =>
           \E i \in 1 .. n :
             /\ r.rsc = rsc(i)
             /\ \A j \in 1 .. n : time(j) <= time(i) /\ (time(j) = time(i) => i <= j)
  BY DEF NewestSoFar
<1> HIDE DEF rsc
<1>5. v \in [rsc : Resources \cup {None}, failed : BOOLEAN]
  BY <1>2, <1>3, <1>4 DEF Visit
<1>6. v.failed <=> \E j \in 1 .. n + 1 : rsc(j) = None
  BY <1>2, <1>3, <1>4 DEF Visit
<1>7. ASSUME ~v.failed
      PROVE  \E i \in 1 .. n + 1 :
               /\ v.rsc = rsc(i)
               /\ \A j \in 1 .. n + 1 : time(j) <= time(i) /\ (time(j) = time(i) => i <= j)
  <2>1. ~r.failed /\ \A j \in 1 .. n + 1 : rsc(j) # None /\ time(j) \in Nat
    BY <1>2, <1>3, <1>4, <1>6, <1>7
  <2>2. CASE n = 0
    <3>1. v.rsc = rsc(n + 1)
      BY <1>4, <2>1, <2>2 DEF Visit
    <3> QED
      BY <2>1, <2>2, <3>1
  <2>3. CASE n # 0
    <3>1. PICK i \in 1 .. n :
            /\ r.rsc = rsc(i)
            /\ \A j \in 1 .. n : time(j) <= time(i) /\ (time(j) = time(i) => i <= j)
      BY <1>4, <2>1, <2>3
    <3>2. /\ time(n + 1) > time(i) => v.rsc = rsc(n + 1)
          /\ ~(time(n + 1) > time(i)) => v.rsc = rsc(i)
      BY <1>3, <1>4, <2>1, <3>1 DEF Visit
    <3>3. \A j \in 1 .. n + 1 : time(j) \in Nat
      BY <2>1
    <3> HIDE DEF time, v
    <3>4. CASE time(n + 1) > time(i)
      <4>1. \A j \in 1 .. n + 1 :
              time(j) <= time(n + 1) /\ (time(j) = time(n + 1) => n + 1 <= j)
        BY <1>3, <3>1, <3>3, <3>4
      <4> QED
        BY <3>2, <3>4, <4>1
    <3>5. CASE ~(time(n + 1) > time(i))
      <4>1. i \in 1 .. n + 1 /\ i <= n + 1
        OBVIOUS
      <4>2. \A j \in 1 .. n + 1 : time(j) <= time(i) /\ (time(j) = time(i) => i <= j)
        BY <1>3, <3>1, <3>3, <3>5, <4>1
      <4> QED
        BY <3>2, <3>5, <4>1, <4>2
    <3> QED
      BY <3>4, <3>5
  <2> QED
    BY <2>2, <2>3
<1> HIDE DEF time, v
<1>8. n + 1 # 0
  OBVIOUS
<1> QED
  BY <1>5, <1>6, <1>7, <1>8 DEF NewestSoFar, rsc, time, v

LEMMA InvNewest == TypeOK => CollectionIsNewest
<1> SUFFICES ASSUME TypeOK, NEW walks \in Collections, NEW u \in Urls
             PROVE  LET rsc(i) == WalkGet(walks[i], u)
                        time(i) == TimeOf[rsc(i).of]
                        newest(i) == \A j \in DOMAIN walks :
                                       time(j) <= time(i) /\ (time(j) = time(i) => i <= j)
                        answer == CollectionGet(walks, u)
                    IN  IF walks = <<>> \/ \E i \in DOMAIN walks : rsc(i) = None
                        THEN answer = None
                        ELSE \E i \in DOMAIN walks : newest(i) /\ answer = rsc(i)
  BY DEF CollectionIsNewest
<1> DEFINE N == Len(walks)
<1>1. N \in Nat /\ DOMAIN walks = 1 .. N /\ (walks = <<>> <=> N = 0)
  BY ReadingAssumption
<1>2. PICK read :
        /\ Reads(read, walks, u)
        /\ CollectionGet(walks, u) = IF read[N].failed THEN None ELSE read[N].rsc
  BY CollectionReads
<1> DEFINE S == {n \in Nat : n <= N => NewestSoFar(read[n], walks, u, n)}
<1>3. 0 \in S
  <2>1. read[0] = [rsc |-> None, failed |-> FALSE]
    BY <1>2 DEF Reads
  <2>2. NewestSoFar(read[0], walks, u, 0)
    BY <2>1 DEF NewestSoFar
  <2> QED
    BY <2>2
<1>4. ASSUME NEW n \in Nat, n \in S PROVE n + 1 \in S
  <2> SUFFICES ASSUME n + 1 <= N PROVE NewestSoFar(read[n + 1], walks, u, n + 1)
    OBVIOUS
  <2>1. n < N /\ NewestSoFar(read[n], walks, u, n)
    BY <1>1, <1>4
  <2>2. n + 1 \in 1 .. N /\ (n + 1) - 1 = n
    BY <1>1
  <2>3. read[n + 1] = Visit(read[n], WalkGet(walks[n + 1], u))
    BY <1>2, <2>2 DEF Reads
  <2> QED
    BY <2>1, <2>3, VisitNewest
<1> HIDE DEF S
<1>5. NewestSoFar(read[N], walks, u, N)
  <2>1. N \in S
    BY ONLY <1>1, <1>3, <1>4, SetInduction
  <2> QED
    BY <1>1, <2>1 DEF S
<1> HIDE DEF N
<1> QED
  BY <1>1, <1>2, <1>5 DEF NewestSoFar

\* A collection has the newest capture of a URL that all of its walks have, the
\* first of equals, for every number of walks and whatever is being written.
THEOREM CollectionsFindNewest == Spec => []CollectionIsNewest
  BY InitArchive, NextArchive, InvNewest, PTL DEF Spec, ArchiveInv

------------------------------------------------------------------------------
(***************************************************************************)
(* ResolvedIsChainEnd.                                                     *)
(***************************************************************************)
\* What a chain of redirects ends with, if it ends with a resource.
Answer(end) == IF end # None /\ RedirectTo[end.of] = None THEN end ELSE None

LEMMA CollectionGetTyped ==
  ASSUME TypeOK, NEW walks \in Collections, NEW u \in Urls
  PROVE  CollectionGet(walks, u) \in Resources \cup {None}
<1>1. \A i \in DOMAIN walks : walks[i] \in {"live", "old"}
  BY ReadingAssumption
<1>2. \A i \in DOMAIN walks : WalkGet(walks[i], u) \in Resources \cup {None}
  BY <1>1, WalkGetTyped
<1> QED
  BY <1>2, InvNewest DEF CollectionIsNewest

LEMMA InvChainEnd == TypeOK => ResolvedIsChainEnd
<1> SUFFICES ASSUME TypeOK, NEW walks \in Collections, NEW url \in Urls
             PROVE  LET after[n \in 0 .. MaxRedirects - 1] ==
                          [u \in Urls |->
                             LET rsc == CollectionGet(walks, u) IN
                             IF n > 0 /\ rsc # None /\ RedirectTo[rsc.of] # None
                             THEN after[n - 1][RedirectTo[rsc.of]]
                             ELSE rsc]
                        end == after[MaxRedirects - 1][url]
                    IN  ResolvedResource(walks, url) =
                          IF end # None /\ RedirectTo[end.of] = None THEN end ELSE None
  BY DEF ResolvedIsChainEnd
<1> DEFINE get(u) == CollectionGet(walks, u)
           target(u) == RedirectTo[get(u).of]
           N == MaxRedirects - 1
           after == CHOOSE after : after =
             [n \in 0 .. N |-> [u \in Urls |->
                IF n > 0 /\ get(u) # None /\ target(u) # None
                THEN after[n - 1][target(u)] ELSE get(u)]]
           follow == CHOOSE follow : follow =
             [n \in 0 .. N |-> [u \in Urls |->
                IF get(u) = None THEN None
                ELSE IF target(u) = None THEN get(u)
                ELSE IF n + 1 = MaxRedirects THEN None
                ELSE follow[n + 1][target(u)]]]
<1>1. ResolvedResource(walks, url) = follow[0][url]
  BY DEF ResolvedResource
<1>2. SUFFICES ResolvedResource(walks, url) = Answer(after[N][url])
  BY DEF Answer
<1>3. N \in Nat /\ MaxRedirects = N + 1
  BY ReadingAssumption
<1>4. \A u \in Urls : /\ get(u) \in Resources \cup {None}
                      /\ get(u) # None /\ target(u) # None => target(u) \in Urls
  <2> SUFFICES ASSUME NEW u \in Urls
               PROVE  /\ get(u) \in Resources \cup {None}
                      /\ get(u) # None /\ target(u) # None => target(u) \in Urls
    OBVIOUS
  <2>1. get(u) \in Resources \cup {None}
    BY CollectionGetTyped
  <2> HIDE DEF get
  <2> QED
    BY <2>1, ReadingAssumption DEF Resources
<1> HIDE DEF get, target
<1> DEFINE V == [Urls -> Resources \cup {None}]
           first == [u \in Urls |-> get(u)]
           step == [n \in Nat |-> [g \in V |-> [u \in Urls |->
                      IF get(u) # None /\ target(u) # None THEN g[target(u)] ELSE get(u)]]]
<1>5. PICK f : Runs(f, V, first, step, N)
  <2>1. first \in V
    BY <1>4
  <2>2. step \in [Nat -> [V -> V]]
    BY <1>4
  <2> HIDE DEF V, first, step, N
  <2> QED
    BY <1>3, <2>1, <2>2, Recursion
<1>6. after = [n \in 0 .. N |-> [u \in Urls |->
                IF n > 0 /\ get(u) # None /\ target(u) # None
                THEN after[n - 1][target(u)] ELSE get(u)]]
  <2>1. ASSUME NEW n \in 0 .. N
        PROVE  f[n] = [u \in Urls |-> IF n > 0 /\ get(u) # None /\ target(u) # None
                                      THEN f[n - 1][target(u)] ELSE get(u)]
    <3>1. CASE n = 0
      BY <1>5, <3>1 DEF Runs
    <3>2. CASE n # 0
      <4>1. n \in 1 .. N /\ n - 1 \in 0 .. N /\ n \in Nat /\ n > 0
        BY <1>3, <3>2
      <4>2. f[n] = step[n][f[n - 1]] /\ f[n - 1] \in V
        BY <1>5, <4>1 DEF Runs
      <4>3. step[n][f[n - 1]] =
              [u \in Urls |-> IF get(u) # None /\ target(u) # None
                              THEN f[n - 1][target(u)] ELSE get(u)]
        BY <4>1, <4>2
      <4> QED
        BY <4>1, <4>2, <4>3
    <3> QED
      BY <3>1, <3>2
  <2> HIDE DEF N, V, first, step
  <2>2. f = [n \in 0 .. N |-> [u \in Urls |->
               IF n > 0 /\ get(u) # None /\ target(u) # None
               THEN f[n - 1][target(u)] ELSE get(u)]]
    BY <1>5, <2>1 DEF Runs
  <2> QED
    BY <2>2, Zenon
<1> HIDE DEF V, first, step
<1>7. \A n \in 0 .. N, u \in Urls :
        after[n][u] = IF n > 0 /\ get(u) # None /\ target(u) # None
                      THEN after[n - 1][target(u)] ELSE get(u)
  <2> SUFFICES ASSUME NEW n \in 0 .. N, NEW u \in Urls
               PROVE  after[n][u] = IF n > 0 /\ get(u) # None /\ target(u) # None
                                    THEN after[n - 1][target(u)] ELSE get(u)
    OBVIOUS
  <2> HIDE DEF after, N
  <2>1. after[n] = [v \in Urls |-> IF n > 0 /\ get(v) # None /\ target(v) # None
                                  THEN after[n - 1][target(v)] ELSE get(v)]
    BY <1>6, Zenon
  <2> QED
    BY <2>1, Zenon
<1> DEFINE F == [n \in 0 .. N |-> [u \in Urls |-> Answer(after[N - n][u])]]
<1>8. F = [n \in 0 .. N |-> [u \in Urls |->
                IF get(u) = None THEN None
                ELSE IF target(u) = None THEN get(u)
                ELSE IF n + 1 = MaxRedirects THEN None
                ELSE F[n + 1][target(u)]]]
  <2> HIDE DEF after
  <2>1. ASSUME NEW n \in 0 .. N, NEW u \in Urls
        PROVE  Answer(after[N - n][u]) = IF get(u) = None THEN None
                                         ELSE IF target(u) = None THEN get(u)
                                         ELSE IF n + 1 = MaxRedirects THEN None
                                         ELSE F[n + 1][target(u)]
    <3>1. N - n \in 0 .. N
      BY <1>3
    <3>2. after[N - n][u] = IF N - n > 0 /\ get(u) # None /\ target(u) # None
                            THEN after[(N - n) - 1][target(u)] ELSE get(u)
      BY <1>7, <3>1
    <3>3. CASE n = N
      <4>1. ~(N - n > 0) /\ n + 1 = MaxRedirects
        BY <1>3, <3>3
      <4> QED
        BY <3>2, <4>1 DEF Answer, target
    <3>4. CASE n # N
      <4>1. /\ N - n > 0 /\ n + 1 # MaxRedirects /\ n + 1 \in 0 .. N
            /\ (N - n) - 1 = N - (n + 1)
        BY <1>3, <3>4
      <4>2. target(u) \in Urls =>
              F[n + 1][target(u)] = Answer(after[N - (n + 1)][target(u)])
        BY <4>1
      <4> HIDE DEF F, N
      <4> QED
        BY <1>4, <3>2, <4>1, <4>2 DEF Answer, target
    <3> QED
      BY <3>3, <3>4
  <2> HIDE DEF N
  <2> QED
    BY <2>1
<1>9. follow = [n \in 0 .. N |-> [u \in Urls |->
                IF get(u) = None THEN None
                ELSE IF target(u) = None THEN get(u)
                ELSE IF n + 1 = MaxRedirects THEN None
                ELSE follow[n + 1][target(u)]]]
  <2> HIDE DEF F, N
  <2> QED
    BY <1>8, Zenon
<1> HIDE DEF F, after, follow, N
<1>10. \A n \in 0 .. N, u \in Urls :
         follow[n][u] = IF get(u) = None THEN None
                        ELSE IF target(u) = None THEN get(u)
                        ELSE IF n + 1 = MaxRedirects THEN None
                        ELSE follow[n + 1][target(u)]
  <2> SUFFICES ASSUME NEW n \in 0 .. N, NEW u \in Urls
               PROVE  follow[n][u] = IF get(u) = None THEN None
                                     ELSE IF target(u) = None THEN get(u)
                                     ELSE IF n + 1 = MaxRedirects THEN None
                                     ELSE follow[n + 1][target(u)]
    OBVIOUS
  <2>1. follow[n] = [v \in Urls |-> IF get(v) = None THEN None
                                   ELSE IF target(v) = None THEN get(v)
                                   ELSE IF n + 1 = MaxRedirects THEN None
                                   ELSE follow[n + 1][target(v)]]
    BY <1>9, Zenon
  <2> QED
    BY <2>1, Zenon
<1> DEFINE S == {k \in Nat : k <= N =>
                   \A u \in Urls : follow[N - k][u] = Answer(after[k][u])}
<1>11. 0 \in S
  <2>1. 0 \in 0 .. N /\ N \in 0 .. N /\ N - 0 = N
    BY <1>3
  <2>2. \A u \in Urls : after[0][u] = get(u)
    BY <1>7, <2>1
  <2>3. \A u \in Urls : follow[N][u] = IF get(u) = None THEN None
                                       ELSE IF target(u) = None THEN get(u)
                                       ELSE None
    BY <1>3, <1>10, <2>1
  <2> QED
    BY <2>1, <2>2, <2>3 DEF Answer, target
<1>12. ASSUME NEW k \in Nat, k \in S PROVE k + 1 \in S
  <2> SUFFICES ASSUME k + 1 <= N, NEW u \in Urls
               PROVE  follow[N - (k + 1)][u] = Answer(after[k + 1][u])
    OBVIOUS
  <2>1. /\ k + 1 \in 0 .. N /\ N - (k + 1) \in 0 .. N /\ k + 1 > 0 /\ (k + 1) - 1 = k
        /\ N - (k + 1) + 1 # MaxRedirects /\ N - (k + 1) + 1 = N - k
    BY <1>3
  <2>2. \A v \in Urls : follow[N - k][v] = Answer(after[k][v])
    BY <1>3, <1>12
  <2>3. after[k + 1][u] = IF get(u) # None /\ target(u) # None
                          THEN after[k][target(u)] ELSE get(u)
    BY <1>7, <2>1
  <2>4. follow[N - (k + 1)][u] = IF get(u) = None THEN None
                                 ELSE IF target(u) = None THEN get(u)
                                 ELSE follow[N - k][target(u)]
    BY <1>10, <2>1
  <2> QED
    BY <1>4, <2>2, <2>3, <2>4 DEF Answer, target
<1> HIDE DEF S
<1>13. N \in S
  BY <1>3, <1>11, <1>12, SetInduction
<1>14. N - N = 0
  BY <1>3
<1> QED
  BY <1>1, <1>3, <1>13, <1>14 DEF S

\* A redirect resolves to the end of its chain or to nothing, for every number
\* of redirects that are followed and every graph of them, loops included.
THEOREM RedirectsResolve == Spec => []ResolvedIsChainEnd
  BY InitArchive, NextArchive, InvChainEnd, PTL DEF Spec, ArchiveInv

------------------------------------------------------------------------------
(***************************************************************************)
(* PagesCoverIndex.                                                        *)
(***************************************************************************)
LEMMA AppendNext ==
  ASSUME NEW X, NEW s \in Seq(X), NEW m \in 1 .. Len(s), NEW n \in m .. Len(s)
  PROVE  Append(SubSeq(s, m, n - 1), s[n]) = SubSeq(s, m, n)
  OBVIOUS

\* An index is a sequence of captures, no longer than their order.
LEMMA IndexTyped ==
  Index \in Seq(Captures) /\ Len(Index) <= Len(Order)
<1> DEFINE V == Seq(Captures)
           N == Len(Order)
           step == [i \in Nat |-> [s \in V |->
                      IF i \in 1 .. N /\ Order[i] \in loaded THEN Append(s, Order[i])
                      ELSE s]]
           read == CHOOSE read : read = [i \in 0 .. N |->
                     IF i = 0 THEN <<>>
                     ELSE IF Order[i] \in loaded THEN Append(read[i - 1], Order[i])
                     ELSE read[i - 1]]
<1>1. N \in Nat /\ \A i \in 1 .. N : Order[i] \in Captures
  BY ReadingAssumption
<1>2. PICK f : Runs(f, V, <<>>, step, N)
  <2>1. step \in [Nat -> [V -> V]] /\ <<>> \in V
    BY <1>1
  <2> HIDE DEF V, step, N
  <2> QED
    BY <1>1, <2>1, Recursion
<1>3. read = [i \in 0 .. N |->
                IF i = 0 THEN <<>>
                ELSE IF Order[i] \in loaded THEN Append(read[i - 1], Order[i])
                ELSE read[i - 1]]
  <2>1. ASSUME NEW i \in 1 .. N
        PROVE  f[i] = IF Order[i] \in loaded THEN Append(f[i - 1], Order[i]) ELSE f[i - 1]
    <3>1. i \in Nat /\ i - 1 \in 0 .. N
      BY <1>1
    <3>2. f[i] = step[i][f[i - 1]] /\ f[i - 1] \in V
      BY <1>2, <3>1 DEF Runs
    <3> HIDE DEF V, N
    <3> QED
      BY <3>1, <3>2
  <2>2. \A i \in 0 .. N : i # 0 => i \in 1 .. N
    BY <1>1
  <2> HIDE DEF V, step, N
  <2>3. f = [i \in 0 .. N |->
               IF i = 0 THEN <<>>
               ELSE IF Order[i] \in loaded THEN Append(f[i - 1], Order[i])
               ELSE f[i - 1]]
    BY <1>2, <2>1, <2>2 DEF Runs
  <2> QED
    BY <2>3, Zenon
<1>4. Index = read[N]
  BY DEF Index
<1> DEFINE T == {i \in Nat : i <= N => read[i] \in Seq(Captures) /\ Len(read[i]) <= i}
<1> HIDE DEF read, N
<1>5. 0 \in T
  <2>1. read[0] = <<>>
    BY <1>1, <1>3
  <2> QED
    BY <2>1, EmptySeq, <<>> \in Seq(Captures), Len(<<>>) <= 0
<1>6. ASSUME NEW i \in Nat, i \in T PROVE i + 1 \in T
  <2> SUFFICES ASSUME i + 1 <= N
               PROVE  read[i + 1] \in Seq(Captures) /\ Len(read[i + 1]) <= i + 1
    OBVIOUS
  <2>1. i + 1 \in 0 .. N /\ i + 1 \in 1 .. N /\ i + 1 # 0 /\ (i + 1) - 1 = i
    BY <1>1
  <2>2. read[i + 1] = IF Order[i + 1] \in loaded THEN Append(read[i], Order[i + 1])
                      ELSE read[i]
    BY <1>3, <2>1
  <2>3. read[i] \in Seq(Captures) /\ Len(read[i]) <= i
    BY <1>1, <1>6
  <2> QED
    BY <1>1, <2>1, <2>2, <2>3
<1> HIDE DEF T
<1>7. N \in T
  BY <1>1, <1>5, <1>6, SetInduction
<1> QED
  BY <1>1, <1>4, <1>7 DEF T, N

\* Of the first i records, a page has those from offset + 1 to this one.
PageEnd(limit, offset, i) ==
  IF limit # 0 /\ i > offset + limit THEN offset + limit ELSE i

\* Paging takes a stretch of the index.
LEMMA PageIsPart ==
  ASSUME NEW limit \in Nat, NEW offset \in Nat
  PROVE  SortedIndex(limit, offset) =
           SubSeq(Index, offset + 1, PageEnd(limit, offset, Len(Index)))
<1> DEFINE N == Len(Index)
           end(i) == PageEnd(limit, offset, i)
           turn(page, i) ==
             IF page.limit = 0 /\ page.rsc # <<>> THEN page
             ELSE IF page.offset > 0
             THEN [rsc |-> page.rsc, limit |-> page.limit, offset |-> page.offset - 1]
             ELSE [rsc |-> Append(page.rsc, Index[i]), limit |-> page.limit - 1, offset |-> 0]
           first == [rsc |-> <<>>, limit |-> limit, offset |-> offset]
           at(i) == [rsc |-> SubSeq(Index, offset + 1, end(i)),
                     limit |-> IF i <= offset THEN limit ELSE limit - (end(i) - offset),
                     offset |-> IF i <= offset THEN offset - i ELSE 0]
           read == CHOOSE read : read =
                     [i \in 0 .. N |-> IF i = 0 THEN first ELSE turn(read[i - 1], i)]
<1>1. N \in Nat /\ Index \in Seq(Captures)
  BY IndexTyped
<1>2. SortedIndex(limit, offset) = read[N].rsc
  BY DEF SortedIndex
<1> HIDE DEF read
<1>3. at(0) = first
  BY <1>1 DEF PageEnd
<1>4. ASSUME NEW i \in 1 .. N PROVE at(i) = turn(at(i - 1), i)
  <2>1. CASE i <= offset
    <3>1. i - 1 <= offset /\ end(i) = i /\ end(i - 1) = i - 1 /\ i - 1 \in Nat
      BY <1>1, <2>1 DEF PageEnd
    <3>2. SubSeq(Index, offset + 1, i) = <<>> /\ SubSeq(Index, offset + 1, i - 1) = <<>>
      BY <1>1, <2>1, SubSeqEmpty
    <3>3. /\ at(i - 1) = [rsc |-> <<>>, limit |-> limit, offset |-> offset - i + 1]
          /\ at(i) = [rsc |-> <<>>, limit |-> limit, offset |-> offset - i]
      BY <1>1, <2>1, <3>1, <3>2
    <3>4. offset - i + 1 > 0 /\ (offset - i + 1) - 1 = offset - i
      BY <1>1, <2>1
    <3> DEFINE page == at(i - 1)
    <3>5. page.rsc = <<>> /\ page.limit = limit /\ page.offset = offset - i + 1
      BY <3>3
    <3> HIDE DEF page
    <3>6. turn(page, i) = [rsc |-> page.rsc, limit |-> page.limit, offset |-> page.offset - 1]
      BY <3>4, <3>5, Zenon
    <3> QED
      BY <3>3, <3>4, <3>5, <3>6, Zenon DEF page
  <2>2. CASE limit # 0 /\ i > offset + limit
    <3>1. /\ end(i) = offset + limit /\ end(i - 1) = offset + limit
          /\ ~(i <= offset) /\ ~(i - 1 <= offset)
      BY <2>2 DEF PageEnd
    <3>2. SubSeq(Index, offset + 1, offset + limit) # <<>>
      <4>1. /\ offset + 1 \in 1 .. N /\ offset + limit \in 1 .. N
            /\ offset + 1 <= offset + limit
        BY <1>1, <2>2
      <4> QED
        BY <1>1, <4>1
    <3>3. /\ at(i - 1) = [rsc |-> SubSeq(Index, offset + 1, offset + limit),
                         limit |-> 0, offset |-> 0]
          /\ at(i) = [rsc |-> SubSeq(Index, offset + 1, offset + limit),
                     limit |-> 0, offset |-> 0]
      <4>1. limit - (offset + limit - offset) = 0
        OBVIOUS
      <4>2. limit - (end(i) - offset) = 0 /\ limit - (end(i - 1) - offset) = 0
        BY <3>1, <4>1
      <4> QED
        BY <3>1, <4>2, Zenon
    <3> HIDE DEF at
    <3> QED
      BY <3>2, <3>3
  <2>3. CASE ~(i <= offset) /\ ~(limit # 0 /\ i > offset + limit)
    <3>1. end(i) = i /\ end(i - 1) = i - 1
      BY <2>3 DEF PageEnd
    <3>2. Append(SubSeq(Index, offset + 1, i - 1), Index[i]) = SubSeq(Index, offset + 1, i)
      <4>1. offset + 1 \in 1 .. N /\ i \in offset + 1 .. N
        BY <1>1, <2>3
      <4> QED
        BY <1>1, <4>1, AppendNext
    <3>3. /\ at(i - 1) = [rsc |-> SubSeq(Index, offset + 1, i - 1),
                         limit |-> limit - (i - 1 - offset), offset |-> 0]
          /\ at(i) = [rsc |-> SubSeq(Index, offset + 1, i),
                     limit |-> limit - (i - offset), offset |-> 0]
      <4>1. CASE i - 1 <= offset
        <5>1. i - 1 = offset /\ limit = limit - (i - 1 - offset) /\ offset - (i - 1) = 0
          BY <1>1, <2>3, <4>1
        <5> QED
          BY <2>3, <3>1, <4>1, <5>1, Zenon
      <4>2. CASE ~(i - 1 <= offset)
        BY <2>3, <3>1, <4>2, Zenon
      <4> QED
        BY <4>1, <4>2
    <3>4. limit - (i - 1 - offset) = 0 => SubSeq(Index, offset + 1, i - 1) = <<>>
      <4>1. limit - (i - 1 - offset) = 0 => i - 1 < offset + 1
        BY <1>1, <2>3
      <4> QED
        BY <1>1, <4>1, SubSeqEmpty
    <3>5. (limit - (i - 1 - offset)) - 1 = limit - (i - offset)
      BY <1>1
    <3>6. ~(limit - (i - 1 - offset) = 0 /\ SubSeq(Index, offset + 1, i - 1) # <<>>)
      BY <3>4
    <3>7. turn(at(i - 1), i) = [rsc |-> Append(SubSeq(Index, offset + 1, i - 1), Index[i]),
                                limit |-> limit - (i - 1 - offset) - 1, offset |-> 0]
      <4> DEFINE taken == SubSeq(Index, offset + 1, i - 1)
                 left == limit - (i - 1 - offset)
      <4>1. /\ at(i - 1) = [rsc |-> taken, limit |-> left, offset |-> 0]
            /\ ~(left = 0 /\ taken # <<>>)
        BY <3>3, <3>6
      <4> HIDE DEF at, taken, left
      <4>2. turn(at(i - 1), i) =
              [rsc |-> Append(taken, Index[i]), limit |-> left - 1, offset |-> 0]
        <5> DEFINE page == at(i - 1)
        <5>1. page.limit = left /\ page.rsc = taken /\ page.offset = 0 /\ ~(0 > 0)
          BY <4>1
        <5>2. turn(page, i) = [rsc |-> Append(page.rsc, Index[i]),
                               limit |-> page.limit - 1, offset |-> 0]
          <6> HIDE DEF page
          <6> QED
            BY <4>1, <5>1, Zenon
        <5> QED
          BY <5>1, <5>2, Zenon
      <4> QED
        BY <4>2 DEF taken, left
    <3> HIDE DEF at, turn
    <3> QED
      BY <3>2, <3>3, <3>5, <3>7, Zenon
  <2> QED
    BY <2>1, <2>2, <2>3
<1> DEFINE F == [i \in 0 .. N |-> at(i)]
<1>5. F = [i \in 0 .. N |-> IF i = 0 THEN first ELSE turn(F[i - 1], i)]
  <2>1. ASSUME NEW i \in 1 .. N PROVE at(i) = turn(F[i - 1], i)
    <3>1. F[i - 1] = at(i - 1)
      BY <1>1
    <3> HIDE DEF F, at
    <3> QED
      BY <1>4, <3>1
  <2>2. \A i \in 0 .. N : i # 0 => i \in 1 .. N
    BY <1>1
  <2> HIDE DEF at, turn, first, N
  <2> QED
    BY <1>3, <2>1, <2>2
<1>6. read = [i \in 0 .. N |-> IF i = 0 THEN first ELSE turn(read[i - 1], i)]
  <2> HIDE DEF F, N, first
  <2> QED
    BY <1>5, Zenon DEF read
<1> DEFINE T == {i \in Nat : i <= N => read[i] = at(i)}
<1> HIDE DEF F, at, turn, first, N
<1>7. 0 \in T
  BY <1>1, <1>3, <1>6
<1>8. ASSUME NEW i \in Nat, i \in T PROVE i + 1 \in T
  <2> SUFFICES ASSUME i + 1 <= N PROVE read[i + 1] = at(i + 1)
    OBVIOUS
  <2>1. /\ i + 1 \in 0 .. N /\ i + 1 \in 1 .. N /\ i + 1 # 0 /\ (i + 1) - 1 = i
        /\ read[i] = at(i)
    BY <1>1, <1>8
  <2> QED
    BY <1>4, <1>6, <2>1
<1> HIDE DEF T
<1>9. N \in T
  BY ONLY <1>1, <1>7, <1>8, SetInduction
<1>10. read[N] = at(N)
  BY <1>1, <1>9 DEF T
<1>11. at(N).rsc = SubSeq(Index, offset + 1, end(N))
  BY DEF at
<1> QED
  BY ONLY <1>2, <1>10, <1>11 DEF N

\* k whole pages and the next one.
LEMMA PageAfter ==
  ASSUME NEW size \in Nat \ {0}, NEW k \in Nat \ {0}
  PROVE  SubSeq(Index, 1, PageEnd(k * size, 0, Len(Index)))
           \o SubSeq(Index, k * size + 1, PageEnd(size, k * size, Len(Index)))
           = SubSeq(Index, 1, PageEnd((k + 1) * size, 0, Len(Index)))
<1> DEFINE a == k * size
           b == (k + 1) * size
           N == Len(Index)
<1>1. a \in Nat /\ b = a + size /\ a # 0 /\ b # 0
  <2>1. a \in Nat
    OBVIOUS
  <2>2. b = a + size
    OBVIOUS
  <2>3. a >= size
    OBVIOUS
  <2> QED
    BY <2>1, <2>2, <2>3
<1>2. N \in Nat /\ Index \in Seq(Captures)
  BY IndexTyped
<1> HIDE DEF a, b, N
<1>3. PageEnd(a, 0, N) = IF N > a THEN a ELSE N
  BY <1>1 DEF PageEnd
<1>4. PageEnd(b, 0, N) = IF N > b THEN b ELSE N
  BY <1>1 DEF PageEnd
<1>5. PageEnd(size, a, N) = IF N > b THEN b ELSE N
  BY <1>1 DEF PageEnd
<1>6. CASE N > a
  <2> DEFINE e == IF N > b THEN b ELSE N
  <2>1. e \in a .. N /\ a \in 1 - 1 .. N /\ 1 \in 1 .. N + 1
    BY <1>1, <1>2, <1>6
  <2> HIDE DEF e
  <2>2. SubSeq(Index, 1, a) \o SubSeq(Index, a + 1, e) = SubSeq(Index, 1, e)
    BY <1>2, <2>1, ConcatAdjacentSubSeq DEF N
  <2> QED
    BY <1>3, <1>4, <1>5, <1>6, <2>2 DEF a, b, e, N
<1>7. CASE ~(N > a)
  <2>1. ~(N > b) /\ N < a + 1
    BY <1>1, <1>2, <1>7
  <2>2. SubSeq(Index, a + 1, N) = <<>>
    BY <1>1, <1>2, <2>1, SubSeqEmpty
  <2>3. SubSeq(Index, 1, N) = Index
    BY <1>2, SubSeqFull DEF N
  <2>4. Index \o <<>> = Index
    BY <1>2, ConcatEmptySeq
  <2> QED
    BY <1>3, <1>4, <1>5, <1>7, <2>1, <2>2, <2>3, <2>4 DEF a, b, N
<1> QED
  BY <1>6, <1>7

LEMMA PagesCover == PagesCoverIndex
<1>1. /\ Index \in Seq(Captures) /\ Len(Index) \in Nat
      /\ Len(Order) \in Nat /\ Len(Index) <= Len(Order)
  BY IndexTyped, ReadingAssumption
<1>2. SortedIndex(0, 0) = Index
  <2>1. SortedIndex(0, 0) = SubSeq(Index, 0 + 1, PageEnd(0, 0, Len(Index)))
    BY PageIsPart
  <2>2. PageEnd(0, 0, Len(Index)) = Len(Index)
    BY DEF PageEnd
  <2> QED
    BY <1>1, <2>1, <2>2, SubSeqFull
<1>3. ASSUME NEW size \in 1 .. Len(Order)
      PROVE  FlattenSeq([k \in 1 .. Len(Order) |-> SortedIndex(size, (k - 1) * size)]) = Index
  <2> DEFINE N == Len(Order)
             pages == [k \in 1 .. N |-> SortedIndex(size, (k - 1) * size)]
             before(k) == SubSeq(Index, 1, PageEnd(k * size, 0, Len(Index)))
             flatten == CHOOSE flatten : flatten =
                          [i \in 1 .. Len(pages) |->
                             IF i = 1 THEN pages[i] ELSE flatten[i - 1] \o pages[i]]
  <2>1. N \in Nat /\ N # 0 /\ size \in Nat /\ size # 0
    BY <1>1
  <2>2. Len(pages) = N
    BY <2>1
  <2>3. FlattenSeq(pages) = flatten[N]
    <3>1. FlattenSeq(pages) = flatten[Len(pages)]
      BY <2>1, <2>2 DEF FlattenSeq
    <3> QED
      BY <2>2, <3>1
  <2>4. pages[1] = before(1)
    <3>1. /\ pages[1] = SortedIndex(size, (1 - 1) * size)
          /\ (1 - 1) * size = 0 /\ 1 * size = size
      BY <2>1
    <3>2. pages[1] = SubSeq(Index, 0 + 1, PageEnd(size, 0, Len(Index)))
      BY <2>1, <3>1, PageIsPart
    <3> HIDE DEF pages
    <3> QED
      BY <3>1, <3>2
  <2>5. ASSUME NEW i \in 2 .. N PROVE before(i) = before(i - 1) \o pages[i]
    <3>1. /\ i - 1 \in Nat /\ i - 1 # 0 /\ (i - 1) + 1 = i
          /\ (i - 1) * size \in Nat /\ i \in 1 .. N
      BY <2>1
    <3>2. pages[i] = SortedIndex(size, (i - 1) * size)
      BY <3>1
    <3>3. pages[i] = SubSeq(Index, (i - 1) * size + 1,
                            PageEnd(size, (i - 1) * size, Len(Index)))
      BY <2>1, <3>1, <3>2, PageIsPart
    <3> HIDE DEF pages
    <3>4. before(i - 1) \o pages[i] =
            SubSeq(Index, 1, PageEnd(((i - 1) + 1) * size, 0, Len(Index)))
      BY <2>1, <3>1, <3>3, PageAfter
    <3> QED
      BY <3>1, <3>4
  <2> HIDE DEF pages, before, flatten
  <2>6. flatten = [i \in 1 .. Len(pages) |->
                     IF i = 1 THEN pages[i] ELSE flatten[i - 1] \o pages[i]]
    <3> DEFINE F == [i \in 1 .. N |-> before(i)]
    <3>1. ASSUME NEW i \in 1 .. N
          PROVE  before(i) = IF i = 1 THEN pages[i] ELSE F[i - 1] \o pages[i]
      <4>1. i # 1 => i \in 2 .. N /\ i - 1 \in 1 .. N
        BY <2>1
      <4>2. i # 1 => F[i - 1] = before(i - 1)
        BY <4>1
      <4> HIDE DEF F
      <4> QED
        BY <2>4, <2>5, <4>1, <4>2
    <3>2. F = [i \in 1 .. Len(pages) |-> IF i = 1 THEN pages[i] ELSE F[i - 1] \o pages[i]]
      BY <2>2, <3>1
    <3> HIDE DEF F
    <3> QED
      BY <3>2, Zenon DEF flatten
  <2> DEFINE T == {i \in Nat : i + 1 <= N => flatten[i + 1] = before(i + 1)}
  <2>7. 0 \in T
    BY <2>1, <2>2, <2>4, <2>6
  <2>8. ASSUME NEW i \in Nat, i \in T PROVE i + 1 \in T
    <3> SUFFICES ASSUME (i + 1) + 1 <= N PROVE flatten[(i + 1) + 1] = before((i + 1) + 1)
      OBVIOUS
    <3>1. /\ (i + 1) + 1 \in 2 .. N /\ (i + 1) + 1 \in 1 .. N /\ (i + 1) + 1 # 1
          /\ ((i + 1) + 1) - 1 = i + 1 /\ flatten[i + 1] = before(i + 1)
      BY <2>1, <2>8
    <3>2. flatten[(i + 1) + 1] = flatten[i + 1] \o pages[(i + 1) + 1]
      BY <2>2, <2>6, <3>1
    <3>3. before((i + 1) + 1) = before(i + 1) \o pages[(i + 1) + 1]
      BY <2>5, <3>1
    <3> QED
      BY <3>1, <3>2, <3>3
  <2> HIDE DEF T
  <2>9. N - 1 \in T /\ (N - 1) + 1 = N
    BY ONLY <2>1, <2>7, <2>8, SetInduction
  <2>10. flatten[N] = before(N)
    BY <2>1, <2>9 DEF T
  <2>11. PageEnd(N * size, 0, Len(Index)) = Len(Index)
    <3>1. N * size >= N /\ N * size \in Nat
      BY <2>1
    <3> QED
      BY <1>1, <3>1 DEF PageEnd
  <2>12. before(N) = Index
    BY <1>1, <2>11, SubSeqFull DEF before
  <2> QED
    BY <2>3, <2>10, <2>12 DEF pages
<1> QED
  BY <1>2, <1>3 DEF PagesCoverIndex

\* The pages of an index are the index, for every size of both.
THEOREM PagingCovers == Spec => []PagesCoverIndex
  BY PagesCover, PTL
==============================================================================
