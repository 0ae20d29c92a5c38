---------------------------- MODULE PipelineProofs ----------------------------
(***************************************************************************)
(* Proofs about how many requests there are and where: in a crawl's queue, *)
(* with its lanes, and in its counter.                                     *)
(***************************************************************************)
EXTENDS CoordinatorProofs, FiniteSetTheorems

\* What v adds to a count of the members of S.
Is(v, S) == IF v \in S THEN 1 ELSE 0

(***************************************************************************)
(* Counting the positions of a sequence.                                   *)
(***************************************************************************)
LEMMA OneMore ==
  ASSUME NEW S, IsFiniteSet(S), NEW x, x \notin S
  PROVE  /\ IsFiniteSet(S \cup {x})
         /\ Cardinality(S) \in Nat /\ Cardinality(S \cup {x}) = Cardinality(S) + 1
  BY FS_AddElement, FS_CardinalityType

LEMMA OneLess ==
  ASSUME NEW S, IsFiniteSet(S), NEW x, x \in S
  PROVE  /\ IsFiniteSet(S \ {x})
         /\ Cardinality(S) \in Nat /\ Cardinality(S \ {x}) = Cardinality(S) - 1
  BY FS_RemoveElement, FS_CardinalityType

LEMMA AtFinite ==
  ASSUME NEW T, NEW s \in Seq(T), NEW S
  PROVE  IsFiniteSet(At(s, S)) /\ Cardinality(At(s, S)) \in Nat
<1>1. DOMAIN s = 1 .. Len(s) /\ Len(s) \in Nat
  BY LenProperties
<1>2. IsFiniteSet(1 .. Len(s))
  BY <1>1, FS_Interval
<1>3. IsFiniteSet(At(s, S))
  BY <1>1, <1>2, FS_Subset DEF At
<1> QED
  BY <1>3, FS_CardinalityType

LEMMA AppendAt ==
  ASSUME NEW T, NEW s \in Seq(T), NEW v \in T, NEW S
  PROVE  Cardinality(At(Append(s, v), S)) =
           Cardinality(At(s, S)) + Is(v, S)
<1>1. Len(s) \in Nat /\ DOMAIN s = 1 .. Len(s)
  BY LenProperties
<1>2. /\ DOMAIN Append(s, v) = 1 .. Len(s) + 1 /\ Append(s, v)[Len(s) + 1] = v
      /\ \A i \in 1 .. Len(s) : Append(s, v)[i] = s[i]
  BY <1>1, AppendProperties
<1>3. IsFiniteSet(At(s, S)) /\ Cardinality(At(s, S)) \in Nat
  BY AtFinite
<1>4. Len(s) + 1 \notin At(s, S)
  BY <1>1 DEF At
<1>5. CASE v \in S
  <2>1. At(Append(s, v), S) = At(s, S) \cup {Len(s) + 1}
    BY <1>1, <1>2, <1>5 DEF At
  <2> QED
    BY <1>3, <1>4, <1>5, <2>1, OneMore DEF Is
<1>6. CASE v \notin S
  <2>1. At(Append(s, v), S) = At(s, S)
    BY <1>1, <1>2, <1>6 DEF At
  <2> QED
    BY <1>3, <1>6, <2>1 DEF Is
<1> QED
  BY <1>5, <1>6

LEMMA TailAt ==
  ASSUME NEW T, NEW s \in Seq(T), s # << >>, NEW S
  PROVE  Cardinality(At(Tail(s), S)) =
           Cardinality(At(s, S)) - Is(Head(s), S)
<1>1. /\ Len(s) \in Nat \ {0} /\ DOMAIN s = 1 .. Len(s) /\ Head(s) = s[1]
      /\ Tail(s) \in Seq(T) /\ DOMAIN Tail(s) = 1 .. Len(s) - 1
      /\ \A i \in 1 .. Len(s) - 1 : Tail(s)[i] = s[i + 1]
  BY LenProperties, HeadTailProperties, EmptySeq
<1>2. /\ IsFiniteSet(At(s, S)) /\ Cardinality(At(s, S)) \in Nat
      /\ IsFiniteSet(At(Tail(s), S))
  BY <1>1, AtFinite
<1> DEFINE f == [i \in At(Tail(s), S) |-> i + 1]
<1>3. \A i \in At(Tail(s), S) : i + 1 \in At(s, S) \ {1}
  BY <1>1 DEF At
<1>4. \A j \in At(s, S) \ {1} : j - 1 \in At(Tail(s), S) /\ (j - 1) + 1 = j
  BY <1>1 DEF At
<1>5. f \in Bijection(At(Tail(s), S), At(s, S) \ {1})
  <2>1. f \in [At(Tail(s), S) -> At(s, S) \ {1}]
    BY <1>3
  <2>2. \A i, j \in At(Tail(s), S) : f[i] = f[j] => i = j
    BY <1>1 DEF At
  <2>3. \A j \in At(s, S) \ {1} : \E i \in At(Tail(s), S) : f[i] = j
    BY <1>4
  <2> QED
    BY <2>1, <2>2, <2>3 DEF Bijection, Injection, Surjection, IsInjective
<1>6. Cardinality(At(s, S) \ {1}) = Cardinality(At(Tail(s), S))
  BY <1>2, <1>5, FS_Bijection DEF ExistsBijection
<1>7. 1 \in At(s, S) <=> Head(s) \in S
  BY <1>1 DEF At
<1>8. CASE Head(s) \in S
  <2>1. Cardinality(At(s, S) \ {1}) = Cardinality(At(s, S)) - 1
    BY <1>2, <1>7, <1>8, OneLess
  <2> QED
    BY <1>6, <1>8, <2>1 DEF Is
<1>9. CASE Head(s) \notin S
  <2>1. At(s, S) \ {1} = At(s, S)
    BY <1>7, <1>9
  <2>2. Cardinality(At(Tail(s), S)) = Cardinality(At(s, S))
    BY ONLY <1>6, <2>1
  <2> QED
    BY <1>2, <1>9, <2>2 DEF Is
<1> QED
  BY <1>8, <1>9

(***************************************************************************)
(* Counting the commands of all lanes.                                     *)
(***************************************************************************)
CommandsOf(q, S) == UNION {{l} \X At(q[l], S) : l \in Lanes}

LEMMA CommandIn ==
  ASSUME NEW q \in [Lanes -> Seq(URLs)], NEW S
  PROVE  \A c : c \in CommandsOf(q, S) <=>
           \E l \in Lanes : \E i \in 1 .. Len(q[l]) : c = <<l, i>> /\ q[l][i] \in S
<1>1. \A l \in Lanes : DOMAIN q[l] = 1 .. Len(q[l])
  BY LenProperties
<1> QED
  BY <1>1 DEF CommandsOf, At

LEMMA AppendCommand ==
  ASSUME NEW v \in URLs, NEW l \in Lanes, NEW S, NEW q \in [Lanes -> Seq(URLs)],
         NEW r \in [Lanes -> Seq(URLs)], IsFiniteSet(CommandsOf(q, S)),
         r[l] = Append(q[l], v), \A m \in Lanes \ {l} : r[m] = q[m]
  PROVE  /\ IsFiniteSet(CommandsOf(r, S))
         /\ Cardinality(CommandsOf(r, S)) =
              Cardinality(CommandsOf(q, S)) + Is(v, S)
<1> DEFINE n == Len(q[l])
<1>1. /\ r \in [Lanes -> Seq(URLs)] /\ n \in Nat
      /\ Len(r[l]) = n + 1 /\ r[l][n + 1] = v /\ \A i \in 1 .. n : r[l][i] = q[l][i]
      /\ \A m \in Lanes \ {l} : r[m] = q[m]
  BY AppendProperties, LenProperties
<1> HIDE DEF n
<1>2. /\ \A c : c \in CommandsOf(q, S) <=>
             \E m \in Lanes : \E i \in 1 .. Len(q[m]) : c = <<m, i>> /\ q[m][i] \in S
      /\ \A c : c \in CommandsOf(r, S) <=>
             \E m \in Lanes : \E i \in 1 .. Len(r[m]) : c = <<m, i>> /\ r[m][i] \in S
  BY <1>1, CommandIn
<1>3. <<l, n + 1>> \notin CommandsOf(q, S)
  BY <1>1, <1>2 DEF n
<1>4. Cardinality(CommandsOf(q, S)) \in Nat
  BY FS_CardinalityType
<1>5. \A c : c \in CommandsOf(q, S) => c \in CommandsOf(r, S)
  <2> SUFFICES ASSUME NEW m \in Lanes, NEW i \in 1 .. Len(q[m]), q[m][i] \in S
               PROVE  <<m, i>> \in CommandsOf(r, S)
    BY <1>2
  <2>1. i \in 1 .. Len(r[m]) /\ r[m][i] = q[m][i]
    <3>1. CASE m = l
      BY <1>1, <3>1 DEF n
    <3>2. CASE m # l
      BY <1>1, <3>2
    <3> QED
      BY <3>1, <3>2
  <2> QED
    BY <1>2, <2>1
<1>6. \A c : c \in CommandsOf(r, S) =>
               c \in CommandsOf(q, S) \/ (c = <<l, n + 1>> /\ v \in S)
  <2> SUFFICES ASSUME NEW m \in Lanes, NEW i \in 1 .. Len(r[m]), r[m][i] \in S,
                      ~(m = l /\ i = n + 1)
               PROVE  <<m, i>> \in CommandsOf(q, S)
    BY <1>1, <1>2
  <2>1. i \in 1 .. Len(q[m]) /\ r[m][i] = q[m][i]
    BY <1>1 DEF n
  <2> QED
    BY <1>2, <2>1
<1>7. CASE v \in S
  <2>1. n + 1 \in 1 .. Len(r[l]) /\ r[l][n + 1] \in S
    BY <1>1, <1>7
  <2>2. <<l, n + 1>> \in CommandsOf(r, S)
    BY <1>2, <2>1
  <2>3. CommandsOf(r, S) = CommandsOf(q, S) \cup {<<l, n + 1>>}
    BY <1>5, <1>6, <2>2
  <2> QED
    BY <1>3, <1>7, <2>3, OneMore DEF Is
<1>8. CASE v \notin S
  <2>1. CommandsOf(r, S) = CommandsOf(q, S)
    BY <1>5, <1>6, <1>8
  <2> QED
    BY <1>4, <1>8, <2>1 DEF Is
<1> QED
  BY <1>7, <1>8

LEMMA TailCommand ==
  ASSUME NEW l \in Lanes, NEW S, NEW q \in [Lanes -> Seq(URLs)],
         NEW r \in [Lanes -> Seq(URLs)], IsFiniteSet(CommandsOf(q, S)), q[l] # << >>,
         r[l] = Tail(q[l]), \A m \in Lanes \ {l} : r[m] = q[m]
  PROVE  /\ IsFiniteSet(CommandsOf(r, S))
         /\ Cardinality(CommandsOf(r, S)) =
              Cardinality(CommandsOf(q, S)) - Is(Head(q[l]), S)
<1> DEFINE old == CommandsOf(q, S) \ {<<l, 1>>}
           f == [c \in old |-> IF c[1] = l THEN <<l, c[2] - 1>> ELSE c]
<1>1. /\ r \in [Lanes -> Seq(URLs)] /\ Len(q[l]) \in Nat \ {0} /\ Head(q[l]) = q[l][1]
      /\ Len(r[l]) = Len(q[l]) - 1 /\ \A i \in 1 .. Len(r[l]) : r[l][i] = q[l][i + 1]
      /\ \A m \in Lanes \ {l} : r[m] = q[m]
      /\ \A m \in Lanes : Len(q[m]) \in Nat
  BY HeadTailProperties, LenProperties, EmptySeq
<1>0. /\ \A c : c \in CommandsOf(q, S) <=>
             \E m \in Lanes : \E i \in 1 .. Len(q[m]) : c = <<m, i>> /\ q[m][i] \in S
      /\ \A c : c \in CommandsOf(r, S) <=>
             \E m \in Lanes : \E i \in 1 .. Len(r[m]) : c = <<m, i>> /\ r[m][i] \in S
  BY <1>1, CommandIn
<1>2. <<l, 1>> \in CommandsOf(q, S) <=> Head(q[l]) \in S
  BY <1>0, <1>1
<1>3. f \in Bijection(old, CommandsOf(r, S))
  <2>1. ASSUME NEW c \in old PROVE f[c] \in CommandsOf(r, S)
    <3>0. c \in CommandsOf(q, S) /\ c # <<l, 1>>
      OBVIOUS
    <3>1. PICK m \in Lanes, i \in Nat :
            i \in 1 .. Len(q[m]) /\ c = <<m, i>> /\ q[m][i] \in S
      BY ONLY <1>0, <3>0
    <3>2. CASE m = l
      <4>1. i # 1 /\ i - 1 \in 1 .. Len(r[l]) /\ r[l][i - 1] = q[l][i]
        BY <1>1, <3>0, <3>1, <3>2
      <4>2. <<l, i - 1>> \in CommandsOf(r, S)
        BY ONLY <1>0, <3>1, <3>2, <4>1
      <4>3. f[c] = <<l, i - 1>>
        BY <3>1, <3>2
      <4> QED
        BY ONLY <4>2, <4>3
    <3>3. CASE m # l
      <4>1. i \in 1 .. Len(r[m]) /\ r[m][i] \in S
        BY <1>1, <3>1, <3>3
      <4>2. c \in CommandsOf(r, S)
        BY ONLY <1>0, <3>1, <4>1
      <4>3. f[c] = c
        BY <3>1, <3>3
      <4> QED
        BY ONLY <4>2, <4>3
    <3> QED
      BY <3>2, <3>3
  <2>2. ASSUME NEW c \in old, NEW d \in old, f[c] = f[d] PROVE c = d
    <3>1. PICK m \in Lanes, i \in Nat : i \in 1 .. Len(q[m]) /\ c = <<m, i>>
      BY <1>0
    <3>2. PICK k \in Lanes, j \in Nat : j \in 1 .. Len(q[k]) /\ d = <<k, j>>
      BY <1>0
    <3> QED
      BY <1>1, <2>2, <3>1, <3>2
  <2>3. ASSUME NEW d \in CommandsOf(r, S) PROVE \E c \in old : f[c] = d
    <3>1. PICK m \in Lanes, i \in Nat :
            i \in 1 .. Len(r[m]) /\ d = <<m, i>> /\ r[m][i] \in S
      BY ONLY <1>0, <2>3
    <3>2. CASE m = l
      <4>1. i + 1 \in 1 .. Len(q[l]) /\ q[l][i + 1] \in S /\ i + 1 # 1
        <5>1. i \in 1 .. Len(q[l]) - 1 /\ r[l][i] \in S /\ r[l][i] = q[l][i + 1]
          BY ONLY <1>1, <3>1, <3>2
        <5> QED
          BY ONLY <1>1, <5>1
      <4>2. <<l, i + 1>> \in old
        BY <1>0, <4>1
      <4>3. f[<<l, i + 1>>] = <<l, (i + 1) - 1>>
        BY <4>2
      <4>4. <<l, (i + 1) - 1>> = d
        BY <3>1, <3>2
      <4> QED
        BY <4>2, <4>3, <4>4
    <3>3. CASE m # l
      <4>1. d \in old
        BY <1>1, <3>1, <3>3, <1>0
      <4> QED
        BY <3>1, <3>3, <4>1
    <3> QED
      BY <3>2, <3>3
  <2> HIDE DEF f, old
  <2>4. f \in [old -> CommandsOf(r, S)]
    BY <2>1 DEF f
  <2> QED
    BY <2>2, <2>3, <2>4 DEF Bijection, Injection, Surjection, IsInjective
<1> HIDE DEF f
<1>4. /\ IsFiniteSet(old) /\ IsFiniteSet(CommandsOf(r, S))
      /\ Cardinality(CommandsOf(r, S)) = Cardinality(old)
  <2>1. IsFiniteSet(old)
    BY FS_RemoveElement
  <2> HIDE DEF old
  <2> QED
    BY <1>3, <2>1, FS_Bijection DEF ExistsBijection
<1>5. Cardinality(CommandsOf(q, S)) \in Nat
  BY FS_CardinalityType
<1>6. CASE Head(q[l]) \in S
  <2>1. Cardinality(old) = Cardinality(CommandsOf(q, S)) - 1
    BY <1>2, <1>6, OneLess
  <2> QED
    BY <1>4, <1>6, <2>1 DEF Is
<1>7. CASE Head(q[l]) \notin S
  <2>1. old = CommandsOf(q, S)
    BY <1>2, <1>7
  <2>2. Cardinality(CommandsOf(r, S)) = Cardinality(CommandsOf(q, S))
    BY ONLY <1>4, <2>1
  <2> QED
    BY <1>4, <1>5, <1>7, <2>2 DEF Is
<1> QED
  BY <1>6, <1>7

------------------------------------------------------------------------------
(***************************************************************************)
(* What waits in the queue, step by step.                                  *)
(***************************************************************************)
\* Only finitely many commands wait: a lane receives them one by one.
FiniteInv == IsFiniteSet(Commands(URLs))

LEMMA CommandsFinite ==
  ASSUME TypeInv, FiniteInv, NEW S
  PROVE  Commands(S) = CommandsOf(fbq, S) /\ IsFiniteSet(Commands(S))
<1>1. fbq \in [Lanes -> Seq(URLs)]
  BY DEF TypeInv, TypeOK
<1>2. \A l \in Lanes : \A i \in DOMAIN fbq[l] : fbq[l][i] \in URLs
  BY <1>1, LenProperties, ElementOfSeq
<1>3. Commands(S) \subseteq Commands(URLs)
  BY <1>2 DEF Commands, At
<1> QED
  BY <1>3, FS_Subset DEF FiniteInv, Commands, CommandsOf

LEMMA WorkersFinite == \A T \in SUBSET Workers : IsFiniteSet(T) /\ Cardinality(T) \in Nat
  BY FinitenessAssumption, FS_Subset, FS_CardinalityType

LEMMA LanesFinite == \A T \in SUBSET Lanes : IsFiniteSet(T) /\ Cardinality(T) \in Nat
  BY FinitenessAssumption, FS_Subset, FS_CardinalityType

LEMMA CallersFinite == \A T \in SUBSET Callers : IsFiniteSet(T) /\ Cardinality(T) \in Nat
<1>1. IsFiniteSet(Callers)
  BY FinitenessAssumption, FS_AddElement DEF Callers
<1> QED
  BY <1>1, FS_Subset, FS_CardinalityType

\* The three counts of what waits.
LEMMA WaitingTyped ==
  ASSUME TypeInv, FiniteInv, NEW S
  PROVE  /\ Cardinality(At(channel, S)) \in Nat
         /\ Cardinality(Handed(S)) \in Nat
         /\ Cardinality(Commands(S)) \in Nat
         /\ Waiting(S) \in Nat
<1>1. channel \in Seq(URLs)
  BY DEF TypeInv, TypeOK, Queue!TypeOK
<1>2. Cardinality(At(channel, S)) \in Nat
  BY <1>1, AtFinite
<1>3. Cardinality(Handed(S)) \in Nat
  BY WorkersFinite DEF Handed
<1>4. Cardinality(Commands(S)) \in Nat
  BY CommandsFinite, FS_CardinalityType
<1> QED
  BY <1>2, <1>3, <1>4 DEF Waiting

LEMMA StayWaits ==
  ASSUME FiniteInv, UNCHANGED <<channel, hand, fbq>>, NEW S
  PROVE  FiniteInv' /\ Waiting(S)' = Waiting(S)
  BY DEF FiniteInv, Waiting, Handed, Commands, At

LEMMA PushWaits ==
  ASSUME TypeInv, FiniteInv, NEW p \in Callers, PushRequest(p), NEW S
  PROVE  FiniteInv' /\ Waiting(S)' = Waiting(S) + Is(fr[p].url, S)
<1>1. /\ channel \in Seq(URLs) /\ fr[p].url \in URLs
      /\ channel' = Append(channel, fr[p].url) /\ UNCHANGED <<hand, fbq>>
  BY DEF TypeInv, TypeOK, Locals, InCall, Request, Queue!TypeOK, PushRequest, Queue!Push,
         fetchVars
<1>2. Cardinality(At(channel, S)') = Cardinality(At(channel, S)) + Is(fr[p].url, S)
  BY <1>1, AppendAt
<1>3. Handed(S)' = Handed(S) /\ Commands(S)' = Commands(S) /\ Commands(URLs)' = Commands(URLs)
  BY <1>1 DEF Handed, Commands
<1>4. Is(fr[p].url, S) \in Nat
  BY DEF Is
<1> QED
  BY <1>2, <1>3, <1>4, WaitingTyped DEF Waiting, FiniteInv

LEMMA ForwardWaits ==
  ASSUME TypeInv, FiniteInv, NEW w \in Workers, ForwardRequest(w), NEW S, S \subseteq URLs
  PROVE  FiniteInv' /\ Waiting(S)' = Waiting(S)
<1> DEFINE v == Head(channel)
<1>1. /\ channel \in Seq(URLs) /\ hand \in [Workers -> URLs \cup {None}] /\ None \notin S
  BY CrawlAssumption DEF TypeInv, TypeOK, Queue!TypeOK
<1>2. /\ channel # << >> /\ channel' = Tail(channel)
      /\ hand[w] = None /\ hand' = [hand EXCEPT ![w] = v] /\ fbq' = fbq
  BY DEF ForwardRequest, Queue!Forward, fetchVars
<1>3. Cardinality(At(channel, S)') = Cardinality(At(channel, S)) - Is(v, S)
  BY <1>1, <1>2, TailAt
<1> HIDE DEF v
<1>4. Cardinality(Handed(S)') = Cardinality(Handed(S)) + Is(v, S)
  <2>1. w \notin Handed(S) /\ IsFiniteSet(Handed(S)) /\ Cardinality(Handed(S)) \in Nat
    BY <1>1, <1>2, WorkersFinite DEF Handed
  <2>2. CASE v \in S
    <3>1. Handed(S)' = Handed(S) \cup {w}
      BY <1>1, <1>2, <2>2 DEF Handed
    <3> QED
      BY <2>1, <2>2, <3>1, OneMore DEF Is
  <2>3. CASE v \notin S
    <3>1. Handed(S)' = Handed(S)
      BY <1>1, <1>2, <2>3 DEF Handed
    <3> QED
      BY <2>1, <2>3, <3>1 DEF Is
  <2> QED
    BY <2>2, <2>3
<1>5. Commands(S)' = Commands(S) /\ Commands(URLs)' = Commands(URLs)
  BY <1>2 DEF Commands
<1>6. Is(v, S) \in Nat
  BY DEF Is
<1> QED
  BY <1>3, <1>4, <1>5, <1>6, WaitingTyped DEF Waiting, FiniteInv

LEMMA CommandsAppend ==
  ASSUME TypeInv, FiniteInv, NEW l \in Lanes, NEW v \in URLs,
         fbq' = [fbq EXCEPT ![l] = Append(@, v)]
  PROVE  \A T : /\ IsFiniteSet(Commands(T)')
               /\ Cardinality(Commands(T)') = Cardinality(Commands(T)) + Is(v, T)
<1> SUFFICES ASSUME NEW T
             PROVE  /\ IsFiniteSet(Commands(T)')
                    /\ Cardinality(Commands(T)') = Cardinality(Commands(T)) + Is(v, T)
  OBVIOUS
<1>1. fbq \in [Lanes -> Seq(URLs)]
  BY DEF TypeInv, TypeOK
<1>2. Append(fbq[l], v) \in Seq(URLs)
  BY ONLY <1>1, l \in Lanes, v \in URLs, AppendProperties
<1>3. /\ fbq' \in [Lanes -> Seq(URLs)] /\ fbq'[l] = Append(fbq[l], v)
      /\ \A m \in Lanes \ {l} : fbq'[m] = fbq[m]
  BY <1>1, <1>2
<1>4. Commands(T) = CommandsOf(fbq, T) /\ IsFiniteSet(Commands(T))
  BY CommandsFinite
<1>5. Commands(T)' = CommandsOf(fbq', T)
  BY DEF Commands, CommandsOf
<1>6. /\ IsFiniteSet(CommandsOf(fbq', T))
      /\ Cardinality(CommandsOf(fbq', T)) = Cardinality(CommandsOf(fbq, T)) + Is(v, T)
  BY ONLY <1>1, <1>3, <1>4, l \in Lanes, v \in URLs, AppendCommand
<1> QED
  BY ONLY <1>4, <1>5, <1>6

\* A request that is handed over goes to a lane, or is dropped.
LEMMA DispatchWaits ==
  ASSUME TypeInv, FiniteInv, NEW w \in Workers, Dispatch(w), NEW S, S \subseteq URLs
  PROVE  /\ FiniteInv'
         /\ LET lane == LaneFor[w][slot[w]][hand[w]]
            IN  Waiting(S)' = Waiting(S) - (IF lane = None THEN Is(hand[w], S) ELSE 0)
<1> DEFINE v == hand[w]
           lane == LaneFor[w][slot[w]][v]
<1>0. /\ hand \in [Workers -> URLs \cup {None}] /\ fbq \in [Lanes -> Seq(URLs)]
      /\ slot \in [Workers -> Nat] /\ slot[w] < Parallelism[w] /\ v # None
  BY DEF TypeInv, TypeOK, Locals, Queue!TypeOK, Dispatch, Queue!Deliver
<1>1. /\ hand \in [Workers -> URLs \cup {None}] /\ None \notin S
      /\ fbq \in [Lanes -> Seq(URLs)] /\ v \in URLs /\ slot[w] \in 0 .. Parallelism[w] - 1
  BY <1>0, CrawlAssumption
<1>2. lane \in Lanes \cup {None} /\ None \notin Lanes
  BY <1>1, CrawlAssumption
<1>3. /\ channel' = channel /\ hand' = [hand EXCEPT ![w] = None]
      /\ IF lane = None THEN fbq' = fbq
         ELSE fbq' = [fbq EXCEPT ![lane] = Append(@, v)]
  BY DEF Dispatch, Queue!Deliver, fetchVars
<1> HIDE DEF lane
<1>4. Cardinality(Handed(S)') = Cardinality(Handed(S)) - Is(v, S)
  <2>1. IsFiniteSet(Handed(S)) /\ Cardinality(Handed(S)) \in Nat
    BY WorkersFinite DEF Handed
  <2>2. Handed(S)' = Handed(S) \ {w} /\ (w \in Handed(S) <=> v \in S)
    BY <1>1, <1>3 DEF Handed
  <2>3. CASE v \in S
    BY <2>1, <2>2, <2>3, OneLess DEF Is
  <2>4. CASE v \notin S
    <3>1. Handed(S)' = Handed(S)
      BY <2>2, <2>4
    <3> QED
      BY <2>1, <2>4, <3>1 DEF Is
  <2> QED
    BY <2>3, <2>4
<1>5. Is(v, S) \in Nat
  BY DEF Is
<1> HIDE DEF v
<1>6. CASE lane = None
  <2>1. Commands(S)' = Commands(S) /\ Commands(URLs)' = Commands(URLs)
    BY <1>3, <1>6 DEF Commands
  <2>2. FiniteInv' /\ Waiting(S)' = Waiting(S) - Is(v, S)
    BY <1>3, <1>4, <1>5, <2>1, WaitingTyped DEF Waiting, FiniteInv
  <2> QED
    BY <1>6, <2>2 DEF lane, v
<1>7. CASE lane \in Lanes
  <2>1. fbq' = [fbq EXCEPT ![lane] = Append(@, v)]
    BY <1>2, <1>3, <1>7
  <2>2. \A T : /\ IsFiniteSet(Commands(T)')
               /\ Cardinality(Commands(T)') = Cardinality(Commands(T)) + Is(v, T)
    BY ONLY TypeInv, FiniteInv, <1>1, <1>7, <2>1, CommandsAppend
  <2>3. FiniteInv' /\ Waiting(S)' = Waiting(S)
    BY <1>3, <1>4, <1>5, <2>2, WaitingTyped DEF Waiting, FiniteInv
  <2>4. Waiting(S) - 0 = Waiting(S)
    BY WaitingTyped
  <2> QED
    BY <1>2, <1>7, <2>3, <2>4 DEF lane, v
<1> QED
  BY <1>2, <1>6, <1>7

LEMMA TakeWaits ==
  ASSUME TypeInv, FiniteInv, NEW l \in Lanes, Take(l), NEW S
  PROVE  FiniteInv' /\ Waiting(S)' = Waiting(S) - Is(Head(fbq[l]), S)
<1> DEFINE v == Head(fbq[l])
<1>1. fbq \in [Lanes -> Seq(URLs)] /\ fbq[l] # << >>
  BY DEF TypeInv, TypeOK, Take
<1>2. /\ UNCHANGED <<channel, hand>> /\ fbq' \in [Lanes -> Seq(URLs)]
      /\ fbq'[l] = Tail(fbq[l]) /\ \A m \in Lanes \ {l} : fbq'[m] = fbq[m]
  BY <1>1, HeadTailProperties DEF Take, queueVars
<1>3. \A T : /\ IsFiniteSet(Commands(T)')
             /\ Cardinality(Commands(T)') = Cardinality(Commands(T)) - Is(v, T)
  <2> SUFFICES ASSUME NEW T
               PROVE  /\ IsFiniteSet(Commands(T)')
                      /\ Cardinality(Commands(T)') = Cardinality(Commands(T)) - Is(v, T)
    OBVIOUS
  <2>1. Commands(T) = CommandsOf(fbq, T) /\ IsFiniteSet(Commands(T))
    BY CommandsFinite
  <2>2. Commands(T)' = CommandsOf(fbq', T)
    BY DEF Commands, CommandsOf
  <2>3. /\ IsFiniteSet(CommandsOf(fbq', T))
        /\ Cardinality(CommandsOf(fbq', T)) =
             Cardinality(CommandsOf(fbq, T)) - Is(Head(fbq[l]), T)
    BY ONLY <1>1, <1>2, <2>1, l \in Lanes, TailCommand
  <2> QED
    BY ONLY <2>1, <2>2, <2>3 DEF Is
<1>4. At(channel, S)' = At(channel, S) /\ Handed(S)' = Handed(S)
  BY <1>2 DEF Handed
<1>5. Is(v, S) \in Nat
  BY DEF Is
<1> HIDE DEF v
<1>6. FiniteInv' /\ Waiting(S)' = Waiting(S) - Is(v, S)
  BY <1>3, <1>4, <1>5, WaitingTyped DEF Waiting, FiniteInv
<1> QED
  BY <1>6 DEF v

\* A process that has just started: nothing waits, nothing is held or counted.
LEMMA NothingYet ==
  ASSUME NEW S \in SUBSET URLs
  PROVE  /\ At(<< >>, S) = {} /\ {w \in Workers : [v \in Workers |-> None][w] \in S} = {}
         /\ CommandsOf([l \in Lanes |-> << >>], S) = {}
<1>1. At(<< >>, S) = {}
  BY DEF At
<1>2. {w \in Workers : [v \in Workers |-> None][w] \in S} = {}
  BY CrawlAssumption
<1>3. CommandsOf([l \in Lanes |-> << >>], S) = {}
  BY <1>1 DEF CommandsOf, At
<1> QED
  BY <1>1, <1>2, <1>3

Fresh ==
  /\ channel = << >> /\ hand = [w \in Workers |-> None] /\ fbq = [l \in Lanes |-> << >>]
  /\ changes = << >> /\ processing = 0 /\ pc = Started

LEMMA FreshWaits ==
  /\ \A S \in SUBSET URLs : Fresh => FiniteInv /\ Waiting(S) = 0
  /\ \A S \in SUBSET URLs : Fresh' => FiniteInv' /\ Waiting(S)' = 0
<1>1. ASSUME NEW S \in SUBSET URLs, Fresh PROVE FiniteInv /\ Waiting(S) = 0
  <2>1. /\ Cardinality(At(channel, S)) = 0 /\ Cardinality(Handed(S)) = 0
        /\ Commands(URLs) = CommandsOf(fbq, URLs) /\ Commands(S) = CommandsOf(fbq, S)
        /\ IsFiniteSet(CommandsOf(fbq, URLs)) /\ Cardinality(CommandsOf(fbq, S)) = 0
    <3>1. /\ channel = << >> /\ hand = [w \in Workers |-> None]
          /\ fbq = [l \in Lanes |-> << >>]
      BY <1>1 DEF Fresh
    <3>2. /\ Handed(S) = {w \in Workers : hand[w] \in S}
          /\ Commands(URLs) = CommandsOf(fbq, URLs) /\ Commands(S) = CommandsOf(fbq, S)
      BY DEF Handed, Commands, CommandsOf
    <3>3. At(channel, S) = {} /\ Handed(S) = {}
      BY ONLY <3>1, <3>2, S \in SUBSET URLs, NothingYet
    <3>4. CommandsOf(fbq, URLs) = {} /\ CommandsOf(fbq, S) = {}
      BY ONLY <3>1, S \in SUBSET URLs, NothingYet
    <3> QED
      BY ONLY <3>2, <3>3, <3>4, FS_EmptySet
  <2> QED
    BY ONLY <2>1 DEF FiniteInv, Waiting
<1>2. ASSUME NEW S \in SUBSET URLs, Fresh' PROVE FiniteInv' /\ Waiting(S)' = 0
  <2>1. /\ Cardinality(At(channel', S)) = 0 /\ Cardinality(Handed(S)') = 0
        /\ Commands(URLs)' = CommandsOf(fbq', URLs) /\ Commands(S)' = CommandsOf(fbq', S)
        /\ IsFiniteSet(CommandsOf(fbq', URLs)) /\ Cardinality(CommandsOf(fbq', S)) = 0
    <3>1. /\ channel' = << >> /\ hand' = [w \in Workers |-> None]
          /\ fbq' = [l \in Lanes |-> << >>]
      BY <1>2 DEF Fresh
    <3>2. /\ Handed(S)' = {w \in Workers : hand'[w] \in S}
          /\ Commands(URLs)' = CommandsOf(fbq', URLs) /\ Commands(S)' = CommandsOf(fbq', S)
      BY DEF Handed, Commands, CommandsOf
    <3>3. At(channel', S) = {} /\ Handed(S)' = {}
      BY ONLY <3>1, <3>2, S \in SUBSET URLs, NothingYet
    <3>4. CommandsOf(fbq', URLs) = {} /\ CommandsOf(fbq', S) = {}
      BY ONLY <3>1, S \in SUBSET URLs, NothingYet
    <3> QED
      BY ONLY <3>2, <3>3, <3>4, FS_EmptySet
  <2> QED
    BY ONLY <2>1 DEF FiniteInv, Waiting
<1> QED
  BY <1>1, <1>2

------------------------------------------------------------------------------
(***************************************************************************)
(* The counter.  It is too high by Gap: a step that loses a request adds   *)
(* one to it, and no step takes anything from it.                          *)
(***************************************************************************)
Gap == Counted + Cardinality(Uncounted) - InPipeline

LEMMA CountedTyped ==
  ASSUME TypeInv
  PROVE  /\ Cardinality(At(changes, {1})) \in Nat /\ Cardinality(At(changes, {-1})) \in Nat
         /\ processing \in Int /\ Counted \in Int
<1>1. changes \in Seq({1, -1}) /\ processing \in Int
  BY DEF TypeInv, TypeOK, Counter!TypeOK
<1>2. Cardinality(At(changes, {1})) \in Nat /\ Cardinality(At(changes, {-1})) \in Nat
  BY <1>1, AtFinite
<1> QED
  BY <1>1, <1>2 DEF Counted

LEMMA SendCounts ==
  ASSUME TypeInv, NEW d \in {1, -1}, Counter!Send(d)
  PROVE  Counted' = Counted + d
<1>1. changes \in Seq({1, -1}) /\ changes' = Append(changes, d) /\ processing' = processing
  BY DEF TypeInv, TypeOK, Counter!TypeOK, Counter!Send
<1>2. /\ Cardinality(At(changes, {1})') = Cardinality(At(changes, {1})) + Is(d, {1})
      /\ Cardinality(At(changes, {-1})') = Cardinality(At(changes, {-1})) + Is(d, {-1})
  BY <1>1, AppendAt
<1>3. Is(d, {1}) \in Nat /\ Is(d, {-1}) \in Nat /\ Is(d, {1}) - Is(d, {-1}) = d
  BY DEF Is
<1> QED
  BY <1>1, <1>2, <1>3, CountedTyped DEF Counted

LEMMA CountCounts ==
  ASSUME TypeInv, Count
  PROVE  Counted' = Counted
<1>1. CASE Counter!Apply
  <2> DEFINE d == Head(changes)
  <2>1. /\ changes \in Seq({1, -1}) /\ changes # << >> /\ d \in {1, -1}
        /\ changes' = Tail(changes) /\ processing' = processing + d
    BY <1>1 DEF TypeInv, TypeOK, Counter!TypeOK, Counter!Apply
  <2>2. /\ Cardinality(At(changes, {1})') = Cardinality(At(changes, {1})) - Is(d, {1})
        /\ Cardinality(At(changes, {-1})') = Cardinality(At(changes, {-1})) - Is(d, {-1})
    BY <2>1, TailAt
  <2>3. Is(d, {1}) \in Nat /\ Is(d, {-1}) \in Nat /\ Is(d, {1}) - Is(d, {-1}) = d
    BY <2>1 DEF Is
  <2> QED
    BY <2>1, <2>2, <2>3, CountedTyped DEF Counted
<1>2. CASE Counter!Stop(cancelled)
  BY <1>2 DEF Counter!Stop, Counted
<1> QED
  BY <1>1, <1>2 DEF Count

\* One lane may take up or leave a command, ...
LEMMA HeldAfter ==
  ASSUME NEW l \in Lanes, \A m \in Lanes \ {l} : Holding(m)' <=> Holding(m)
  PROVE  /\ Cardinality(Held) \in Nat
         /\ (Holding(l)' <=> Holding(l)) => Cardinality(Held)' = Cardinality(Held)
         /\ ~Holding(l) /\ Holding(l)' => Cardinality(Held)' = Cardinality(Held) + 1
         /\ Holding(l) /\ ~Holding(l)' => Cardinality(Held)' = Cardinality(Held) - 1
<1>1. IsFiniteSet(Held) /\ Cardinality(Held) \in Nat
  BY LanesFinite DEF Held
<1>2. (Holding(l)' <=> Holding(l)) => Held' = Held
  BY DEF Held
<1>3. ~Holding(l) /\ Holding(l)' => Held' = Held \cup {l} /\ l \notin Held
  BY DEF Held
<1>4. Holding(l) /\ ~Holding(l)' => Held' = Held \ {l} /\ l \in Held
  BY DEF Held
<1> QED
  BY <1>1, <1>2, <1>3, <1>4, OneMore, OneLess

\* ... and one caller of enqueue come to the count or leave it.
LEMMA UncountedAfter ==
  ASSUME NEW p \in Callers, \A q \in Callers \ {p} : pc'[q] = pc[q]
  PROVE  /\ Cardinality(Uncounted) \in Nat
         /\ (pc'[p] = "add" <=> pc[p] = "add") =>
              Cardinality(Uncounted)' = Cardinality(Uncounted)
         /\ pc[p] # "add" /\ pc'[p] = "add" =>
              Cardinality(Uncounted)' = Cardinality(Uncounted) + 1
         /\ pc[p] = "add" /\ pc'[p] # "add" =>
              Cardinality(Uncounted)' = Cardinality(Uncounted) - 1
<1>1. IsFiniteSet(Uncounted) /\ Cardinality(Uncounted) \in Nat
  BY CallersFinite DEF Uncounted
<1>2. (pc'[p] = "add" <=> pc[p] = "add") => Uncounted' = Uncounted
  BY DEF Uncounted
<1>3. pc[p] # "add" /\ pc'[p] = "add" => Uncounted' = Uncounted \cup {p} /\ p \notin Uncounted
  BY DEF Uncounted
<1>4. pc[p] = "add" /\ pc'[p] # "add" => Uncounted' = Uncounted \ {p} /\ p \in Uncounted
  BY DEF Uncounted
<1> QED
  BY <1>1, <1>2, <1>3, <1>4, OneMore, OneLess

\* Nothing is queued, counted, taken or settled.
Still ==
  /\ UNCHANGED <<changes, processing, channel, hand, fbq>>
  /\ \A p \in Callers : pc'[p] = "add" <=> pc[p] = "add"
  /\ \A l \in Lanes : Holding(l)' <=> Holding(l)

Shift ==
  \/ \E w \in Workers : ForwardRequest(w) \/ Dispatch(w)
  \/ \E p \in Callers : PushRequest(p) \/ CountUp(p)
  \/ \E l \in Lanes : Take(l) \/ FetchError(l) \/ Redirected(l) \/ NotRequested(l)
                        \/ CountDown(l) \/ Completed(l)
  \/ Count \/ Restart

LEMMA StillOrNot ==
  ASSUME TypeInv, [Next]_vars
  PROVE  Still \/ Shift
<1> USE DEF Still, queueVars, counterVars, fetchVars, Holding, Goto, Enqueue, EnqueueReturns
<1>1. /\ pc \in [Procs -> Labels] /\ ret \in [Callers -> {"seed", "sub", "links"}]
      /\ Procs = Lanes \cup {Seeder, Scanner, Signal} /\ Callers = Lanes \cup {Seeder}
      /\ Stoppers = Lanes \cup {Scanner, Signal}
      /\ {Seeder, Scanner, Signal} \cap Lanes = {} /\ Seeder # Scanner /\ Seeder # Signal
  BY CrawlAssumption DEF TypeInv, TypeOK, Procs, Callers, Stoppers
<1>2. ASSUME NEW p \in Callers, EnqueueStep(p) PROVE Still \/ PushRequest(p) \/ CountUp(p)
  <2>1. CASE ReadStopping(p)
    BY ONLY <1>1, <2>1, p \in Callers DEF ReadStopping
  <2>2. CASE Reject(p)
    BY ONLY <1>1, <2>2, p \in Callers DEF Reject
  <2>3. CASE PutQueued(p)
    BY ONLY <1>1, <2>3, p \in Callers DEF PutQueued
  <2> QED
    BY ONLY <1>2, <2>1, <2>2, <2>3 DEF EnqueueStep
<1>3. ASSUME NEW l \in Lanes, LaneStep(l)
      PROVE  \/ Still \/ Take(l) \/ FetchError(l) \/ Redirected(l) \/ NotRequested(l)
             \/ CountDown(l) \/ Completed(l)
  <2>1. CASE RecordRedirect(l) \/ Responded(l)
    BY ONLY <1>1, <2>1, l \in Lanes DEF RecordRedirect, Responded
  <2>2. CASE Succeed(l) \/ OutOfAttempts(l) \/ GiveUp(l)
    BY ONLY <1>1, <2>2, l \in Lanes DEF Succeed, OutOfAttempts, GiveUp
  <2>3. CASE Retry(l)
    BY ONLY <1>1, <2>3, l \in Lanes DEF Retry
  <2>4. CASE Settle(l)
    BY ONLY <1>1, <2>4, l \in Lanes DEF Settle, AfterWait
  <2>5. CASE CheckLink(l)
    BY ONLY <1>1, <2>5, l \in Lanes DEF CheckLink
  <2> QED
    BY ONLY <1>3, <2>1, <2>2, <2>3, <2>4, <2>5 DEF LaneStep
<1>4. CASE ReadSeed
  BY ONLY <1>1, <1>4 DEF ReadSeed
<1>5. CASE ScanQueue \/ ScanProcessing \/ Interrupt
  BY ONLY <1>1, <1>5 DEF ScanQueue, ScanProcessing, Interrupt
<1>6. ASSUME NEW h \in Handlers, NEW u \in URLs, HandleResource(h, u) PROVE Still
  BY ONLY <1>6 DEF HandleResource
<1>7. ASSUME NEW p \in Stoppers, ShutdownStep(p) PROVE Still
  BY ONLY <1>1, <1>7, p \in Stoppers DEF ShutdownStep, SetStopping, MeasureQueue, Cancel,
       Generate, WriteFile, ShutdownReturns
<1>8. ASSUME NEW p \in Stoppers, NEW l \in Lanes, Handshake(p, l) PROVE Still
  BY ONLY <1>1, <1>8, p \in Stoppers, l \in Lanes DEF Handshake, AfterWait
<1>9. CASE UNCHANGED vars
  BY ONLY <1>9 DEF vars
<1> HIDE DEF Still
<1>10. ASSUME NEW l \in Lanes, LaneStep(l) PROVE Still \/ Shift
  BY ONLY <1>3, <1>10, l \in Lanes DEF Shift
<1>11. ASSUME NEW p \in Callers, EnqueueStep(p) PROVE Still \/ Shift
  BY ONLY <1>2, <1>11, p \in Callers DEF Shift
<1>12. ASSUME \/ \E w \in Workers : ForwardRequest(w) \/ Dispatch(w)
              \/ Count \/ Restart
       PROVE  Shift
  BY ONLY <1>12 DEF Shift
<1>13. CASE Next
  BY ONLY <1>13, <1>4, <1>5, <1>6, <1>7, <1>8, <1>10, <1>11, <1>12 DEF Next
<1> QED
  BY <1>9, <1>13

\* What a lane was given is a response, never a redirect, unless those are recorded.
ResponseInv ==
  \A l \in Lanes : /\ pc[l] \notin {"idle", "fetch"} => rsc[l].kind # "redirect"
                   /\ pc[l] = "get" => rsc[l].url = Canon[flight[l].cmd]

\* The steps that lose a request: no fetcher takes it, its fetch fails or is
\* redirected without end, or its response is not for a request in the store.
Loss ==
  \/ \E w \in Workers : Dispatch(w) /\ LaneFor[w][slot[w]][hand[w]] = None
  \/ \E l \in Lanes : FetchError(l) \/ Redirected(l) \/ NotRequested(l)

LEMMA GapTyped ==
  ASSUME TypeInv, FiniteInv
  PROVE  /\ Counted \in Int /\ Cardinality(Uncounted) \in Nat
         /\ Waiting(URLs) \in Nat /\ Cardinality(Held) \in Nat
         /\ Gap = Counted + Cardinality(Uncounted) - (Waiting(URLs) + Cardinality(Held))
  BY CountedTyped, WaitingTyped, LanesFinite, CallersFinite
  DEF Gap, InPipeline, Held, Uncounted

\* A lane that takes, settles or loses a command.
LEMMA LaneShiftsGap ==
  ASSUME TypeInv, FiniteInv, ResponseInv, NEW l \in Lanes,
         \/ Take(l) \/ FetchError(l) \/ Redirected(l) \/ NotRequested(l)
         \/ CountDown(l) \/ Completed(l)
  PROVE  FiniteInv' /\ (Gap' = Gap \/ (Gap' = Gap + 1 /\ Loss))
<1>1. /\ pc \in [Procs -> Labels] /\ fbq \in [Lanes -> Seq(URLs)]
      /\ Lanes \subseteq Procs /\ Callers \subseteq Procs /\ l \in Callers
  BY DEF TypeInv, TypeOK, Procs, Callers
<1>0. Gap' = Counted' + Cardinality(Uncounted)' - (Waiting(URLs)' + Cardinality(Held)')
  BY DEF Gap, InPipeline
<1> DEFINE Alone(label) == pc' = [pc EXCEPT ![l] = label] /\ ret' = ret
<1>2. ASSUME NEW label, Alone(label), label # "add", pc[l] # "add"
      PROVE  /\ Cardinality(Uncounted)' = Cardinality(Uncounted)
             /\ \A m \in Lanes \ {l} : Holding(m)' <=> Holding(m)
  <2>1. /\ \A q \in Callers \ {l} : pc'[q] = pc[q]
        /\ pc'[l] = "add" <=> pc[l] = "add"
    BY <1>1, <1>2
  <2> HIDE DEF Alone
  <2>2. Cardinality(Uncounted)' = Cardinality(Uncounted)
    BY ONLY <1>1, <2>1, UncountedAfter
  <2>3. \A m \in Lanes \ {l} : Holding(m)' <=> Holding(m)
    BY <1>1, <1>2 DEF Holding, Alone
  <2> QED
    BY <2>2, <2>3
<1>3. CASE Take(l)
  <2>1. /\ Alone("fetch") /\ pc[l] = "idle" /\ fbq[l] # << >>
        /\ UNCHANGED <<changes, processing>>
    BY <1>3 DEF Take, Goto, counterVars
  <2>2. Holding(l)' /\ ~Holding(l)
    BY <1>1, <2>1 DEF Holding
  <2>3. Is(Head(fbq[l]), URLs) = 1
    BY <1>1, <2>1 DEF Is
  <2>4. FiniteInv' /\ Waiting(URLs)' = Waiting(URLs) - 1
    BY <1>3, <2>3, TakeWaits
  <2>5. Cardinality(Held)' = Cardinality(Held) + 1 /\ Cardinality(Uncounted)' = Cardinality(Uncounted)
    BY <1>2, <2>1, <2>2, HeldAfter
  <2>6. Counted' = Counted
    BY <2>1 DEF Counted
  <2>7. Gap' = Gap
    BY ONLY <1>0, <2>4, <2>5, <2>6, TypeInv, FiniteInv, GapTyped
  <2> QED
    BY ONLY <2>4, <2>7
<1>4. ASSUME FetchError(l) \/ Redirected(l) \/ NotRequested(l) \/ Completed(l)
      PROVE  FiniteInv' /\ (Gap' = Gap \/ (Gap' = Gap + 1 /\ Loss))
  <2>1. UNCHANGED <<changes, processing, channel, hand, fbq>>
    BY <1>4 DEF FetchError, Redirected, NotRequested, Completed, counterVars, queueVars,
         fetchVars
  <2>2. FiniteInv' /\ Waiting(URLs)' = Waiting(URLs) /\ Counted' = Counted
    BY <2>1, StayWaits DEF Counted
  <2>3. CASE FetchError(l) \/ Redirected(l) \/ NotRequested(l)
    <3>1. PICK label \in {"idle", "fetch", "links"} :
            Alone(label) /\ pc[l] \in {"fetch", "get"}
      BY <2>3 DEF FetchError, Redirected, NotRequested, FollowRedirect, Land, Goto
    <3>2. Holding(l)
      BY <3>1 DEF Holding
    <3>3. /\ \A m \in Lanes \ {l} : Holding(m)' <=> Holding(m)
          /\ Cardinality(Uncounted)' = Cardinality(Uncounted)
      BY <1>2, <3>1
    <3>4. \/ Cardinality(Held)' = Cardinality(Held)
          \/ Cardinality(Held)' = Cardinality(Held) - 1
      BY <3>2, <3>3, HeldAfter
    <3>5. Loss
      BY <2>3 DEF Loss
    <3> QED
      BY ONLY <1>0, <2>2, <3>3, <3>4, <3>5, TypeInv, FiniteInv, GapTyped
  <2>4. CASE Completed(l) /\ pc[l] # "fetch"
    <3>1. Alone("idle") /\ pc[l] = "links"
      <4>1. pc[l] = "links" /\ rsc[l].kind # "redirect"
        BY <2>4 DEF ResponseInv, Completed
      <4> QED
        BY <2>4, <4>1 DEF Completed, Land, Goto
    <3>2. Holding(l)' <=> Holding(l)
      BY <1>1, <3>1 DEF Holding
    <3>3. /\ Cardinality(Held)' = Cardinality(Held)
          /\ Cardinality(Uncounted)' = Cardinality(Uncounted)
      BY <1>2, <3>1, <3>2, HeldAfter
    <3>4. Gap' = Gap
      BY ONLY <1>0, <2>2, <3>3, TypeInv, FiniteInv, GapTyped
    <3> QED
      BY ONLY <2>2, <3>4
  <2> QED
    BY <1>4, <2>3, <2>4 DEF Completed
<1>5. CASE CountDown(l)
  <2>1. /\ Alone("settle") /\ pc[l] = "sub" /\ Counter!Send(-1)
        /\ UNCHANGED <<channel, hand, fbq>>
    BY <1>5 DEF CountDown, Goto, queueVars, fetchVars
  <2>2. Holding(l) /\ ~Holding(l)'
    BY <1>1, <2>1 DEF Holding
  <2>3. /\ Cardinality(Held)' = Cardinality(Held) - 1
        /\ Cardinality(Uncounted)' = Cardinality(Uncounted)
    BY <1>2, <2>1, <2>2, HeldAfter
  <2>4. Counted' = Counted + (-1)
    BY <2>1, SendCounts
  <2>5. FiniteInv' /\ Waiting(URLs)' = Waiting(URLs)
    BY <2>1, StayWaits
  <2>6. Gap' = Gap
    BY ONLY <1>0, <2>3, <2>4, <2>5, TypeInv, FiniteInv, GapTyped
  <2> QED
    BY ONLY <2>5, <2>6
<1> QED
  BY <1>3, <1>4, <1>5

LEMMA FreshGap == (Fresh => Gap = 0) /\ (Fresh' => Gap' = 0)
<1>1. \A l \in Lanes : l \in Procs /\ l # Seeder
  BY CrawlAssumption DEF Procs, Callers
<1>2. Seeder \in Procs
  BY DEF Procs, Callers
<1>3. URLs \in SUBSET URLs
  OBVIOUS
<1>4. Cardinality({}) = 0
  BY FS_EmptySet
<1>5. ASSUME Fresh PROVE Gap = 0
  <2>1. Held = {} /\ Uncounted = {}
    BY <1>1, <1>2, <1>5 DEF Fresh, Held, Holding, Uncounted, Callers, Started
  <2>2. At(changes, {1}) = {} /\ At(changes, {-1}) = {} /\ processing = 0
    BY <1>5 DEF Fresh, At
  <2>3. Waiting(URLs) = 0
    BY <1>3, <1>5, FreshWaits
  <2> QED
    BY ONLY <1>4, <2>1, <2>2, <2>3 DEF Gap, InPipeline, Counted
<1>6. ASSUME Fresh' PROVE Gap' = 0
  <2>1. Held' = {} /\ Uncounted' = {}
    BY <1>1, <1>2, <1>6 DEF Fresh, Held, Holding, Uncounted, Callers, Started
  <2>2. At(changes, {1})' = {} /\ At(changes, {-1})' = {} /\ processing' = 0
    BY <1>6 DEF Fresh, At
  <2>3. Waiting(URLs)' = 0
    BY <1>3, <1>6, FreshWaits
  <2> QED
    BY ONLY <1>4, <2>1, <2>2, <2>3 DEF Gap, InPipeline, Counted
<1> QED
  BY <1>5, <1>6

LEMMA GapStep ==
  ASSUME TypeInv, FiniteInv, ResponseInv, [Next]_vars
  PROVE  FiniteInv' /\ (Gap' = Gap \/ Gap' = 0 \/ (Gap' = Gap + 1 /\ Loss))
<1>0. Gap' = Counted' + Cardinality(Uncounted)' - (Waiting(URLs)' + Cardinality(Held)')
  BY DEF Gap, InPipeline
<1>1. CASE Still
  <2>1. UNCHANGED <<changes, processing, channel, hand, fbq>>
    BY <1>1 DEF Still
  <2>2. FiniteInv' /\ Waiting(URLs)' = Waiting(URLs) /\ Counted' = Counted
    BY <2>1, StayWaits DEF Counted
  <2>3. Held' = Held /\ Uncounted' = Uncounted
    BY <1>1 DEF Still, Held, Uncounted
  <2>4. Gap' = Gap
    BY ONLY <2>2, <2>3 DEF Gap, InPipeline
  <2> QED
    BY <2>2, <2>4
<1>2. ASSUME NEW w \in Workers, ForwardRequest(w) \/ Dispatch(w)
      PROVE  FiniteInv' /\ (Gap' = Gap \/ (Gap' = Gap + 1 /\ Loss))
  <2>1. Counted' = Counted /\ Held' = Held /\ Uncounted' = Uncounted
    BY <1>2 DEF ForwardRequest, Dispatch, counterVars, Counted, Held, Holding, Uncounted
  <2>2. CASE Waiting(URLs)' = Waiting(URLs) /\ FiniteInv'
    <3>1. Gap' = Gap
      BY ONLY <2>1, <2>2 DEF Gap, InPipeline
    <3> QED
      BY <2>2, <3>1
  <2>3. CASE ForwardRequest(w)
    BY <2>2, <2>3, ForwardWaits
  <2>4. CASE Dispatch(w) /\ LaneFor[w][slot[w]][hand[w]] # None
    <3>1. FiniteInv' /\ Waiting(URLs)' = Waiting(URLs) - 0
      BY <2>4, DispatchWaits
    <3> QED
      BY <2>2, <3>1, WaitingTyped
  <2>5. CASE Dispatch(w) /\ LaneFor[w][slot[w]][hand[w]] = None
    <3>1. FiniteInv' /\ Waiting(URLs)' = Waiting(URLs) - Is(hand[w], URLs)
      BY <2>5, DispatchWaits
    <3>2. Is(hand[w], URLs) = 1
      BY <2>5 DEF Is, Dispatch, Queue!Deliver, TypeInv, TypeOK, Queue!TypeOK
    <3>3. Gap' = Gap + 1
      BY ONLY <1>0, <2>1, <3>1, <3>2, TypeInv, FiniteInv, GapTyped
    <3> QED
      BY <2>5, <3>1, <3>3 DEF Loss
  <2> QED
    BY <1>2, <2>3, <2>4, <2>5
<1>3. ASSUME NEW p \in Callers, PushRequest(p) \/ CountUp(p)
      PROVE  FiniteInv' /\ Gap' = Gap
  <2>1. pc \in [Procs -> Labels] /\ p \in Procs /\ Callers \subseteq Procs /\ Lanes \subseteq Callers
    BY DEF TypeInv, TypeOK, Procs, Callers
  <2>2. CASE PushRequest(p)
    <3>1. /\ pc[p] = "push" /\ pc' = [pc EXCEPT ![p] = "add"]
          /\ UNCHANGED <<changes, processing, ret>>
      BY <2>2 DEF PushRequest, Goto, counterVars
    <3>2. Is(fr[p].url, URLs) = 1
      BY <3>1 DEF Is, TypeInv, Locals, InCall, Request
    <3>3. FiniteInv' /\ Waiting(URLs)' = Waiting(URLs) + 1
      BY <2>2, <3>2, PushWaits
    <3>4. Held' = Held /\ Counted' = Counted
      BY <2>1, <3>1 DEF Held, Holding, Counted
    <3>5. Cardinality(Uncounted)' = Cardinality(Uncounted) + 1
      BY <2>1, <3>1, UncountedAfter
    <3>6. Gap' = Gap
      BY ONLY <1>0, <3>3, <3>4, <3>5, TypeInv, FiniteInv, GapTyped
    <3> QED
      BY <3>3, <3>6
  <2>3. CASE CountUp(p)
    <3>1. /\ pc[p] = "add" /\ pc' = [pc EXCEPT ![p] = ret[p]] /\ ret[p] # "add"
          /\ Counter!Send(1) /\ UNCHANGED <<channel, hand, fbq, ret>>
      BY <2>3 DEF CountUp, EnqueueReturns, Goto, queueVars, fetchVars, TypeInv, TypeOK
    <3>2. FiniteInv' /\ Waiting(URLs)' = Waiting(URLs)
      BY <3>1, StayWaits
    <3>3. Held' = Held
      <4>1. ret[p] \in {"seed", "sub", "links"}
        BY DEF TypeInv, TypeOK
      <4> QED
        BY <2>1, <3>1, <4>1 DEF Held, Holding
    <3>4. Counted' = Counted + 1
      BY <3>1, SendCounts
    <3>5. Cardinality(Uncounted)' = Cardinality(Uncounted) - 1
      BY <2>1, <3>1, UncountedAfter
    <3>6. Gap' = Gap
      BY ONLY <1>0, <3>2, <3>3, <3>4, <3>5, TypeInv, FiniteInv, GapTyped
    <3> QED
      BY <3>2, <3>6
  <2> QED
    BY <1>3, <2>2, <2>3
<1>4. CASE Count
  <2>1. UNCHANGED <<channel, hand, fbq, pc, ret>>
    BY <1>4 DEF Count, queueVars, fetchVars
  <2>2. FiniteInv' /\ Waiting(URLs)' = Waiting(URLs) /\ Counted' = Counted
    BY <1>4, <2>1, StayWaits, CountCounts
  <2>3. Held' = Held /\ Uncounted' = Uncounted
    BY <2>1 DEF Held, Holding, Uncounted
  <2>4. Gap' = Gap
    BY ONLY <2>2, <2>3 DEF Gap, InPipeline
  <2> QED
    BY <2>2, <2>4
<1>5. CASE Restart
  <2>1. Fresh'
    BY <1>5 DEF Restart, Fresh
  <2> QED
    BY <2>1, FreshGap, FreshWaits
<1> QED
  BY ONLY TypeInv, FiniteInv, ResponseInv, [Next]_vars, <1>1, <1>2, <1>3, <1>4, <1>5,
          StillOrNot, LaneShiftsGap DEF Shift

\* Only these steps give a lane another command or another resource.
Exchange ==
  \/ \E l \in Lanes : Take(l) \/ FetchError(l) \/ Redirected(l) \/ RecordRedirect(l)
                        \/ Responded(l) \/ Completed(l)
  \/ Restart

Early == {"idle", "fetch"}

LEMMA ExchangeOrNot ==
  ASSUME TypeInv, [Next]_vars
  PROVE  \/ /\ UNCHANGED <<flight, rsc>>
            /\ \A l \in Lanes : /\ pc'[l] \notin Early => pc[l] \notin Early
                                /\ pc'[l] = "get" => pc[l] = "get"
         \/ Exchange
<1> DEFINE Kept == /\ UNCHANGED <<flight, rsc>>
                   /\ \A l \in Lanes : /\ pc'[l] \notin Early => pc[l] \notin Early
                                       /\ pc'[l] = "get" => pc[l] = "get"
<1> USE DEF Early, laneVars, Goto, Enqueue, EnqueueReturns
<1>1. /\ pc \in [Procs -> Labels] /\ ret \in [Callers -> {"seed", "sub", "links"}]
      /\ Procs = Lanes \cup {Seeder, Scanner, Signal} /\ Callers = Lanes \cup {Seeder}
      /\ Stoppers = Lanes \cup {Scanner, Signal}
  BY DEF TypeInv, TypeOK, Procs, Callers, Stoppers
<1>2. ASSUME NEW p \in Callers, EnqueueStep(p) PROVE Kept
  <2>1. CASE ReadStopping(p) \/ PutQueued(p) \/ PushRequest(p)
    BY ONLY <1>1, <2>1, p \in Callers DEF ReadStopping, PutQueued, PushRequest
  <2>2. CASE Reject(p) \/ CountUp(p)
    BY ONLY <1>1, <2>2, p \in Callers DEF Reject, CountUp
  <2> QED
    BY ONLY <1>2, <2>1, <2>2 DEF EnqueueStep
<1>3. ASSUME NEW l \in Lanes, LaneStep(l) PROVE Kept \/ Exchange
  <2>1. CASE NotRequested(l) \/ Succeed(l) \/ Retry(l) \/ OutOfAttempts(l) \/ GiveUp(l)
    BY ONLY <1>1, <2>1, l \in Lanes DEF NotRequested, Succeed, Retry, OutOfAttempts, GiveUp
  <2>2. CASE CountDown(l) \/ Settle(l) \/ CheckLink(l)
    BY ONLY <1>1, <2>2, l \in Lanes DEF CountDown, Settle, AfterWait, CheckLink
  <2> HIDE DEF Kept
  <2>3. CASE \/ Take(l) \/ FetchError(l) \/ Redirected(l) \/ RecordRedirect(l)
             \/ Responded(l) \/ Completed(l)
    BY ONLY <2>3, l \in Lanes DEF Exchange
  <2> QED
    BY ONLY <1>3, <2>1, <2>2, <2>3 DEF LaneStep
<1>4. ASSUME ReadSeed \/ ScanQueue \/ ScanProcessing \/ Interrupt \/ Count PROVE Kept
  BY ONLY <1>1, <1>4, CrawlAssumption
  DEF ReadSeed, ScanQueue, ScanProcessing, Interrupt, Count
<1>5. ASSUME NEW h \in Handlers, NEW u \in URLs, HandleResource(h, u) PROVE Kept
  BY ONLY <1>5 DEF HandleResource
<1>11. ASSUME NEW w \in Workers, ForwardRequest(w) \/ Dispatch(w) PROVE Kept
  BY ONLY <1>11 DEF ForwardRequest, Dispatch
<1>6. ASSUME NEW p \in Stoppers, ShutdownStep(p) PROVE Kept
  BY ONLY <1>1, <1>6, p \in Stoppers DEF ShutdownStep, SetStopping, MeasureQueue, Cancel,
       Generate, WriteFile, ShutdownReturns
<1>7. ASSUME NEW p \in Stoppers, NEW l \in Lanes, Handshake(p, l) PROVE Kept
  BY ONLY <1>1, <1>7, p \in Stoppers, l \in Lanes DEF Handshake, AfterWait
<1>8. CASE UNCHANGED vars
  BY ONLY <1>8 DEF vars
<1> HIDE DEF Kept
<1>9. ASSUME Restart PROVE Exchange
  BY ONLY <1>9 DEF Exchange
<1>10. ASSUME Next PROVE Kept \/ Exchange
  BY ONLY <1>10, <1>2, <1>3, <1>4, <1>5, <1>6, <1>7, <1>9, <1>11 DEF Next
<1> QED
  BY <1>8, <1>10 DEF Kept

LEMMA StepResponds ==
  ASSUME ~RecordRedirects, TypeInv, ResponseInv, [Next]_vars
  PROVE  ResponseInv'
<1>1. /\ pc \in [Procs -> Labels] /\ rsc \in [Lanes -> Resource \cup {None}]
      /\ flight \in [Lanes -> Flight \cup {None}] /\ Lanes \subseteq Procs
  BY DEF TypeInv, TypeOK, Procs, Callers
<1>2. CASE /\ UNCHANGED <<flight, rsc>>
           /\ \A l \in Lanes : /\ pc'[l] \notin Early => pc[l] \notin Early
                               /\ pc'[l] = "get" => pc[l] = "get"
  BY <1>2 DEF ResponseInv, Early
<1>3. ASSUME NEW l \in Lanes, Responded(l) PROVE ResponseInv'
  <2>1. PICK kind \in Outcomes \ {"error"} :
          rsc' = [rsc EXCEPT ![l] = [url |-> ResponseURL(flight[l]), kind |-> kind]]
    BY <1>3 DEF Responded
  <2>2. pc' = [pc EXCEPT ![l] = "get"] /\ flight' = flight
    BY <1>3 DEF Responded, Goto
  <2>3. kind # "redirect" /\ ResponseURL(flight[l]) = Canon[flight[l].cmd]
    BY CrawlAssumption DEF ResponseURL
  <2>4. rsc'[l].kind = kind /\ rsc'[l].url = Canon[flight[l].cmd]
    BY <1>1, <2>1, <2>3
  <2>5. \A m \in Lanes \ {l} : rsc'[m] = rsc[m] /\ pc'[m] = pc[m]
    BY <1>1, <2>1, <2>2
  <2> QED
    BY ONLY <2>2, <2>3, <2>4, <2>5, ResponseInv DEF ResponseInv
<1>4. ASSUME NEW l \in Lanes,
             \/ Take(l) \/ FetchError(l) \/ Redirected(l)
             \/ Completed(l) /\ rsc[l].kind # "redirect"
      PROVE  ResponseInv'
  <2>1. pc'[l] \in Early
    BY <1>1, <1>4
    DEF Early, Take, FetchError, Redirected, Completed, FollowRedirect, Land, Goto
  <2>2. \A m \in Lanes \ {l} : rsc'[m] = rsc[m] /\ pc'[m] = pc[m] /\ flight'[m] = flight[m]
    BY <1>1, <1>4
    DEF Take, FetchError, Redirected, Completed, FollowRedirect, Land, Goto
  <2> QED
    BY ONLY <2>1, <2>2, ResponseInv DEF ResponseInv, Early
<1>5. ASSUME NEW l \in Lanes, Completed(l) PROVE rsc[l].kind # "redirect"
  BY <1>5 DEF Completed, ResponseInv
<1>6. ASSUME NEW l \in Lanes, RecordRedirect(l) PROVE FALSE
  BY <1>6 DEF RecordRedirect, Recorded
<1>7. CASE Restart
  BY <1>7, CrawlAssumption DEF Restart, Started, ResponseInv, Procs, Callers
<1> QED
  BY ONLY TypeInv, [Next]_vars, <1>2, <1>3, <1>4, <1>5, <1>6, <1>7, ExchangeOrNot DEF Exchange

LEMMA InitGauge == Init => FiniteInv /\ ResponseInv /\ Gap = 0
<1> SUFFICES ASSUME Init PROVE FiniteInv /\ ResponseInv /\ Gap = 0
  OBVIOUS
<1>1. Fresh
  BY DEF Init, Fresh, Queue!Init, Counter!Init
<1>2. ResponseInv
  BY CrawlAssumption DEF Init, ResponseInv, Started, Procs, Callers
<1> QED
  BY <1>1, <1>2, FreshGap, FreshWaits

\* However the lanes, the seeder and the counter interleave, and whatever fails,
\* the counter with its pending changes is never lower than the number of
\* requests in the pipeline: no request is counted down before it is counted up
\* again elsewhere.  Recording a redirect counts a request down once per hop.
THEOREM GaugeNeverLow ==
  ASSUME ~RecordRedirects
  PROVE  Safety => []GaugeNotLow
<1> DEFINE GaugeInv == FiniteInv /\ ResponseInv /\ Gap >= 0
<1>1. Init => GaugeInv
  BY InitGauge DEF GaugeInv
<1>2. TypeInv /\ GaugeInv /\ [Next]_vars => GaugeInv'
  <2> SUFFICES ASSUME TypeInv, GaugeInv, [Next]_vars PROVE GaugeInv'
    OBVIOUS
  <2>1. Gap \in Int
    BY GapTyped DEF GaugeInv
  <2> QED
    BY <2>1, GapStep, StepResponds DEF GaugeInv
<1>3. TypeInv /\ GaugeInv => GaugeNotLow
  <2> SUFFICES ASSUME TypeInv, GaugeInv PROVE GaugeNotLow
    OBVIOUS
  <2> QED
    BY GapTyped DEF GaugeInv, GaugeNotLow, Gap, InPipeline
<1>4. Safety => []TypeInv
  BY CrawlTyped DEF TypeInv
<1> QED
  BY <1>1, <1>2, <1>3, <1>4, PTL DEF Safety

\* A crawl in which every request is taken by a fetcher and answered, by a
\* response that carries its URL.
AllAnswered ==
  /\ ~RecordRedirects /\ "error" \notin Outcomes
  /\ \A w \in Workers : \A i \in 0 .. Parallelism[w] - 1, u \in URLs : LaneFor[w][i][u] # None
  /\ \A u \in URLs : RedirectOf[u] = None /\ Canon[u] = u

LEMMA NothingLost ==
  ASSUME AllAnswered, TypeInv, RequestsRecorded, ResponseInv
  PROVE  ~Loss
<1>1. ASSUME NEW w \in Workers, Dispatch(w), LaneFor[w][slot[w]][hand[w]] = None
      PROVE  FALSE
  <2>1. hand[w] \in URLs /\ slot[w] \in 0 .. Parallelism[w] - 1
    <3>1. /\ hand[w] # None /\ hand \in [Workers -> URLs \cup {None}]
          /\ slot \in [Workers -> Nat] /\ slot[w] < Parallelism[w]
      BY <1>1 DEF Dispatch, Queue!Deliver, TypeInv, TypeOK, Locals, Queue!TypeOK
    <3> QED
      BY <3>1, CrawlAssumption
  <2> QED
    BY <1>1, <2>1 DEF AllAnswered
<1>2. ASSUME NEW l \in Lanes, FetchError(l) \/ Redirected(l) PROVE FALSE
  BY <1>2 DEF AllAnswered, FetchError, Redirected, TypeInv, Locals, Flight
<1>3. ASSUME NEW l \in Lanes, NotRequested(l) PROVE FALSE
  <2>1. pc[l] = "get" /\ rsc[l].url \notin Known
    BY <1>3 DEF NotRequested
  <2>2. flight[l].cmd \in Known /\ flight[l].cmd \in URLs
    BY <2>1 DEF RequestsRecorded, TypeInv, Locals, Flight
  <2>3. rsc[l].url = flight[l].cmd
    BY <2>1, <2>2 DEF ResponseInv, AllAnswered
  <2> QED
    BY <2>1, <2>2, <2>3
<1> QED
  BY <1>1, <1>2, <1>3 DEF Loss

\* In such a crawl the counter is exact, also after a restart.
THEOREM GaugeIsExact ==
  ASSUME AllAnswered
  PROVE  Safety => []GaugeExact
<1> DEFINE GaugeInv == FiniteInv /\ ResponseInv /\ Gap = 0
<1>1. Init => GaugeInv
  BY InitGauge DEF GaugeInv
<1>2. TypeInv /\ RequestsRecorded /\ GaugeInv /\ [Next]_vars => GaugeInv'
  <2> SUFFICES ASSUME TypeInv, RequestsRecorded, GaugeInv, [Next]_vars PROVE GaugeInv'
    OBVIOUS
  <2>1. ~RecordRedirects
    BY DEF AllAnswered
  <2> QED
    BY <2>1, GapStep, NothingLost, StepResponds DEF GaugeInv
<1>3. TypeInv /\ GaugeInv => GaugeExact
  <2> SUFFICES ASSUME TypeInv, GaugeInv PROVE GaugeExact
    OBVIOUS
  <2> QED
    BY GapTyped DEF GaugeInv, GaugeExact, Gap, InPipeline
<1>4. Safety => []TypeInv
  BY CrawlTyped DEF TypeInv
<1>5. Safety => []RequestsRecorded
  BY RequestsStayRecorded
<1> QED
  BY <1>1, <1>2, <1>3, <1>4, <1>5, PTL DEF Safety

------------------------------------------------------------------------------
(***************************************************************************)
(* StoppingOnlyDrains.                                                     *)
(***************************************************************************)
LEMMA FiniteStep ==
  ASSUME TypeInv, FiniteInv, [Next]_vars
  PROVE  FiniteInv'
<1>1. CASE Unmoved
  BY <1>1, StayWaits DEF Unmoved
<1>2. ASSUME NEW w \in Workers, ForwardRequest(w) \/ Dispatch(w) PROVE FiniteInv'
  BY <1>2, ForwardWaits, DispatchWaits
<1>3. ASSUME NEW p \in Callers, PushRequest(p) PROVE FiniteInv'
  BY <1>3, PushWaits
<1>4. ASSUME NEW l \in Lanes, Take(l) PROVE FiniteInv'
  BY <1>4, TakeWaits
<1>5. ASSUME NEW l \in Lanes, FetchError(l) \/ Redirected(l) \/ Completed(l) PROVE FiniteInv'
  BY <1>5, StayWaits DEF FetchError, Redirected, Completed, queueVars, fetchVars
<1>6. ASSUME Restart PROVE FiniteInv'
  <2>1. Fresh'
    BY <1>6 DEF Restart, Fresh
  <2> QED
    BY <2>1, FreshWaits
<1> QED
  BY ONLY TypeInv, [Next]_vars, <1>1, <1>2, <1>3, <1>4, <1>5, <1>6, MovedOrNot DEF Moved

\* While the coordinator is stopping nobody gets past enqueue's check.
LEMMA StoppingQueuesNone ==
  ASSUME TypeInv, stopping, boots' = boots, [Next]_vars, NEW p \in Callers,
         pc'[p] \in {"put", "push"}
  PROVE  pc[p] \in {"put", "push"} /\ fr'[p] = fr[p]
<1>1. /\ pc \in [Procs -> Labels] /\ ret \in [Callers -> {"seed", "sub", "links"}]
      /\ fr \in [Callers -> Request \cup {None}] /\ Callers \subseteq Procs
      /\ Lanes \subseteq Callers /\ Seeder \in Callers /\ boots \in Nat
  BY CrawlAssumption DEF TypeInv, TypeOK, Procs, Callers
<1> USE DEF Goto, Enqueue, EnqueueReturns
<1>2. CASE Aside
  BY <1>2 DEF Aside, InCall
<1>3. ASSUME NEW q \in Callers, EnqueueStep(q)
      PROVE  pc[p] \in {"put", "push"} /\ fr'[p] = fr[p]
  <2>1. CASE ReadStopping(q)
    BY <1>1, <2>1 DEF ReadStopping
  <2>2. CASE Reject(q) \/ CountUp(q)
    BY <1>1, <2>2 DEF Reject, CountUp
  <2>3. CASE PutQueued(q) \/ PushRequest(q)
    BY <1>1, <2>3 DEF PutQueued, PushRequest
  <2> QED
    BY ONLY <1>3, <2>1, <2>2, <2>3 DEF EnqueueStep
<1>4. ASSUME NEW l \in Lanes, Retry(l) \/ OutOfAttempts(l) \/ GiveUp(l)
      PROVE  pc[p] \in {"put", "push"} /\ fr'[p] = fr[p]
  BY <1>1, <1>4 DEF Retry, OutOfAttempts, GiveUp
<1>5. ASSUME NEW l \in Lanes, CheckLink(l)
      PROVE  pc[p] \in {"put", "push"} /\ fr'[p] = fr[p]
  BY <1>1, <1>5 DEF CheckLink
<1>6. CASE ReadSeed
  BY <1>1, <1>6 DEF ReadSeed
<1>7. ~Restart
  BY <1>1 DEF Restart
<1> QED
  BY ONLY TypeInv, [Next]_vars, <1>2, <1>3, <1>4, <1>5, <1>6, <1>7, AsideOrNot

LEMMA LoadTyped ==
  ASSUME TypeInv, FiniteInv
  PROVE  /\ Waiting(URLs) \in Nat
         /\ IsFiniteSet(Queuing(URLs)) /\ Cardinality(Queuing(URLs)) \in Nat
         /\ IsFiniteSet(Busy) /\ Cardinality(Busy) \in Nat
  BY WaitingTyped, LanesFinite, CallersFinite DEF Queuing, Busy

\* A lane that is given no command does not become busy.
LEMMA BusyShrinks ==
  ASSUME TypeInv, \A l \in Lanes : pc[l] = "idle" => pc'[l] = "idle"
  PROVE  Cardinality(Busy') <= Cardinality(Busy)
<1>1. Busy' \subseteq Busy
  BY DEF Busy
<1>2. IsFiniteSet(Busy)
  BY LanesFinite DEF Busy
<1> QED
  BY <1>1, <1>2, FS_Subset

LEMMA LoadStep ==
  ASSUME TypeInv, FiniteInv, stopping, boots' = boots, [Next]_vars
  PROVE  Load' <= Load
<1>0. Load' = Waiting(URLs)' + Cardinality(Queuing(URLs)') + Cardinality(Busy')
  BY DEF Load
<1>1. /\ pc \in [Procs -> Labels] /\ Lanes \subseteq Procs /\ Callers \subseteq Procs
      /\ fbq \in [Lanes -> Seq(URLs)] /\ boots \in Nat /\ Lanes \subseteq Callers
  BY CrawlAssumption DEF TypeInv, TypeOK, Procs, Callers
<1>2. /\ Queuing(URLs)' \subseteq Queuing(URLs)
      /\ Cardinality(Queuing(URLs)') \in Nat /\ Cardinality(Busy') \in Nat
      /\ Cardinality(Queuing(URLs)') <= Cardinality(Queuing(URLs))
  <2>1. Queuing(URLs)' \subseteq Queuing(URLs)
    BY StoppingQueuesNone DEF Queuing
  <2>2. Busy' \in SUBSET Lanes /\ Queuing(URLs)' \in SUBSET Callers
    BY DEF Busy, Queuing
  <2> QED
    BY <2>1, <2>2, LoadTyped, LanesFinite, CallersFinite, FS_Subset
<1>3. CASE Unmoved
  <2>1. Waiting(URLs)' = Waiting(URLs)
    BY <1>3, StayWaits DEF Unmoved
  <2>2. Cardinality(Busy') <= Cardinality(Busy)
    BY <1>3, BusyShrinks DEF Unmoved
  <2> QED
    BY ONLY TypeInv, FiniteInv, <1>0, <1>2, <2>1, <2>2, LoadTyped DEF Load
<1>4. ASSUME NEW w \in Workers, ForwardRequest(w) \/ Dispatch(w) PROVE Load' <= Load
  <2>1. CASE ForwardRequest(w)
    <3>1. Waiting(URLs)' = Waiting(URLs)
      BY <2>1, ForwardWaits
    <3>2. Cardinality(Busy') <= Cardinality(Busy)
      BY <2>1, BusyShrinks DEF ForwardRequest
    <3> QED
      BY ONLY TypeInv, FiniteInv, <1>0, <1>2, <3>1, <3>2, LoadTyped DEF Load
  <2>2. CASE Dispatch(w)
    <3>1. Waiting(URLs)' <= Waiting(URLs) /\ Waiting(URLs)' \in Int
      <4>1. PICK lost \in {0, 1} : Waiting(URLs)' = Waiting(URLs) - lost
        BY <2>2, DispatchWaits DEF Is
      <4> QED
        BY <4>1, WaitingTyped
    <3>2. Cardinality(Busy') <= Cardinality(Busy)
      BY <2>2, BusyShrinks DEF Dispatch
    <3> QED
      BY ONLY TypeInv, FiniteInv, <1>0, <1>2, <3>1, <3>2, LoadTyped DEF Load
  <2> QED
    BY <1>4, <2>1, <2>2
<1>5. ASSUME NEW p \in Callers, PushRequest(p) PROVE Load' <= Load
  <2>1. pc[p] = "push" /\ pc' = [pc EXCEPT ![p] = "add"] /\ fr' = fr
    BY <1>5 DEF PushRequest, Goto
  <2>2. fr[p].url \in URLs
    BY <2>1 DEF TypeInv, Locals, InCall, Request
  <2>3. Waiting(URLs)' = Waiting(URLs) + 1
    BY <1>5, <2>2, PushWaits DEF Is
  <2>4. Cardinality(Queuing(URLs)') = Cardinality(Queuing(URLs)) - 1
    <3>1. Queuing(URLs)' = Queuing(URLs) \ {p} /\ p \in Queuing(URLs)
      BY <1>1, <2>1, <2>2 DEF Queuing
    <3> QED
      BY <3>1, LoadTyped, OneLess
  <2>5. Cardinality(Busy') <= Cardinality(Busy)
    BY <1>1, <2>1, BusyShrinks
  <2> QED
    BY ONLY TypeInv, FiniteInv, <1>0, <1>2, <2>3, <2>4, <2>5, LoadTyped DEF Load
<1>6. ASSUME NEW l \in Lanes, Take(l) PROVE Load' <= Load
  <2>1. pc[l] = "idle" /\ pc' = [pc EXCEPT ![l] = "fetch"] /\ fbq[l] # << >>
    BY <1>6 DEF Take, Goto
  <2>2. Head(fbq[l]) \in URLs
    BY <1>1, <2>1
  <2>3. Waiting(URLs)' = Waiting(URLs) - 1
    BY <1>6, <2>2, TakeWaits DEF Is
  <2>4. Cardinality(Busy') = Cardinality(Busy) + 1
    <3>1. Busy' = Busy \cup {l} /\ l \notin Busy
      BY <1>1, <2>1 DEF Busy
    <3> QED
      BY <3>1, LoadTyped, OneMore
  <2> QED
    BY ONLY TypeInv, FiniteInv, <1>0, <1>2, <2>3, <2>4, LoadTyped DEF Load
<1>7. ASSUME NEW l \in Lanes, FetchError(l) \/ Redirected(l) \/ Completed(l)
      PROVE  Load' <= Load
  <2>1. Waiting(URLs)' = Waiting(URLs)
    BY <1>7, StayWaits DEF FetchError, Redirected, Completed, queueVars, fetchVars
  <2>2. Cardinality(Busy') <= Cardinality(Busy)
    <3>1. PICK label \in {"idle", "fetch"} : pc' = [pc EXCEPT ![l] = label] /\ pc[l] # "idle"
      BY <1>7 DEF FetchError, Redirected, Completed, FollowRedirect, Land, Goto
    <3> QED
      BY <1>1, <3>1, BusyShrinks
  <2> QED
    BY ONLY TypeInv, FiniteInv, <1>0, <1>2, <2>1, <2>2, LoadTyped DEF Load
<1>8. ~Restart
  BY <1>1 DEF Restart
<1> QED
  BY ONLY TypeInv, [Next]_vars, <1>3, <1>4, <1>5, <1>6, <1>7, <1>8, MovedOrNot DEF Moved

\* Once the flag is set the work there is never grows, whatever the lanes, the
\* seeder and the other goroutines do: no caller that reads the flag after that
\* gets a request into the queue.
THEOREM StoppingDrains == Safety => StoppingOnlyDrains
<1>1. Init => FiniteInv
  BY InitGauge
<1>2. TypeInv /\ FiniteInv /\ [Next]_vars => FiniteInv'
  BY FiniteStep
<1>3. TypeInv /\ FiniteInv /\ [Next]_vars => [stopping /\ boots' = boots => Load' <= Load]_vars
  BY LoadStep
<1>4. Safety => []TypeInv
  BY CrawlTyped DEF TypeInv
<1> QED
  BY <1>1, <1>2, <1>3, <1>4, PTL DEF Safety, StoppingOnlyDrains
==============================================================================
