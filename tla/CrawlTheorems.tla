---------------------------- MODULE CrawlTheorems ----------------------------
(***************************************************************************)
(* What follows from the abstract crawl alone, and so holds for whatever   *)
(* implements it.                                                          *)
(***************************************************************************)
EXTENDS Crawl, TLAPS

\* Records, views and files contain only what may be recorded, ever since.
Sound ==
  /\ \A h \in Handlers : recorded[h] \subseteq Recordable
  /\ \A p \in Publishers :
       views[p] # None => \E h \in Handlers, S \in SUBSET Recordable : views[p] = <<h, S>>
  /\ PublishedRequested
  /\ DOMAIN recorded = Handlers
  /\ views = [p \in Publishers |-> views[p]]
  /\ published = [h \in Handlers |-> published[h]]

LEMMA StepSound == Sound /\ [Next]_vars => Sound'
<1> SUFFICES ASSUME Sound, [Next]_vars PROVE Sound'
  OBVIOUS
<1> USE DEF Sound, PublishedRequested
<1>1. ASSUME NEW u \in URLs, Request(u) PROVE Sound'
  <2>1. Recordable \subseteq Recordable'
    BY <1>1 DEF Request, Recordable
  <2> HIDE DEF Recordable
  <2> QED
    BY <1>1, <2>1 DEF Request
<1>2. ASSUME NEW h \in Handlers, NEW u \in URLs, Record(h, u) PROVE Sound'
  <2>1. Recordable' = Recordable
    BY <1>2 DEF Record, Recordable
  <2> HIDE DEF Recordable
  <2>2. /\ DOMAIN recorded' = Handlers /\ recorded'[h] = recorded[h] \cup {u}
        /\ \A g \in Handlers \ {h} : recorded'[g] = recorded[g]
    BY <1>2 DEF Record
  <2> QED
    BY <1>2, <2>1, <2>2 DEF Record
<1>3. ASSUME NEW p \in Publishers, NEW h \in Handlers, View(p, h) PROVE Sound'
  <2>1. Recordable' = Recordable
    BY <1>3 DEF View, Recordable
  <2> HIDE DEF Recordable
  <2>2. /\ views' = [q \in Publishers |-> views'[q]] /\ views'[p] = <<h, recorded[h]>>
        /\ \A q \in Publishers \ {p} : views'[q] = views[q]
    BY <1>3 DEF View
  <2> QED
    BY <1>3, <2>1, <2>2 DEF View
<1>4. ASSUME NEW p \in Publishers, Publish(p) PROVE Sound'
  <2>1. Recordable' = Recordable
    BY <1>4 DEF Publish, Recordable
  <2> HIDE DEF Recordable
  <2>2. PICK h \in Handlers, S \in SUBSET Recordable : views[p] = <<h, S>>
    BY <1>4 DEF Publish
  <2>3. /\ published' = [g \in Handlers |-> published'[g]] /\ published'[h] = S
        /\ \A g \in Handlers \ {h} : published'[g] = published[g]
    BY <1>4, <2>2 DEF Publish
  <2>4. /\ views' = [q \in Publishers |-> views'[q]] /\ views'[p] = None
        /\ \A q \in Publishers \ {p} : views'[q] = views[q]
    BY <1>4 DEF Publish
  <2> QED
    BY <1>4, <2>1, <2>3, <2>4 DEF Publish
<1>5. CASE Crash
  <2>1. Recordable' = Recordable
    BY <1>5 DEF Crash, Recordable
  <2> HIDE DEF Recordable
  <2> QED
    BY <1>5, <2>1 DEF Crash
<1>6. CASE UNCHANGED vars
  BY <1>6 DEF vars, Recordable
<1> QED
  BY <1>1, <1>2, <1>3, <1>4, <1>5, <1>6 DEF Next

\* However requests, records, views, publications and crashes interleave, a
\* published file names only requested URLs.
THEOREM PublishedSound == Spec => []PublishedRequested
<1>1. Init => Sound
  BY DEF Init, Sound, PublishedRequested
<1>2. Sound => PublishedRequested
  BY DEF Sound
<1> QED
  BY <1>1, <1>2, StepSound, PTL DEF Spec
==============================================================================
