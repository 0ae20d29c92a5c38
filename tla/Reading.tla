------------------------------- MODULE Reading -------------------------------
(***************************************************************************)
(* Reading archives: the walk that has loaded an index (lib/walk.go), a    *)
(* collection of walks (lib/collection.go) and the handlers that serve it  *)
(* (api/collection_handlers.go), while the archive is being written.       *)
(* Besides the walk of module Archive there is an older one, which nobody  *)
(* writes any more.  A capture is returned as the capture that the meta    *)
(* file describes and the hash of the body that was opened.                *)
(***************************************************************************)
EXTENDS Archive, Sequences, SequencesExt

CONSTANTS
  Order,           \* the order of an index, by URL and then by what follows
  OldCaptures,     \* the captures of the older walk
  OldWalk,         \* what it has for each URL, or None
  Collections,     \* sequences of "live" and "old": walks in the order of a collection
  TimeOf,          \* a capture's timestamp
  RedirectTo,      \* where a capture redirects to, or None
  MaxRedirects     \* maxRedirects, 20 in the code

ASSUME ReadingAssumption ==
  /\ Order \in Seq(Captures) /\ \A c \in Captures : Contains(Order, c)
  /\ OldWalk \in [Urls -> [of : OldCaptures, body : Hashes] \cup {None}]
  /\ Collections \subseteq Seq({"live", "old"})
  /\ TimeOf \in [Captures \cup OldCaptures -> Nat]
  /\ RedirectTo \in [Captures \cup OldCaptures -> Urls \cup {None}]
  /\ \A c \in Captures : HashOf[c] = None <=> RedirectTo[c] # None
  /\ MaxRedirects \in Nat \ {0}

------------------------------------------------------------------------------
(***************************************************************************)
(* A walk.                                                                 *)
(***************************************************************************)
\* loadIndex: the records as they are in the file.
Index ==
  LET read[i \in 0 .. Len(Order)] ==
        IF i = 0 THEN <<>>
        ELSE IF Order[i] \in loaded THEN Append(read[i - 1], Order[i])
        ELSE read[i - 1]
  IN  read[Len(Order)]

\* Mutant: the page ends one record late.
SortedIndexLate(limit, offset) ==
  LET read[i \in 0 .. Len(Index)] ==
        IF i = 0 THEN [rsc |-> <<>>, limit |-> limit, offset |-> offset]
        ELSE LET page == read[i - 1] IN
             IF page.limit < 0 /\ limit > 0 THEN page
             ELSE IF page.offset > 0 THEN [page EXCEPT !.offset = @ - 1]
             ELSE [page EXCEPT !.rsc = Append(@, Index[i]), !.limit = @ - 1]
  IN  read[Len(Index)].rsc

\* Both counts go down; the loop ends when the limit has come to zero, never if
\* it starts there.
SortedIndex(limit, offset) ==
  LET records == Index
      read[i \in 0 .. Len(records)] ==
        IF i = 0 THEN [rsc |-> <<>>, limit |-> limit, offset |-> offset]
        ELSE LET page == read[i - 1] IN
             IF page.limit = 0 /\ page.rsc # <<>> THEN page
             ELSE IF page.offset > 0
             THEN [rsc |-> page.rsc, limit |-> page.limit, offset |-> page.offset - 1]
             ELSE [rsc |-> Append(page.rsc, records[i]), limit |-> page.limit - 1, offset |-> 0]
  IN  read[Len(records)].rsc

\* Of these positions, those of a URL's records in the loaded index.
Positions(u, all) == {i \in all : Order[i] \in loaded /\ UrlOf[Order[i]] = u}

\* Mutant: the search starts one position late.
FindIndexPastFirst(u) ==
  LET at == Positions(u, 2 .. Len(Order)) IN IF at = {} THEN 0 ELSE Min(at)

\* The position of the first record of a URL, or 0; the gaps that the captures
\* leave which are not in the index make no difference.
FindIndex(u) ==
  LET at == Positions(u, DOMAIN Order) IN IF at = {} THEN 0 ELSE Min(at)

\* The description comes from the URL's file, the body from the record's hash;
\* a record without a hash has no path to open, whatever the file describes.
Get(u) ==
  LET i == FindIndex(u)
      hash == HashOf[Order[i]]
  IN  IF /\ i # 0
         /\ meta[u] \in Captures
         /\ hash # None
         /\ body[hash] = "whole"
      THEN [of |-> meta[u], body |-> hash]
      ELSE None

------------------------------------------------------------------------------
(***************************************************************************)
(* A collection, and what the API serves of it.                            *)
(***************************************************************************)
WalkGet(w, u) == IF w = "live" THEN Get(u) ELSE OldWalk[u]

\* Mutant: a walk without the URL is skipped.
CollectionGetSkip(walks, u) ==
  LET read[i \in 0 .. Len(walks)] ==
        IF i = 0 THEN None
        ELSE LET r == read[i - 1]
                 rsc == WalkGet(walks[i], u)
             IN  IF rsc = None THEN r
                 ELSE IF r = None \/ TimeOf[rsc.of] > TimeOf[r.of] THEN rsc
                 ELSE r
  IN  read[Len(walks)]

\* One turn of CollectionGet's loop: the first walk that fails ends the search,
\* and a walk that lacks the URL fails, since its error is not ErrNotFound.
Visit(r, rsc) ==
  IF r.failed THEN r
  ELSE IF rsc = None THEN [r EXCEPT !.failed = TRUE]
  ELSE IF r.rsc = None \/ TimeOf[rsc.of] > TimeOf[r.rsc.of] THEN [r EXCEPT !.rsc = rsc]
  ELSE r

CollectionGet(walks, u) ==
  LET read[i \in 0 .. Len(walks)] ==
        IF i = 0 THEN [rsc |-> None, failed |-> FALSE]
        ELSE Visit(read[i - 1], WalkGet(walks[i], u))
      got == read[Len(walks)]
  IN  IF got.failed THEN None ELSE got.rsc

\* Mutant: the redirects that were followed are not counted before the answer.
ResolvedLate(walks, url) ==
  LET follow[n \in 0 .. MaxRedirects, u \in Urls] ==
        LET rsc == CollectionGet(walks, u) IN
        IF rsc = None THEN None
        ELSE IF RedirectTo[rsc.of] = None THEN rsc
        ELSE IF n = MaxRedirects THEN None
        ELSE follow[n + 1, RedirectTo[rsc.of]]
  IN  follow[0, url]

\* n redirects have been followed; the last of maxRedirects is not.
ResolvedResource(walks, url) ==
  LET follow[n \in 0 .. MaxRedirects - 1] ==
        [u \in Urls |->
           LET rsc == CollectionGet(walks, u) IN
           IF rsc = None THEN None
           ELSE IF RedirectTo[rsc.of] = None THEN rsc
           ELSE IF n + 1 = MaxRedirects THEN None
           ELSE follow[n + 1][RedirectTo[rsc.of]]]
  IN  follow[0][url]

------------------------------------------------------------------------------
\* Whatever the page size, the pages of an index are the index, each record
\* once and in its order, and a limit of zero is no limit.
PagesCoverIndex ==
  /\ SortedIndex(0, 0) = Index
  /\ \A size \in 1 .. Len(Order) :
       LET page(k) == SortedIndex(size, (k - 1) * size)
       IN  FlattenSeq([k \in 1 .. Len(Order) |-> page(k)]) = Index

\* A page of a loaded index is read back with its own body, during later writes
\* and restarts too, unless another capture shares its URL or a handler was cut
\* short.
IndexedGetsBack ==
  \A c \in loaded :
    \/ \E d \in Captures \ {c} : UrlOf[d] = UrlOf[c] /\ pc[d] # "none"
    \/ CutMeta(c) \/ CutBody(c) \/ HashOf[c] = None
    \/ Get(UrlOf[c]) = [of |-> c, body |-> HashOf[c]]

\* A collection has a URL when every one of its walks has, and then it returns
\* the newest capture, the first of equals.
CollectionIsNewest ==
  \A walks \in Collections, u \in Urls :
    LET rsc(i) == WalkGet(walks[i], u)
        time(i) == TimeOf[rsc(i).of]
        newest(i) == \A j \in DOMAIN walks :
                       time(j) <= time(i) /\ (time(j) = time(i) => i <= j)
        answer == CollectionGet(walks, u)
    IN  IF walks = <<>> \/ \E i \in DOMAIN walks : rsc(i) = None
        THEN answer = None
        ELSE \E i \in DOMAIN walks : newest(i) /\ answer = rsc(i)

\* "Fetches a resource, following any redirects": the answer is no redirect, it
\* is at the end of the chain that starts at the URL, and only a chain that
\* breaks, or has maxRedirects redirects, has no answer.
ResolvedIsChainEnd ==
  \A walks \in Collections, url \in Urls :
    LET after[n \in 0 .. MaxRedirects - 1] ==
          [u \in Urls |->
             LET rsc == CollectionGet(walks, u) IN
             IF n > 0 /\ rsc # None /\ RedirectTo[rsc.of] # None
             THEN after[n - 1][RedirectTo[rsc.of]]
             ELSE rsc]
        end == after[MaxRedirects - 1][url]
    IN  ResolvedResource(walks, url) =
          IF end # None /\ RedirectTo[end.of] = None THEN end ELSE None
==============================================================================
