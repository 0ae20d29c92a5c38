------------------------------- MODULE Archive -------------------------------
(***************************************************************************)
(* The archive a crawl leaves: the CBOR writer (lib/resource_handler.go),  *)
(* one goroutine for each capture that dequeue hands it, and the walk that *)
(* loads its index (lib/walk.go).  What it then finds is module Reading's. *)
(*                                                                         *)
(* A file is absent, created and still empty, or written.  Goroutines that *)
(* write the same file interleave at every create and write; what was      *)
(* written last is what is read.  Two things are external: the file        *)
(* system, and cdxj's index writer, which keeps records until it is closed *)
(* and then writes them, sorted by URL.                                    *)
(***************************************************************************)
EXTENDS Integers

CONSTANTS
  Captures, Urls, Hashes,
  UrlOf, HashOf,   \* a capture's URL and the hash of its body, None for a redirect
  MaxStarts,       \* bound on the restarts of the process
  None, Empty

ASSUME ArchiveAssumption ==
  /\ UrlOf \in [Captures -> Urls]
  /\ HashOf \in [Captures -> Hashes \cup {None}]
  /\ None \notin Captures \cup Hashes \cup Urls
  /\ Empty \notin Captures \cup {None} /\ "whole" \notin {None, Empty}
  /\ MaxStarts \in Nat

VARIABLES
  meta,             \* meta/<url>: the capture it describes
  body,             \* body/<hash>: its content has that hash
  index, closed,    \* the index writer's records; has it been closed?
  file,             \* index.cdxj
  pc,               \* the next step of the goroutine that handles a capture
  dead,             \* captures whose goroutine ended with its process
  running, starts,
  loaded            \* the index a reader has read

files == <<meta, body>>
process == <<dead, running, starts>>
vars == <<files, index, closed, file, pc, process, loaded>>

\* "torn..." handlers have met an error while they wrote a file.
Labels == {"none", "createMeta", "writeMeta", "createBody", "writeBody", "record",
           "tornRecord", "done", "dropped", "tornMeta", "tornBody"}

TypeOK ==
  /\ meta \in [Urls -> Captures \cup {None, Empty}]
  /\ body \in [Hashes -> {"whole", None, Empty}]
  /\ index \subseteq Captures /\ file \subseteq Captures /\ loaded \subseteq Captures
  /\ pc \in [Captures -> Labels]
  /\ dead \subseteq Captures
  /\ closed \in BOOLEAN /\ running \in BOOLEAN
  /\ starts \in 0 .. MaxStarts

\* NewCBORResourceFileWriter has created the directories and an empty index.
Init ==
  /\ meta = [u \in Urls |-> None]
  /\ body = [h \in Hashes |-> None]
  /\ index = {} /\ closed = FALSE /\ file = {} /\ loaded = {}
  /\ pc = [c \in Captures |-> "none"]
  /\ dead = {} /\ running = TRUE /\ starts = 0

------------------------------------------------------------------------------
(***************************************************************************)
(* CBORResourceFileWriter.HandleResource, in the goroutine of capture c.   *)
(***************************************************************************)
\* The goroutine of c, still alive, goes from one label to another.
Step(c, from, to) ==
  /\ running /\ c \notin dead
  /\ pc[c] = from
  /\ pc' = [pc EXCEPT ![c] = to]
  /\ UNCHANGED <<closed, file, process, loaded>>

\* dequeue starts the goroutine and does not wait for it.
Handle(c) ==
  /\ Step(c, "none", "createMeta")
  /\ UNCHANGED <<files, index>>

\* os.Create truncates a file that exists.
CreateMeta(c) ==
  /\ Step(c, "createMeta", "writeMeta")
  /\ meta' = [meta EXCEPT ![UrlOf[c]] = Empty]
  /\ UNCHANGED <<body, index>>

\* Mutant: the body is not written before the record.
WriteMetaOnly(c) ==
  /\ Step(c, "writeMeta", "record")
  /\ meta' = [meta EXCEPT ![UrlOf[c]] = c]
  /\ UNCHANGED <<body, index>>

WriteMeta(c) ==
  /\ Step(c, "writeMeta", IF HashOf[c] = None THEN "record" ELSE "createBody")
  /\ meta' = [meta EXCEPT ![UrlOf[c]] = c]
  /\ UNCHANGED <<body, index>>

CreateBody(c) ==
  /\ Step(c, "createBody", "writeBody")
  /\ body' = [body EXCEPT ![HashOf[c]] = Empty]
  /\ UNCHANGED <<meta, index>>

WriteBody(c) ==
  /\ Step(c, "writeBody", "record")
  /\ body' = [body EXCEPT ![HashOf[c]] = "whole"]
  /\ UNCHANGED <<meta, index>>

\* An error drops the capture, except one in the body's encoding: that is
\* logged, and the capture is recorded with the file as it is.
Fail(c) ==
  /\ \/ Step(c, "createMeta", "dropped")
     \/ Step(c, "writeMeta", "tornMeta")
     \/ Step(c, "createBody", "dropped")
     \/ Step(c, "writeBody", "tornRecord")
  /\ UNCHANGED <<files, index>>

\* cdxj's Write keeps the record; after Close nobody writes it to the file.
Record(c) ==
  /\ Step(c, "record", "done") \/ Step(c, "tornRecord", "tornBody")
  /\ index' = index \cup {c}
  /\ UNCHANGED files

------------------------------------------------------------------------------
(***************************************************************************)
(* The process that writes and the one that reads.                         *)
(***************************************************************************)
\* Shutdown finalizes the writer, whatever its goroutines are doing.
Finalize ==
  /\ running /\ ~closed
  /\ closed' = TRUE
  /\ file' = index
  /\ UNCHANGED <<files, index, pc, process, loaded>>

\* The process exits or dies; its goroutines stop where they are.
Exit ==
  /\ running
  /\ running' = FALSE
  /\ dead' = {c \in Captures : pc[c] # "none"}
  /\ index' = {}
  /\ UNCHANGED <<files, closed, file, pc, starts, loaded>>

\* The next crawl with the same destination truncates the index and keeps the
\* other files.
Start ==
  /\ ~running /\ starts < MaxStarts
  /\ running' = TRUE /\ closed' = FALSE /\ file' = {}
  /\ starts' = starts + 1
  /\ UNCHANGED <<files, index, pc, dead, loaded>>

\* NewCBORResourceFileReader reads the index, once.
Load ==
  /\ loaded' = file
  /\ UNCHANGED <<files, index, closed, file, pc, process>>

Next ==
  \/ \E c \in Captures :
       \/ Handle(c) \/ CreateMeta(c) \/ WriteMeta(c) \/ CreateBody(c) \/ WriteBody(c)
       \/ Fail(c) \/ Record(c)
  \/ Finalize \/ Exit \/ Start \/ Load

Spec == Init /\ [][Next]_vars

------------------------------------------------------------------------------
\* A handler that may have left the meta file, or the body, of c half written:
\* it is between creating and writing it, was when its process ended, or met an
\* error.
CutMeta(c) ==
  \E d \in Captures : UrlOf[d] = UrlOf[c] /\ pc[d] \in {"writeMeta", "tornMeta"}
CutBody(c) ==
  \E d \in Captures :
    HashOf[d] = HashOf[c] /\ pc[d] \in {"writeBody", "tornRecord", "tornBody"}

\* What an index lists can be read, at any time and after any crash, even from
\* an index loaded before the archive was written again, unless a handler of
\* the same URL or the same body was cut short.
IndexedReadsBack ==
  \A c \in index \cup file \cup loaded :
    /\ meta[UrlOf[c]] \in Captures \/ CutMeta(c)
    /\ HashOf[c] # None => body[HashOf[c]] = "whole" \/ CutBody(c)
==============================================================================
