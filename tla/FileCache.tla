----------------------------- MODULE FileCache -----------------------------
(***************************************************************************)
(* http_server.read_file: a cache of file contents, checked by the file's  *)
(* modification time, shared by the fibers of a server.  The content is    *)
(* read in chunks; each is awaited, so other fibers run in between and the *)
(* file may be rewritten in place, with whatever modification time the     *)
(* clock, or a copy that keeps its time, gives it.                         *)
(***************************************************************************)
EXTENDS Naturals, Sequences

CONSTANTS
  Fibers,     \* workers that serve files
  Paths,      \* files
  Chunks,     \* reads that a whole file takes
  MaxVersion  \* bound: how often a file is rewritten

ASSUME CacheAssumption == Chunks \in Nat \ {0} /\ MaxVersion \in Nat \ {0}

None     == "none"
Versions == 1 .. MaxVersion
Times    == 1 .. MaxVersion
NoTime   == 0      \* the path is not in mtime_map

VARIABLES
  file,        \* each file on disk: the version of its content
  mtime,       \* each file on disk: its modification time
  mtime_map,   \* the cache: modification times
  content_map, \* the cache: contents, as the version of every chunk
  pc,          \* each fiber: idle, reading, done
  path,        \* the path it serves
  data,        \* what it has read
  spoilt       \* for the property, not in the code: paths whose entry a fiber or
               \* a writer disturbed in a way that the two maps do not show

disk  == <<file, mtime>>
cache == <<mtime_map, content_map>>
vars  == <<disk, cache, pc, path, data, spoilt>>

Init ==
  /\ file = [p \in Paths |-> 1] /\ mtime = [p \in Paths |-> 1]
  /\ mtime_map = [p \in Paths |-> NoTime] /\ content_map = <<>>
  /\ pc = [f \in Fibers |-> "idle"] /\ path = [f \in Fibers |-> None]
  /\ data = [f \in Fibers |-> <<>>] /\ spoilt = {}

Reads(f, p) == pc[f] = "reading" /\ path[f] = p

(* Somebody writes the file.  With the modification time that mtime_map    *)
(* has, the cache cannot know.                                             *)
Rewrite(p) ==
  /\ file[p] < MaxVersion
  /\ file' = [file EXCEPT ![p] = @ + 1]
  /\ \E t \in Times :
       /\ mtime' = [mtime EXCEPT ![p] = t]
       /\ spoilt' = spoilt \cup (IF t = mtime_map[p] THEN {p} ELSE {})
  /\ UNCHANGED <<cache, pc, path, data>>

Cached(p) == mtime_map[p] = mtime[p] /\ p \in DOMAIN content_map

Call(f, p) == pc[f] = "idle" /\ path' = [path EXCEPT ![f] = p]

(* The cached content is returned at once.                                 *)
Hit(f, p) ==
  /\ Call(f, p) /\ Cached(p)
  /\ pc' = [pc EXCEPT ![f] = "done"] /\ data' = [data EXCEPT ![f] = content_map[p]]
  /\ UNCHANGED <<disk, cache, spoilt>>

(* The modification time is recorded and the file is opened.  A read that  *)
(* another fiber began under another time may still end, and store, under  *)
(* the new one; if no other fiber reads the file, the entry is made anew.  *)
Miss(f, p) ==
  /\ Call(f, p) /\ ~Cached(p)
  /\ mtime_map' = [mtime_map EXCEPT ![p] = mtime[p]]
  /\ pc' = [pc EXCEPT ![f] = "reading"] /\ data' = [data EXCEPT ![f] = <<>>]
  /\ spoilt' = IF \A g \in Fibers : ~Reads(g, p) THEN spoilt \ {p}
               ELSE IF mtime_map[p] # mtime[p] THEN spoilt \cup {p}
               ELSE spoilt
  /\ UNCHANGED <<disk, content_map>>

(* global.read_file: one awaited read.                                     *)
ReadChunk(f) ==
  /\ pc[f] = "reading" /\ Len(data[f]) < Chunks
  /\ data' = [data EXCEPT ![f] = Append(@, file[path[f]])]
  /\ UNCHANGED <<disk, cache, pc, path, spoilt>>

Insert(p, content) == [q \in DOMAIN content_map \cup {p} |->
                         IF q = p THEN content ELSE content_map[q]]

(* Mutant: the modification time is taken when the content is stored.      *)
StoreStamped(f) ==
  /\ pc[f] = "reading" /\ Len(data[f]) = Chunks
  /\ mtime_map' = [mtime_map EXCEPT ![path[f]] = mtime[path[f]]]
  /\ content_map' = Insert(path[f], data[f])
  /\ pc' = [pc EXCEPT ![f] = "done"]
  /\ UNCHANGED <<disk, path, data, spoilt>>

(* The content is stored and returned.                                     *)
Store(f) ==
  /\ pc[f] = "reading" /\ Len(data[f]) = Chunks
  /\ content_map' = Insert(path[f], data[f])
  /\ pc' = [pc EXCEPT ![f] = "done"]
  /\ UNCHANGED <<disk, mtime_map, path, data, spoilt>>

(* The same when the file could not be opened or a read failed: the loop   *)
(* over good() ends early and nobody asks why.                             *)
StoreShort(f) ==
  /\ pc[f] = "reading" /\ Len(data[f]) < Chunks
  /\ content_map' = Insert(path[f], data[f])
  /\ spoilt' = spoilt \cup {path[f]}
  /\ pc' = [pc EXCEPT ![f] = "done"]
  /\ UNCHANGED <<disk, mtime_map, path, data>>

(* The caller has sent it.                                                 *)
Served(f) ==
  /\ pc[f] = "done" /\ pc' = [pc EXCEPT ![f] = "idle"]
  /\ path' = [path EXCEPT ![f] = None] /\ data' = [data EXCEPT ![f] = <<>>]
  /\ UNCHANGED <<disk, cache, spoilt>>

ReadFile(f) == ReadChunk(f) \/ Store(f) \/ StoreShort(f)

Next ==
  \/ \E p \in Paths : Rewrite(p)
  \/ \E f \in Fibers : \/ \E p \in Paths : Hit(f, p) \/ Miss(f, p)
                       \/ ReadFile(f) \/ Served(f)

Spec == Init /\ [][Next]_vars
-----------------------------------------------------------------------------
(* Every variable has its type.                                            *)
TypeOK ==
  /\ file \in [Paths -> Versions] /\ mtime \in [Paths -> Times]
  /\ mtime_map \in [Paths -> Times \cup {NoTime}]
  /\ DOMAIN content_map \subseteq Paths
  /\ \A p \in DOMAIN content_map : content_map[p] \in Seq(Versions) /\ Len(content_map[p]) <= Chunks
  /\ pc \in [Fibers -> {"idle", "reading", "done"}]
  /\ path \in [Fibers -> Paths \cup {None}]
  /\ \A f \in Fibers : data[f] \in Seq(Versions) /\ Len(data[f]) <= Chunks
  /\ spoilt \subseteq Paths

(* What the cache gives out without reading is the whole content that the  *)
(* file has now, and no mixture of two that a read across a rewrite may    *)
(* have left (netutils.ecs:1889-1904), however the fibers' reads and the   *)
(* rewrites interleave; except while a fiber reads the file anew, and in   *)
(* three cases that the modification time does not show: the file was      *)
(* rewritten under the time recorded, a read failed half way, or a read    *)
(* begun under an older time was still going on when the newer one was     *)
(* recorded.                                                               *)
CacheCurrent ==
  \A p \in Paths \ spoilt :
    Cached(p) /\ (\A f \in Fibers : ~Reads(f, p)) =>
      content_map[p] = [i \in 1 .. Chunks |-> file[p]]
=============================================================================
