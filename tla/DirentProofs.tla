---------------------------- MODULE DirentProofs ----------------------------
(***************************************************************************)
(* Proofs that the directory streams of include/compat/dirent_msvc.h own   *)
(* their search handles and return every entry once, for any number of     *)
(* streams, directories, names and handles, whatever other threads do to   *)
(* the directories and to the working directory meanwhile.                 *)
(***************************************************************************)
EXTENDS Dirent, TLAPS

\* What a stream has, stage by stage of opendir and of its error paths.
StageOk(s) ==
  LET w == stream[s] IN
    /\ w.pc = "closed" => blocks[s] = {}
    /\ w.pc \in {"convert", "fail"} => blocks[s] = {"DIR"}
    /\ w.pc = "size" => blocks[s] = {"DIR", "WDIR"}
    /\ w.pc = "wclose" => blocks[s] \ Frees = {"DIR"}
    /\ w.pc \in {"path", "first", "open", "end"} => blocks[s] = {"DIR", "WDIR", "patt"}
    /\ w.pc \in {"convert", "size", "path"} => arg[s] # None
    /\ w.pc = "first" => PathLen[w.patt] < w.n
    /\ w.pc \in {"first", "open", "end"} => w.patt \in Dirs /\ origin[s] = w.patt
    /\ w.handle # None => w.pc = "open"

\* What readdir has returned is what the search has yielded, but for the entry that waits; a
\* stream whose search is over has returned all that was there, unless the search failed.
EntryOk(s) ==
  LET w == stream[s] IN
    /\ \A x \in Names : returned[s][x] \in {0, 1}
    /\ w.handle # None =>
         /\ w.cached # None => w.cached \in search[w.handle].seen
         /\ \A x \in Names : returned[s][x] = 1 <=> x \in search[w.handle].seen \ {w.cached}
    /\ w.pc = "open" /\ w.handle = None => steady[s] = {}
    /\ w.pc = "end" /\ ~misread[s] => \A x \in steady[s] : returned[s][x] = 1

\* The open searches and the streams that have a handle correspond.
SearchInv ==
  /\ \A s \in Streams : stream[s].handle # None => search[stream[s].handle].dir = origin[s]
  /\ \A s, t \in Streams : stream[s].handle # None /\ stream[t].handle = stream[s].handle => t = s
  /\ \A h \in Handles : search[h].dir # None => \E s \in Streams : stream[s].handle = h

IInv == TypeOK /\ (\A s \in Streams : StageOk(s) /\ EntryOk(s)) /\ SearchInv

-----------------------------------------------------------------------------
\* A step leaves a stream, and the search it has, as they were.
Kept(u) ==
  /\ stream'[u] = stream[u] /\ blocks'[u] = blocks[u] /\ arg'[u] = arg[u]
  /\ steady'[u] = steady[u] /\ returned'[u] = returned[u]
  /\ origin'[u] = origin[u] /\ misread'[u] = misread[u]
  /\ stream[u].handle # None => search'[stream[u].handle] = search[stream[u].handle]

\* What holds of a stream that is left as it was holds still.
LEMMA KeptOk ==
  ASSUME NEW u, Kept(u), StageOk(u), EntryOk(u)
  PROVE  StageOk(u)' /\ EntryOk(u)'
  BY DEF Kept, StageOk, EntryOk

\* A step that opens and closes no search.
LEMMA SearchKept ==
  ASSUME SearchInv, search' = search,
         \A u \in Streams : stream'[u].handle = stream[u].handle,
         \A u \in Streams : stream[u].handle # None => origin'[u] = origin[u]
  PROVE  SearchInv'
  BY DEF SearchInv

\* A stream structure with another stage is one, and is the same otherwise.
LEMMA AtStage ==
  ASSUME NEW w \in StreamType, NEW p \in Stages
  PROVE  LET v == [w EXCEPT !.pc = p] IN
           /\ v \in StreamType /\ v.pc = p
           /\ v.n = w.n /\ v.patt = w.patt /\ v.handle = w.handle /\ v.cached = w.cached
  BY DEF StreamType

\* The types hold after a step that replaces one stream structure.
LEMMA StreamTypeKept ==
  ASSUME TypeOK, NEW s \in Streams, NEW w \in StreamType, stream' = [stream EXCEPT ![s] = w],
         w.cached # None => w.handle # None
  PROVE  /\ stream' \in [Streams -> StreamType]
         /\ \A u \in Streams : stream'[u].cached # None => stream'[u].handle # None
  BY DEF TypeOK

\* The initial state satisfies the invariant.
LEMMA InitIInv == Init => IInv
  <1> SUFFICES ASSUME Init PROVE IInv
    OBVIOUS
  <1> USE DirentAssumption DEF Init, Closed, NoSearch, Nothing, None
  <1>1. TypeOK
    BY DEF TypeOK, StreamType, Stages
  <1>2. \A s \in Streams : StageOk(s) /\ EntryOk(s)
    BY DEF StageOk, EntryOk
  <1>3. SearchInv
    BY DEF SearchInv
  <1> QED
    BY <1>1, <1>2, <1>3 DEF IInv

\* opendir begins.
LEMMA opendirIInv ==
  ASSUME IInv, NEW s \in Streams, opendir(s)
  PROVE  IInv'
  <1> USE DirentAssumption DEF IInv
  <1>1. PICK d \in Dirs \cup {Relative} : arg' = [arg EXCEPT ![s] = d]
    BY DEF opendir
  <1>2. /\ stream[s].pc = "closed" /\ stream[s].handle = None
        /\ stream'[s] = [stream[s] EXCEPT !.pc = "convert"]
        /\ blocks'[s] = {"DIR"} /\ arg'[s] = d /\ d # None
        /\ \A u \in Streams \ {s} : Kept(u)
        /\ UNCHANGED <<search, steady, returned, origin, misread>>
    BY <1>1 DEF opendir, Goto, ghosts, Kept, TypeOK, StageOk, None, Relative
  <1>3. TypeOK'
    <2>1. stream' = [stream EXCEPT ![s] = [stream[s] EXCEPT !.pc = "convert"]]
      BY DEF opendir, Goto
    <2>2. stream[s] \in StreamType /\ "convert" \in Stages
      BY DEF TypeOK, Stages
    <2>3. /\ stream' \in [Streams -> StreamType]
          /\ \A u \in Streams : stream'[u].cached # None => stream'[u].handle # None
      BY <2>1, <2>2, AtStage, StreamTypeKept DEF TypeOK
    <2> QED
      BY <1>1, <2>3 DEF opendir, ghosts, others, TypeOK
  <1>4. StageOk(s)' /\ EntryOk(s)'
    BY <1>2 DEF StageOk, EntryOk, TypeOK, StreamType, Stages
  <1>5. SearchInv'
    BY <1>2, SearchKept DEF Kept, TypeOK, StreamType, Stages
  <1> QED
    BY <1>2, <1>3, <1>4, <1>5, KeptOk

\* The allocation of _WDIR, or the error path.
LEMMA AllocWDIRIInv ==
  ASSUME IInv, NEW s \in Streams, AllocWDIR(s)
  PROVE  IInv'
  <1> USE DirentAssumption DEF IInv
  <1>1. /\ stream[s].pc = "convert" /\ stream[s].handle = None
        /\ \/ stream'[s] = [stream[s] EXCEPT !.pc = "size"] /\ blocks'[s] = blocks[s] \cup {"WDIR"}
           \/ stream'[s] = [stream[s] EXCEPT !.pc = "fail"] /\ blocks'[s] = blocks[s]
        /\ \A u \in Streams \ {s} : Kept(u)
        /\ UNCHANGED <<search, arg, steady, returned, origin, misread>>
    BY DEF AllocWDIR, Goto, ghosts, Kept, TypeOK, StageOk
  <1>2. TypeOK'
    <2>1. PICK p \in {"size", "fail"} : stream' = [stream EXCEPT ![s] = [stream[s] EXCEPT !.pc = p]]
      BY DEF AllocWDIR, Goto
    <2>2. stream[s] \in StreamType /\ p \in Stages
      BY DEF TypeOK, Stages
    <2>3. /\ stream' \in [Streams -> StreamType]
          /\ \A u \in Streams : stream'[u].cached # None => stream'[u].handle # None
      BY <2>1, <2>2, AtStage, StreamTypeKept DEF TypeOK
    <2> QED
      BY <2>3 DEF AllocWDIR, ghosts, others, TypeOK
  <1>3. StageOk(s)' /\ EntryOk(s)'
    BY <1>1 DEF StageOk, EntryOk, TypeOK, StreamType, Stages
  <1>4. SearchInv'
    BY <1>1, SearchKept DEF Kept, TypeOK, StreamType, Stages
  <1> QED
    BY <1>1, <1>2, <1>3, <1>4, KeptOk

\* The first look at the full name, and the allocation of the pattern.
LEMMA AllocPatternIInv ==
  ASSUME IInv, NEW s \in Streams, AllocPattern(s)
  PROVE  IInv'
  <1> DEFINE w == stream[s]
  <1> USE DirentAssumption DEF IInv
  <1>1. FullPath(s) \in Dirs /\ PathLen[FullPath(s)] \in Nat
    BY DEF AllocPattern, FullPath, StageOk, TypeOK
  <1>2. PICK v \in StreamType :
          /\ stream' = [stream EXCEPT ![s] = v]
          /\ v.patt = w.patt /\ v.handle = w.handle /\ v.cached = w.cached
          /\ \/ v.pc = "path" /\ blocks' = [blocks EXCEPT ![s] = @ \cup {"patt"}]
             \/ v.pc = "wclose" /\ blocks' = blocks
    <2>1. w \in StreamType /\ "path" \in Stages /\ "wclose" \in Stages
      BY DEF TypeOK, Stages
    <2>2. CASE Goto(s, "size", "wclose") /\ UNCHANGED blocks
      <3>1. stream' = [stream EXCEPT ![s] = [w EXCEPT !.pc = "wclose"]]
        BY <2>2 DEF Goto
      <3>2. LET v == [w EXCEPT !.pc = "wclose"] IN
              /\ v \in StreamType /\ v.pc = "wclose"
              /\ v.patt = w.patt /\ v.handle = w.handle /\ v.cached = w.cached
        BY <2>1, AtStage
      <3> QED
        BY <2>2, <3>1, <3>2
    <2>3. CASE /\ \E n \in {0, PathLen[FullPath(s)] + 1} :
                    stream' = [stream EXCEPT ![s].pc = "path", ![s].n = n]
               /\ blocks' = [blocks EXCEPT ![s] = @ \cup {"patt"}]
      <3>1. PICK n \in {0, PathLen[FullPath(s)] + 1} :
              stream' = [stream EXCEPT ![s].pc = "path", ![s].n = n]
        BY <2>3
      <3>4. n \in Nat
        BY <1>1
      <3>2. stream' = [stream EXCEPT ![s] = [[w EXCEPT !.pc = "path"] EXCEPT !.n = n]]
        BY <3>1 DEF TypeOK
      <3>3. LET v == [[w EXCEPT !.pc = "path"] EXCEPT !.n = n] IN
              /\ v \in StreamType /\ v.pc = "path"
              /\ v.patt = w.patt /\ v.handle = w.handle /\ v.cached = w.cached
        BY <2>1, <3>4 DEF StreamType
      <3> QED
        BY <2>3, <3>2, <3>3
    <2> QED
      BY <2>2, <2>3 DEF AllocPattern
  <1>3. /\ w.pc = "size" /\ w.handle = None /\ v.handle = None /\ v.cached = None
        /\ stream'[s] = v
        /\ \A u \in Streams \ {s} : Kept(u)
        /\ UNCHANGED <<search, arg, steady, returned, origin, misread>>
    BY <1>2 DEF AllocPattern, ghosts, Kept, TypeOK, StageOk
  <1>4. TypeOK'
    BY <1>2, <1>3, StreamTypeKept DEF AllocPattern, ghosts, others, TypeOK
  <1>5. StageOk(s)' /\ EntryOk(s)'
    BY <1>2, <1>3 DEF StageOk, EntryOk, TypeOK, Frees
  <1>6. SearchInv'
    BY <1>3, SearchKept DEF Kept, TypeOK
  <1> QED
    BY <1>3, <1>4, <1>5, <1>6, KeptOk

\* The second look: a name that has grown too long for the pattern is refused.
LEMMA GetPathIInv ==
  ASSUME IInv, NEW s \in Streams, GetPath(s)
  PROVE  IInv'
  <1> DEFINE d == FullPath(s)
  <1> DEFINE w == stream[s]
  <1> USE DirentAssumption DEF IInv
  <1>1. d \in Dirs /\ PathLen[d] \in Nat
    BY DEF GetPath, FullPath, StageOk, TypeOK
  <1>2. PICK v \in StreamType :
          /\ stream' = [stream EXCEPT ![s] = v]
          /\ v.handle = w.handle /\ v.cached = w.cached
          /\ \/ /\ v.pc = "first" /\ v.patt = d /\ PathLen[d] < v.n
                /\ origin' = [origin EXCEPT ![s] = d]
             \/ v.pc = "wclose" /\ origin' = origin
    <2>1. w \in StreamType /\ "first" \in Stages /\ "wclose" \in Stages /\ w.n \in Nat
      BY DEF TypeOK, Stages, StreamType
    <2>2. CASE Goto(s, "path", "wclose") /\ UNCHANGED origin
      <3>1. stream' = [stream EXCEPT ![s] = [w EXCEPT !.pc = "wclose"]]
        BY <2>2 DEF Goto
      <3>2. LET v == [w EXCEPT !.pc = "wclose"] IN
              /\ v \in StreamType /\ v.pc = "wclose"
              /\ v.patt = w.patt /\ v.handle = w.handle /\ v.cached = w.cached
        BY <2>1, AtStage
      <3> QED
        BY <2>2, <3>1, <3>2
    <2>3. CASE /\ PathLen[d] < w.n
               /\ stream' = [stream EXCEPT ![s].pc = "first", ![s].patt = d]
               /\ origin' = [origin EXCEPT ![s] = d]
      <3>1. stream' = [stream EXCEPT ![s] = [[w EXCEPT !.pc = "first"] EXCEPT !.patt = d]]
        BY <2>3 DEF TypeOK
      <3>2. LET v == [[w EXCEPT !.pc = "first"] EXCEPT !.patt = d] IN
              /\ v \in StreamType /\ v.pc = "first" /\ v.patt = d
              /\ v.n = w.n /\ v.handle = w.handle /\ v.cached = w.cached
        BY <1>1, <2>1 DEF StreamType
      <3> QED
        BY <2>3, <3>1, <3>2
    <2>4. \/ PathLen[d] < w.n /\ stream' = [stream EXCEPT ![s].pc = "first", ![s].patt = d]
                              /\ origin' = [origin EXCEPT ![s] = d]
          \/ Goto(s, "path", "wclose") /\ UNCHANGED origin
      <3>1. CASE PathLen[d] < w.n
        BY <1>1, <3>1 DEF GetPath, PathOk
      <3>2. CASE ~(PathLen[d] < w.n)
        BY <1>1, <2>1, <3>2 DEF GetPath, PathOk
      <3> QED
        BY <3>1, <3>2
    <2> QED
      BY <2>2, <2>3, <2>4
  <1>3. /\ w.pc = "path" /\ w.handle = None /\ v.handle = None /\ v.cached = None
        /\ stream'[s] = v
        /\ \A u \in Streams \ {s} : Kept(u)
        /\ UNCHANGED <<search, blocks, arg, steady, returned, misread>>
    BY <1>2 DEF GetPath, Kept, TypeOK, StageOk
  <1>4. TypeOK'
    BY <1>1, <1>2, <1>3, StreamTypeKept DEF GetPath, others, TypeOK
  <1>5. StageOk(s)' /\ EntryOk(s)'
    BY <1>1, <1>2, <1>3 DEF StageOk, EntryOk, TypeOK, Frees
  <1>6. SearchInv'
    BY <1>2, <1>3, SearchKept DEF Kept, TypeOK
  <1> QED
    BY <1>3, <1>4, <1>5, <1>6, KeptOk

\* The error path of _wopendir: there is no search to close.
LEMMA OpenFailsIInv ==
  ASSUME IInv, NEW s \in Streams, OpenFails(s)
  PROVE  IInv'
  <1> USE DirentAssumption DEF IInv
  <1>1. stream[s].pc = "wclose" /\ stream[s].handle = None
    BY DEF OpenFails, StageOk
  <1>2. /\ stream'[s] = [Closed EXCEPT !.pc = "fail"]
        /\ blocks'[s] = blocks[s] \ Frees
        /\ \A u \in Streams \ {s} : Kept(u)
        /\ UNCHANGED <<search, arg, steady, returned, origin, misread>>
    BY <1>1 DEF OpenFails, _wclosedir, FindClose, ghosts, Kept, TypeOK
  <1>3. TypeOK'
    BY <1>1, <1>2 DEF OpenFails, _wclosedir, ghosts, others, TypeOK, StreamType, Stages, Closed
  <1>4. StageOk(s)' /\ EntryOk(s)'
    BY <1>1, <1>2 DEF StageOk, EntryOk, TypeOK, StreamType, Stages, Closed
  <1>5. SearchInv'
    BY <1>1, <1>2, SearchKept DEF Kept, TypeOK, StreamType, Stages, Closed
  <1> QED
    BY <1>2, <1>3, <1>4, <1>5, KeptOk

\* The error path of opendir.
LEMMA FreeDIRIInv ==
  ASSUME IInv, NEW s \in Streams, FreeDIR(s)
  PROVE  IInv'
  <1> USE DirentAssumption DEF IInv
  <1>1. stream[s].pc = "fail" /\ stream[s].handle = None
    BY DEF FreeDIR, StageOk
  <1>2. /\ stream'[s] = Closed /\ blocks'[s] = blocks[s] \ {"DIR"} /\ returned'[s] = Nothing
        /\ \A u \in Streams \ {s} : Kept(u)
        /\ UNCHANGED search
    BY <1>1 DEF FreeDIR, Forget, Kept, TypeOK
  <1>3. TypeOK'
    BY DEF FreeDIR, Forget, others, TypeOK, StreamType, Stages, Closed, Nothing
  <1>4. StageOk(s)' /\ EntryOk(s)'
    BY <1>1, <1>2 DEF StageOk, EntryOk, TypeOK, StreamType, Stages, Closed, Nothing
  <1>5. SearchInv'
    BY <1>1, <1>2, SearchKept DEF Kept, TypeOK, StreamType, Stages, Closed
  <1> QED
    BY <1>2, <1>3, <1>4, <1>5, KeptOk

-----------------------------------------------------------------------------
\* Closing the search of one stream leaves the searches of the others.
LEMMA OthersKeepSearch ==
  ASSUME IInv, NEW s \in Streams, NEW u \in Streams \ {s}, stream[u].handle # None
  PROVE  /\ stream[u].handle \in Handles /\ stream[u].handle # stream[s].handle
         /\ FindClose(search, stream[s].handle)[stream[u].handle] = search[stream[u].handle]
         /\ search[stream[u].handle].dir \in Dirs /\ search[stream[u].handle].dir # None
  <1>1. /\ stream[u].handle \in Handles /\ stream[u].handle # stream[s].handle
        /\ search[stream[u].handle].dir = origin[u]
    BY DEF IInv, TypeOK, StreamType, SearchInv
  <1>2. origin[u] \in Dirs /\ origin[u] # None
    BY DirentAssumption DEF IInv, StageOk, None
  <1> QED
    BY <1>1, <1>2 DEF FindClose, IInv, TypeOK

\* The table of the searches stays one when a search is closed; an open search is as it was.
LEMMA FindCloseTable ==
  ASSUME IInv, NEW k \in Handles \cup {None}
  PROVE  /\ FindClose(search, k) \in [Handles -> [dir : Dirs \cup {None}, seen : SUBSET Names]]
         /\ \A h \in Handles : FindClose(search, k)[h].dir # None =>
              h # k /\ FindClose(search, k)[h] = search[h]
  BY DirentAssumption DEF IInv, TypeOK, FindClose, NoSearch, None

\* A new search after the old one, if any, is closed: dirent_first and rewinddir.
LEMMA RestartIInv ==
  ASSUME IInv, NEW s \in Streams, NEW failed \in {"open", "wclose"},
         stream[s].pc \in {"first", "open", "end"},
         Restart(s, FindClose(search, stream[s].handle), "open", failed),
         rewinds' \in 0 .. MaxRewinds
  PROVE  IInv'
  <1> DEFINE w == stream[s]
  <1> DEFINE table == FindClose(search, w.handle)
  <1> DEFINE d == w.patt
  <1> USE DirentAssumption
  <1>1. /\ w \in StreamType /\ d \in Dirs /\ origin[s] = d /\ d # None
        /\ w.handle \in Handles \cup {None} /\ blocks[s] = {"DIR", "WDIR", "patt"}
    BY DEF IInv, StageOk, TypeOK, StreamType, None
  <1>2. /\ table \in [Handles -> [dir : Dirs \cup {None}, seen : SUBSET Names]]
        /\ \A h \in Handles : table[h].dir # None => h # w.handle /\ table[h] = search[h]
    BY <1>1, FindCloseTable
  <1>3. /\ returned' = [returned EXCEPT ![s] = Nothing] /\ misread' = [misread EXCEPT ![s] = FALSE]
        /\ UNCHANGED <<cwd, content, changes, blocks, arg, origin>>
    BY DEF Restart, others
  <1>4. Nothing \in [Names -> 0 .. 2] /\ \A x \in Names : Nothing[x] = 0
    BY DEF Nothing
  <1>5. /\ cwd' \in Dirs /\ content' \in [Dirs -> SUBSET Names]
        /\ blocks' \in [Streams -> SUBSET {"DIR", "WDIR", "patt"}]
        /\ arg' \in [Streams -> Dirs \cup {Relative, None}]
        /\ returned' \in [Streams -> [Names -> 0 .. 2]]
        /\ origin' \in [Streams -> Dirs \cup {None}] /\ misread' \in [Streams -> BOOLEAN]
        /\ changes' \in 0 .. MaxChanges
    BY <1>3, <1>4 DEF IInv, TypeOK
  <1>6. CASE \E h \in {y \in Handles : table[y].dir = None}, x \in content[d] :
               /\ search' = Start(table, h, d, x)
               /\ stream' = [stream EXCEPT ![s] = FirstFound([@ EXCEPT !.pc = "open"], h, x)]
               /\ steady' = [steady EXCEPT ![s] = content[origin[s]]]
    <2>1. PICK h \in {y \in Handles : table[y].dir = None}, x \in content[d] :
            /\ search' = Start(table, h, d, x)
            /\ stream' = [stream EXCEPT ![s] = FirstFound([@ EXCEPT !.pc = "open"], h, x)]
            /\ steady' = [steady EXCEPT ![s] = content[origin[s]]]
      BY <1>6
    <2> DEFINE v == FirstFound([w EXCEPT !.pc = "open"], h, x)
    <2>2. h \in Handles /\ table[h].dir = None /\ x \in Names /\ h # None /\ x # None
      BY <1>1, <2>1 DEF IInv, TypeOK, None
    <2>3. /\ v \in StreamType /\ v.pc = "open" /\ v.handle = h /\ v.cached = x /\ v.patt = d
          /\ v.n = w.n
      BY <1>1, <2>2 DEF FirstFound, StreamType, Stages
    <2> HIDE DEF v, table, d
    <2>4. stream' = [stream EXCEPT ![s] = v] /\ stream'[s] = v
      BY <2>1 DEF v, IInv, TypeOK
    <2>5. /\ search' \in [Handles -> [dir : Dirs \cup {None}, seen : SUBSET Names]]
          /\ search'[h].dir = d /\ search'[h].seen = {x}
          /\ \A k \in Handles \ {h} : search'[k] = table[k]
      BY <1>1, <1>2, <2>1, <2>2 DEF Start
    <2>6. steady' \in [Streams -> SUBSET Names]
      BY <1>1, <2>1 DEF IInv, TypeOK
    <2>7. TypeOK'
      BY <1>5, <2>2, <2>3, <2>4, <2>5, <2>6, StreamTypeKept DEF IInv, TypeOK
    <2>8. ASSUME NEW u \in Streams \ {s} PROVE Kept(u)
      <3>1. /\ stream'[u] = stream[u] /\ blocks'[u] = blocks[u] /\ arg'[u] = arg[u]
            /\ steady'[u] = steady[u] /\ returned'[u] = returned[u]
            /\ origin'[u] = origin[u] /\ misread'[u] = misread[u]
        BY <1>3, <2>1, <2>4 DEF IInv, TypeOK
      <3>2. ASSUME stream[u].handle # None
            PROVE  search'[stream[u].handle] = search[stream[u].handle]
        <4>1. /\ stream[u].handle \in Handles
              /\ table[stream[u].handle] = search[stream[u].handle]
              /\ search[stream[u].handle].dir # None
          BY <3>2, OthersKeepSearch DEF table
        <4> QED
          BY <4>1, <2>2, <2>5
      <3> QED
        BY <3>1, <3>2 DEF Kept
    <2>9. StageOk(s)'
      BY <1>1, <1>3, <2>3, <2>4 DEF StageOk
    <2>10. EntryOk(s)'
      <3>1. returned'[s] = Nothing /\ search'[v.handle].seen = {x} /\ v.handle # None
        BY <1>3, <2>2, <2>3, <2>5 DEF IInv, TypeOK
      <3> QED
        BY <1>4, <2>3, <2>4, <3>1 DEF EntryOk
    <2>11. SearchInv'
      <3>1. ASSUME NEW u \in Streams, stream'[u].handle # None
            PROVE  search'[stream'[u].handle].dir = origin'[u]
        <4>1. CASE u = s
          BY <4>1, <1>1, <1>3, <2>3, <2>4, <2>5
        <4>2. CASE u # s
          BY <4>2, <2>8, <3>1 DEF Kept, IInv, SearchInv
        <4> QED
          BY <4>1, <4>2
      <3>2. \A u \in Streams \ {s} : stream[u].handle # h
        BY <2>2, OthersKeepSearch DEF table
      <3>3. ASSUME NEW u \in Streams, NEW t \in Streams,
                   stream'[u].handle # None, stream'[t].handle = stream'[u].handle
            PROVE  t = u
        BY <2>3, <2>4, <2>8, <3>2, <3>3 DEF Kept, IInv, SearchInv
      <3>4. ASSUME NEW k \in Handles, search'[k].dir # None
            PROVE  \E u \in Streams : stream'[u].handle = k
        <4>1. CASE k = h
          BY <4>1, <2>3, <2>4
        <4>2. CASE k # h
          <5>1. k # w.handle /\ search[k].dir # None
            BY <4>2, <3>4, <1>2, <2>5
          <5>2. PICK u \in Streams : stream[u].handle = k
            BY <5>1 DEF IInv, SearchInv
          <5> QED
            BY <5>1, <5>2, <2>8 DEF Kept
        <4> QED
          BY <4>1, <4>2
      <3> QED
        BY <3>1, <3>3, <3>4 DEF SearchInv
    <2> QED
      BY <2>7, <2>8, <2>9, <2>10, <2>11, KeptOk DEF IInv
  <1>7. CASE /\ search' = table
             /\ stream' = [stream EXCEPT ![s] = FirstFails([@ EXCEPT !.pc = failed])]
             /\ steady' = [steady EXCEPT ![s] = {}]
    <2> DEFINE v == FirstFails([w EXCEPT !.pc = failed])
    <2>1. v \in StreamType /\ v.pc = failed /\ v.handle = None /\ v.cached = None /\ v.patt = d
      BY <1>1 DEF FirstFails, StreamType, Stages
    <2> HIDE DEF v, table, d
    <2>2. stream' = [stream EXCEPT ![s] = v] /\ stream'[s] = v /\ steady'[s] = {}
      BY <1>7 DEF v, IInv, TypeOK
    <2>3. TypeOK'
      <3>1. steady' \in [Streams -> SUBSET Names]
        BY <1>7 DEF IInv, TypeOK
      <3>2. /\ stream' \in [Streams -> StreamType]
            /\ \A u \in Streams : stream'[u].cached # None => stream'[u].handle # None
        BY <2>1, <2>2, StreamTypeKept DEF IInv
      <3> QED
        BY <1>2, <1>5, <1>7, <3>1, <3>2 DEF TypeOK
    <2>4. ASSUME NEW u \in Streams \ {s} PROVE Kept(u)
      <3>1. /\ stream'[u] = stream[u] /\ blocks'[u] = blocks[u] /\ arg'[u] = arg[u]
            /\ steady'[u] = steady[u] /\ returned'[u] = returned[u]
            /\ origin'[u] = origin[u] /\ misread'[u] = misread[u]
        BY <1>3, <1>7, <2>2 DEF IInv, TypeOK
      <3> QED
        BY <1>7, <3>1, OthersKeepSearch DEF Kept, table
    <2>5. StageOk(s)'
      BY <1>1, <1>3, <2>1, <2>2 DEF StageOk, Frees
    <2>6. EntryOk(s)'
      <3>1. returned'[s] = Nothing
        BY <1>3 DEF IInv, TypeOK
      <3> QED
        BY <1>4, <2>1, <2>2, <3>1 DEF EntryOk
    <2>7. SearchInv'
      <3>1. ASSUME NEW u \in Streams, stream'[u].handle # None
            PROVE  u # s /\ search'[stream'[u].handle].dir = origin'[u]
        BY <2>1, <2>2, <2>4, <3>1 DEF Kept, IInv, SearchInv
      <3>2. ASSUME NEW u \in Streams, NEW t \in Streams,
                   stream'[u].handle # None, stream'[t].handle = stream'[u].handle
            PROVE  t = u
        BY <2>1, <2>2, <2>4, <3>2 DEF Kept, IInv, SearchInv
      <3>3. ASSUME NEW k \in Handles, search'[k].dir # None
            PROVE  \E u \in Streams : stream'[u].handle = k
        <4>1. k # w.handle /\ search[k].dir # None
          BY <3>3, <1>2, <1>7
        <4>2. PICK u \in Streams : stream[u].handle = k
          BY <4>1 DEF IInv, SearchInv
        <4> QED
          BY <4>1, <4>2, <2>4 DEF Kept
      <3> QED
        BY <3>1, <3>2, <3>3 DEF SearchInv
    <2> QED
      BY <2>3, <2>4, <2>5, <2>6, <2>7, KeptOk DEF IInv
  <1> QED
    BY <1>6, <1>7 DEF Restart, Pattern

\* The first search of opendir.
LEMMA dirent_firstIInv ==
  ASSUME IInv, NEW s \in Streams, dirent_first(s)
  PROVE  IInv'
  <1>1. stream[s].handle = None /\ FindClose(search, stream[s].handle) = search
    BY DEF dirent_first, IInv, StageOk, FindClose
  <1> QED
    BY <1>1, RestartIInv DEF dirent_first, IInv, TypeOK

\* rewinddir closes the search it has and starts another.
LEMMA rewinddirIInv ==
  ASSUME IInv, NEW s \in Streams, rewinddir(s)
  PROVE  IInv'
  <1>1. rewinds' \in 0 .. MaxRewinds
    BY DirentAssumption DEF rewinddir, IInv, TypeOK
  <1> QED
    BY <1>1, RestartIInv DEF rewinddir

-----------------------------------------------------------------------------
\* readdir takes the entry that waits in memory.
LEMMA CachedIInv ==
  ASSUME IInv, NEW s \in Streams, stream[s].pc \in {"open", "end"}, stream[s].cached # None,
         stream' = [stream EXCEPT ![s] = TakeCached(stream[s])],
         Returns(s, stream[s].cached),
         UNCHANGED <<search, misread, others, blocks, arg, steady, origin, rewinds>>
  PROVE  IInv'
  <1> DEFINE w == stream[s]
  <1> DEFINE v == TakeCached(w)
  <1> USE DirentAssumption
  <1>1. /\ w \in StreamType /\ w.cached \in Names /\ w.handle # None /\ w.handle \in Handles
        /\ w.pc = "open"
    BY DEF IInv, TypeOK, StreamType, StageOk
  <1>2. /\ v \in StreamType /\ v.pc = "open" /\ v.handle = w.handle /\ v.cached = None
        /\ v.patt = w.patt /\ v.n = w.n
    BY <1>1 DEF TakeCached, StreamType, Stages
  <1> HIDE DEF v
  <1>3. /\ w.cached \in search[w.handle].seen /\ w.cached # None /\ None \notin Names
        /\ \A x \in Names : returned[s][x] \in {0, 1}
        /\ \A x \in Names : returned[s][x] = 1 <=> x \in search[w.handle].seen \ {w.cached}
    BY <1>1 DEF IInv, EntryOk, None
  <1>4. stream' = [stream EXCEPT ![s] = v] /\ stream'[s] = v
    BY DEF v, IInv, TypeOK
  <1>5. /\ returned' \in [Streams -> [Names -> 0 .. 2]]
        /\ \A u \in Streams \ {s} : returned'[u] = returned[u]
        /\ returned'[s][w.cached] = 1
        /\ \A x \in Names \ {w.cached} : returned'[s][x] = returned[s][x]
    BY <1>1, <1>3 DEF Returns, IInv, TypeOK
  <1>6. TypeOK'
    <2>1. /\ stream' \in [Streams -> StreamType]
          /\ \A u \in Streams : stream'[u].cached # None => stream'[u].handle # None
      BY <1>2, <1>4, StreamTypeKept DEF IInv
    <2> QED
      BY <2>1, <1>5 DEF IInv, TypeOK, others
  <1>7. ASSUME NEW u \in Streams \ {s} PROVE Kept(u)
    BY <1>4, <1>5 DEF Kept, IInv, TypeOK
  <1>8. StageOk(s)'
    BY <1>1, <1>2, <1>4 DEF StageOk, IInv
  <1>9. EntryOk(s)'
    BY <1>1, <1>2, <1>3, <1>4, <1>5 DEF EntryOk
  <1>10. SearchInv'
    BY <1>2, <1>4, <1>7, SearchKept DEF Kept, IInv
  <1> QED
    BY <1>6, <1>7, <1>8, <1>9, <1>10, KeptOk DEF IInv

\* readdir gets another entry from the search.
LEMMA AdvanceIInv ==
  ASSUME IInv, NEW s \in Streams, stream[s].cached = None, stream[s].handle # None,
         NEW x \in content[search[stream[s].handle].dir] \ search[stream[s].handle].seen,
         search' = Advance(search, stream[s].handle, x), Returns(s, x),
         UNCHANGED <<stream, misread, others, blocks, arg, steady, origin, rewinds>>
  PROVE  IInv'
  <1> DEFINE w == stream[s]
  <1> USE DirentAssumption
  <1>1. /\ w.handle \in Handles /\ w.pc = "open" /\ None \notin Names
        /\ search[w.handle].dir \in Dirs /\ x \in Names
    BY DEF IInv, TypeOK, StreamType, StageOk, SearchInv, None
  <1>2. /\ \A y \in Names : returned[s][y] \in {0, 1}
        /\ \A y \in Names : returned[s][y] = 1 <=> y \in search[w.handle].seen
    BY <1>1 DEF IInv, EntryOk
  <1>3. /\ search' \in [Handles -> [dir : Dirs \cup {None}, seen : SUBSET Names]]
        /\ \A h \in Handles : search'[h].dir = search[h].dir
        /\ \A h \in Handles \ {w.handle} : search'[h] = search[h]
        /\ search'[w.handle].seen = search[w.handle].seen \cup {x}
    <2> DEFINE r == search[w.handle]
    <2> DEFINE q == [r EXCEPT !.seen = @ \cup {x}]
    <2>1. r \in [dir : Dirs \cup {None}, seen : SUBSET Names]
      BY <1>1 DEF IInv, TypeOK
    <2>2. /\ q \in [dir : Dirs \cup {None}, seen : SUBSET Names]
          /\ q.dir = r.dir /\ q.seen = r.seen \cup {x}
      BY <1>1, <2>1
    <2>3. search' = [search EXCEPT ![w.handle] = q]
      BY DEF Advance
    <2> HIDE DEF q
    <2> QED
      BY <1>1, <2>2, <2>3 DEF IInv, TypeOK
  <1>4. /\ returned' \in [Streams -> [Names -> 0 .. 2]]
        /\ \A u \in Streams \ {s} : returned'[u] = returned[u]
        /\ returned'[s][x] = 1
        /\ \A y \in Names \ {x} : returned'[s][y] = returned[s][y]
    BY <1>1, <1>2 DEF Returns, IInv, TypeOK
  <1>5. TypeOK'
    BY <1>3, <1>4 DEF IInv, TypeOK, others
  <1>6. ASSUME NEW u \in Streams \ {s} PROVE Kept(u)
    BY <1>3, <1>4, OthersKeepSearch DEF Kept
  <1>7. StageOk(s)'
    BY DEF StageOk, IInv
  <1>8. EntryOk(s)'
    BY <1>1, <1>2, <1>3, <1>4 DEF EntryOk
  <1>9. SearchInv'
    <2>1. \A u \in Streams : stream[u].handle # None => stream[u].handle \in Handles
      BY DEF IInv, TypeOK, StreamType
    <2> QED
      BY <1>3, <2>1 DEF SearchInv, IInv
  <1> QED
    BY <1>5, <1>6, <1>7, <1>8, <1>9, KeptOk DEF IInv

\* The search has no more entries, or fails: it is closed and the stream forgets it.
LEMMA LastIInv ==
  ASSUME IInv, NEW s \in Streams, stream[s].cached = None, stream[s].handle # None,
         misread' = [misread EXCEPT ![s] = ~(steady[s] \subseteq search[stream[s].handle].seen)],
         search' = FindClose(search, stream[s].handle),
         stream' = [stream EXCEPT ![s] = LastEntry(stream[s])],
         UNCHANGED <<returned, others, blocks, arg, steady, origin, rewinds>>
  PROVE  IInv'
  <1> DEFINE w == stream[s]
  <1> DEFINE v == LastEntry(w)
  <1> USE DirentAssumption
  <1>1. /\ w \in StreamType /\ w.handle \in Handles /\ w.pc = "open" /\ None \notin Names
    BY DEF IInv, TypeOK, StreamType, StageOk, None
  <1>2. /\ v \in StreamType /\ v.pc = "end" /\ v.handle = None /\ v.cached = None
        /\ v.patt = w.patt
    BY <1>1 DEF LastEntry, StreamType, Stages
  <1> HIDE DEF v
  <1>3. stream' = [stream EXCEPT ![s] = v] /\ stream'[s] = v
    BY DEF v, IInv, TypeOK
  <1>4. /\ search' \in [Handles -> [dir : Dirs \cup {None}, seen : SUBSET Names]]
        /\ \A h \in Handles : search'[h].dir # None => h # w.handle /\ search'[h] = search[h]
    BY <1>1, FindCloseTable
  <1>5. TypeOK'
    <2>1. /\ stream' \in [Streams -> StreamType]
          /\ \A u \in Streams : stream'[u].cached # None => stream'[u].handle # None
      BY <1>2, <1>3, StreamTypeKept DEF IInv
    <2> QED
      BY <1>4, <2>1 DEF IInv, TypeOK, others
  <1>6. ASSUME NEW u \in Streams \ {s} PROVE Kept(u)
    BY <1>3, OthersKeepSearch DEF Kept, IInv, TypeOK
  <1>7. StageOk(s)'
    BY <1>1, <1>2, <1>3 DEF StageOk, IInv
  <1>8. EntryOk(s)'
    <2>1. /\ \A x \in Names : returned[s][x] \in {0, 1}
          /\ \A x \in Names : returned[s][x] = 1 <=> x \in search[w.handle].seen
      BY <1>1 DEF IInv, EntryOk
    <2>2. ~misread'[s] => \A x \in steady[s] : returned[s][x] = 1
      BY <2>1 DEF IInv, TypeOK
    <2> QED
      BY <1>2, <1>3, <2>1, <2>2 DEF EntryOk
  <1>9. SearchInv'
    <2>1. ASSUME NEW u \in Streams, stream'[u].handle # None
          PROVE  u # s /\ search'[stream'[u].handle].dir = origin'[u]
      BY <1>2, <1>3, <1>6, <2>1 DEF Kept, IInv, SearchInv
    <2>2. ASSUME NEW u \in Streams, NEW t \in Streams,
                 stream'[u].handle # None, stream'[t].handle = stream'[u].handle
          PROVE  t = u
      BY <1>2, <1>3, <1>6, <2>2 DEF Kept, IInv, SearchInv
    <2>3. ASSUME NEW k \in Handles, search'[k].dir # None
          PROVE  \E u \in Streams : stream'[u].handle = k
      <3>1. k # w.handle /\ search[k].dir # None
        BY <2>3, <1>4
      <3>2. PICK u \in Streams : stream[u].handle = k
        BY <3>1 DEF IInv, SearchInv
      <3> QED
        BY <3>1, <3>2, <1>6 DEF Kept
    <2> QED
      BY <2>1, <2>2, <2>3 DEF SearchInv
  <1> QED
    BY <1>5, <1>6, <1>7, <1>8, <1>9, KeptOk DEF IInv

\* readdir on a stream without a search answers NULL: it has nothing left to return.
LEMMA NoMoreIInv ==
  ASSUME IInv, NEW s \in Streams, stream[s].pc \in {"open", "end"},
         stream[s].cached = None, stream[s].handle = None,
         stream' = [stream EXCEPT ![s].pc = "end"],
         UNCHANGED <<search, returned, misread, others, blocks, arg, steady, origin, rewinds>>
  PROVE  IInv'
  <1> DEFINE w == stream[s]
  <1> DEFINE v == [w EXCEPT !.pc = "end"]
  <1> USE DirentAssumption
  <1>1. w \in StreamType /\ "end" \in Stages
    BY DEF IInv, TypeOK, Stages
  <1>2. /\ v \in StreamType /\ v.pc = "end" /\ v.handle = None /\ v.cached = None
        /\ v.patt = w.patt
    BY <1>1, AtStage
  <1> HIDE DEF v
  <1>3. stream' = [stream EXCEPT ![s] = v] /\ stream'[s] = v
    BY DEF v, IInv, TypeOK
  <1>4. TypeOK'
    <2>1. /\ stream' \in [Streams -> StreamType]
          /\ \A u \in Streams : stream'[u].cached # None => stream'[u].handle # None
      BY <1>2, <1>3, StreamTypeKept DEF IInv
    <2> QED
      BY <2>1 DEF IInv, TypeOK, others
  <1>5. ASSUME NEW u \in Streams \ {s} PROVE Kept(u)
    BY <1>3 DEF Kept, IInv, TypeOK
  <1>6. StageOk(s)'
    BY <1>1, <1>2, <1>3 DEF StageOk, IInv
  <1>7. EntryOk(s)'
    BY <1>2, <1>3 DEF EntryOk, IInv
  <1>8. SearchInv'
    BY <1>2, <1>3, <1>5, SearchKept DEF Kept, IInv
  <1> QED
    BY <1>4, <1>5, <1>6, <1>7, <1>8, KeptOk DEF IInv

\* readdir
LEMMA readdirIInv ==
  ASSUME IInv, NEW s \in Streams, readdir(s)
  PROVE  IInv'
  <1> DEFINE w == stream[s]
  <1>1. w.pc \in {"open", "end"} /\ UNCHANGED <<others, blocks, arg, steady, origin, rewinds>>
    BY DEF readdir
  <1>2. CASE /\ w.cached # None
             /\ stream' = [stream EXCEPT ![s] = TakeCached(w)]
             /\ Returns(s, w.cached)
             /\ UNCHANGED <<search, misread>>
    BY <1>1, <1>2, CachedIInv
  <1>3. CASE /\ w.cached = None /\ w.handle # None
             /\ \E x \in content[search[w.handle].dir] \ search[w.handle].seen :
                  search' = Advance(search, w.handle, x) /\ Returns(s, x)
             /\ UNCHANGED <<stream, misread>>
    BY <1>1, <1>3, AdvanceIInv
  <1>4. CASE /\ w.cached = None /\ w.handle # None
             /\ misread' = [misread EXCEPT ![s] = ~(steady[s] \subseteq search[w.handle].seen)]
             /\ search' = FindClose(search, w.handle)
             /\ stream' = [stream EXCEPT ![s] = LastEntry(w)]
             /\ UNCHANGED returned
    BY <1>1, <1>4, LastIInv
  <1>5. CASE /\ w.cached = None /\ w.handle = None
             /\ stream' = [stream EXCEPT ![s].pc = "end"]
             /\ UNCHANGED <<search, returned, misread>>
    BY <1>1, <1>5, NoMoreIInv
  <1> QED
    BY <1>2, <1>3, <1>4, <1>5 DEF readdir

\* closedir closes the search, if it is open still, and frees the stream.
LEMMA closedirIInv ==
  ASSUME IInv, NEW s \in Streams, closedir(s)
  PROVE  IInv'
  <1> DEFINE w == stream[s]
  <1> USE DirentAssumption
  <1>1. /\ w.handle \in Handles \cup {None} /\ blocks[s] = {"DIR", "WDIR", "patt"}
        /\ search' = FindClose(search, w.handle)
    BY DEF closedir, _wclosedir, IInv, StageOk, TypeOK, StreamType
  <1>2. /\ search' \in [Handles -> [dir : Dirs \cup {None}, seen : SUBSET Names]]
        /\ \A h \in Handles : search'[h].dir # None => h # w.handle /\ search'[h] = search[h]
    BY <1>1, FindCloseTable
  <1>3. /\ stream'[s] = Closed /\ blocks'[s] = {} /\ returned'[s] = Nothing
        /\ Closed.handle = None /\ Closed.cached = None /\ Closed.pc = "closed"
    BY <1>1 DEF closedir, Forget, IInv, TypeOK, Frees, Closed
  <1>4. TypeOK'
    BY <1>2 DEF closedir, _wclosedir, Forget, others, IInv, TypeOK, StreamType, Stages,
                 Closed, Nothing
  <1>5. ASSUME NEW u \in Streams \ {s} PROVE Kept(u)
    <2>1. /\ stream'[u] = stream[u] /\ blocks'[u] = blocks[u] /\ arg'[u] = arg[u]
          /\ steady'[u] = steady[u] /\ returned'[u] = returned[u]
          /\ origin'[u] = origin[u] /\ misread'[u] = misread[u]
      BY DEF closedir, Forget, IInv, TypeOK
    <2> QED
      BY <1>1, <2>1, OthersKeepSearch DEF Kept
  <1>6. StageOk(s)' /\ EntryOk(s)'
    BY <1>3 DEF StageOk, EntryOk, Nothing
  <1>7. SearchInv'
    <2>1. ASSUME NEW u \in Streams, stream'[u].handle # None
          PROVE  u # s /\ search'[stream'[u].handle].dir = origin'[u]
      BY <1>3, <1>5, <2>1 DEF Kept, IInv, SearchInv
    <2>2. ASSUME NEW u \in Streams, NEW t \in Streams,
                 stream'[u].handle # None, stream'[t].handle = stream'[u].handle
          PROVE  t = u
      BY <1>3, <1>5, <2>2 DEF Kept, IInv, SearchInv
    <2>3. ASSUME NEW k \in Handles, search'[k].dir # None
          PROVE  \E u \in Streams : stream'[u].handle = k
      <3>1. k # w.handle /\ search[k].dir # None
        BY <2>3, <1>2
      <3>2. PICK u \in Streams : stream[u].handle = k
        BY <3>1 DEF IInv, SearchInv
      <3> QED
        BY <3>1, <3>2, <1>5 DEF Kept
    <2> QED
      BY <2>1, <2>2, <2>3 DEF SearchInv
  <1> QED
    BY <1>4, <1>5, <1>6, <1>7, KeptOk DEF IInv

\* Another thread creates an entry or changes the working directory: no stream sees it yet.
LEMMA OutsideIInv ==
  ASSUME IInv, cwd' \in Dirs, content' \in [Dirs -> SUBSET Names], changes' \in 0 .. MaxChanges,
         UNCHANGED <<search, stream, blocks, arg, ghosts, rewinds>>
  PROVE  IInv'
  BY DEF IInv, TypeOK, StageOk, EntryOk, SearchInv, ghosts

\* Another thread deletes an entry: it is no longer one that was there all the time.
LEMMA DeleteIInv ==
  ASSUME IInv, NEW d \in Dirs, NEW x \in Names, Delete(d, x)
  PROVE  IInv'
  <1>1. steady' \in [Streams -> SUBSET Names] /\ \A s \in Streams : steady'[s] \subseteq steady[s]
    BY DEF Delete, IInv, TypeOK
  <1>2. TypeOK'
    BY <1>1, DirentAssumption DEF Delete, IInv, TypeOK
  <1>3. \A s \in Streams : StageOk(s)'
    BY DEF Delete, IInv, StageOk
  <1>4. \A s \in Streams : EntryOk(s)'
    BY <1>1 DEF Delete, IInv, EntryOk
  <1>5. SearchInv'
    BY DEF Delete, IInv, SearchInv
  <1> QED
    BY <1>2, <1>3, <1>4, <1>5 DEF IInv

\* Every step, and stuttering, preserves the invariant.
LEMMA NextIInv == IInv /\ [Next]_vars => IInv'
  <1> SUFFICES ASSUME IInv, [Next]_vars PROVE IInv'
    OBVIOUS
  <1>1. ASSUME NEW s \in Streams, opendir(s) PROVE IInv'
    BY <1>1, opendirIInv
  <1>2. ASSUME NEW s \in Streams, Opening(s) PROVE IInv'
    BY <1>2, AllocWDIRIInv, AllocPatternIInv, GetPathIInv, dirent_firstIInv, OpenFailsIInv,
       FreeDIRIInv DEF Opening
  <1>3. ASSUME NEW s \in Streams, readdir(s) PROVE IInv'
    BY <1>3, readdirIInv
  <1>4. ASSUME NEW s \in Streams, rewinddir(s) PROVE IInv'
    BY <1>4, rewinddirIInv
  <1>5. ASSUME NEW s \in Streams, closedir(s) PROVE IInv'
    BY <1>5, closedirIInv
  <1>6. ASSUME NEW d \in Dirs, chdir(d) PROVE IInv'
    BY <1>6, OutsideIInv, DirentAssumption DEF chdir, IInv, TypeOK
  <1>7. ASSUME NEW d \in Dirs, NEW x \in Names, Create(d, x) PROVE IInv'
    BY <1>7, OutsideIInv, DirentAssumption DEF Create, IInv, TypeOK
  <1>8. ASSUME NEW d \in Dirs, NEW x \in Names, Delete(d, x) PROVE IInv'
    BY <1>8, DeleteIInv
  <1>9. CASE UNCHANGED vars
    BY <1>9, OutsideIInv DEF vars, ghosts, IInv, TypeOK
  <1> QED
    BY <1>1, <1>2, <1>3, <1>4, <1>5, <1>6, <1>7, <1>8, <1>9 DEF Next

-----------------------------------------------------------------------------
\* The inductive invariant holds in every reachable state.
THEOREM Invariant == Spec => []IInv
  BY InitIInv, NextIInv, PTL DEF Spec

(***************************************************************************)
(* Every search handle is owned by exactly one stream and searches the     *)
(* directory the stream was opened on; no failure of opendir and no        *)
(* closedir leaves an allocation or a handle behind; the pattern fits.     *)
(***************************************************************************)
THEOREM Owned == Spec => []HandlesOwned
  <1>1. IInv => HandlesOwned
    <2> SUFFICES ASSUME IInv PROVE HandlesOwned
      OBVIOUS
    <2>1. ASSUME NEW s \in Streams, stream[s].pc = "first"
          PROVE  PathLen[stream[s].patt] + 3 <= stream[s].n + Slack
      <3>1. /\ PathLen[stream[s].patt] < stream[s].n /\ stream[s].patt \in Dirs
            /\ stream[s].n \in Nat
        BY <2>1 DEF IInv, StageOk, TypeOK, StreamType
      <3> QED
        BY <3>1, DirentAssumption
    <2>2. ASSUME NEW s \in Streams
          PROVE  /\ stream[s].handle # None =>
                      /\ search[stream[s].handle].dir = origin[s]
                      /\ \A t \in Streams : stream[t].handle = stream[s].handle => t = s
                 /\ stream[s].pc = "closed" => blocks[s] = {}
                 /\ stream[s].pc \in {"open", "end"} => blocks[s] = {"DIR", "WDIR", "patt"}
      BY DEF IInv, SearchInv, StageOk
    <2> QED
      BY <2>1, <2>2 DEF IInv, HandlesOwned, SearchInv
  <1> QED
    BY <1>1, Invariant, PTL

(***************************************************************************)
(* readdir returns no entry twice, and when it answers NULL, and the       *)
(* search did not fail, it has returned every entry that was there since   *)
(* the stream was opened or rewound.                                       *)
(***************************************************************************)
THEOREM EntriesOnce == Spec => []EveryEntryOnce
  <1>1. IInv => EveryEntryOnce
    <2> SUFFICES ASSUME IInv, NEW s \in Streams
                 PROVE  /\ \A x \in Names : returned[s][x] < 2
                        /\ stream[s].pc = "end" /\ ~misread[s] =>
                             \A x \in steady[s] : returned[s][x] = 1
      BY DEF EveryEntryOnce
    <2>1. \A x \in Names : returned[s][x] \in {0, 1}
      BY DEF IInv, EntryOk
    <2> QED
      BY <2>1 DEF IInv, EntryOk
  <1> QED
    BY <1>1, Invariant, PTL

=============================================================================
