------------------------------- MODULE Dirent -------------------------------
(***************************************************************************)
(* include/compat/dirent_msvc.h: directory streams on Windows.             *)
(*                                                                         *)
(* opendir() starts a search, which yields its first entry at once; that   *)
(* entry is kept for the first readdir().  The search is closed as soon as *)
(* it has no more entries, by rewinddir(), or by closedir().  Meanwhile    *)
(* other threads create and delete entries, change the working directory,  *)
(* and open streams of their own; Windows hands closed search handles out  *)
(* again.                                                                  *)
(***************************************************************************)
EXTENDS Integers, FiniteSets

CONSTANTS Streams, Names, Dirs, Handles,
          PathLen,     \* the length of a directory's full name
          Slack,       \* the 16 bytes added to the pattern, in characters
          MaxChanges,  \* bound: changes of the directories
          MaxRewinds   \* bound: calls of rewinddir

ASSUME DirentAssumption ==
  /\ PathLen \in [Dirs -> Nat \ {0}] /\ Slack \in Nat /\ Slack > 1
  /\ MaxChanges \in Nat /\ MaxRewinds \in Nat
  /\ "none" \notin Names /\ "none" \notin Dirs /\ "none" \notin Handles

VARIABLES cwd, content,   \* the working directory; what is in each directory
          search,         \* Windows: the open searches
          stream,         \* the DIR and _WDIR structures
          blocks,         \* which of a stream's three allocations exist
          arg,            \* the name given to opendir
          steady,         \* ghost: entries there since the stream was opened or rewound
          returned,       \* ghost: how often readdir returned each name since then (2: or more)
          origin,         \* ghost: the directory the stream was opened on
          misread,        \* ghost: the search failed before its end
          changes, rewinds

ghosts == <<steady, returned, origin, misread>>
vars == <<cwd, content, search, stream, blocks, arg, steady, returned, origin, misread, changes, rewinds>>

None == "none"
Relative == "relative"   \* a name that the working directory completes
Closed == [pc |-> "closed", n |-> 0, patt |-> None, handle |-> None, cached |-> None]
NoSearch == [dir |-> None, seen |-> {}]
Nothing == [x \in Names |-> 0]

Stages == {"closed", "convert", "size", "path", "first", "wclose", "fail", "open", "end"}
StreamType ==
  [pc : Stages, n : Nat, patt : Dirs \cup {None}, handle : Handles \cup {None},
   cached : Names \cup {None}]

\* Among others: an entry waits in memory only while its search is open.
TypeOK ==
  /\ cwd \in Dirs /\ content \in [Dirs -> SUBSET Names]
  /\ search \in [Handles -> [dir : Dirs \cup {None}, seen : SUBSET Names]]
  /\ stream \in [Streams -> StreamType]
  /\ \A s \in Streams : stream[s].cached # None => stream[s].handle # None
  /\ blocks \in [Streams -> SUBSET {"DIR", "WDIR", "patt"}]
  /\ arg \in [Streams -> Dirs \cup {Relative, None}]
  /\ steady \in [Streams -> SUBSET Names] /\ returned \in [Streams -> [Names -> 0 .. 2]]
  /\ origin \in [Streams -> Dirs \cup {None}] /\ misread \in [Streams -> BOOLEAN]
  /\ changes \in 0 .. MaxChanges /\ rewinds \in 0 .. MaxRewinds

\* Directories are full at first: Delete makes the others.
Init ==
  /\ cwd \in Dirs /\ content = [d \in Dirs |-> Names]
  /\ search = [h \in Handles |-> NoSearch]
  /\ stream = [s \in Streams |-> Closed] /\ blocks = [s \in Streams |-> {}]
  /\ arg = [s \in Streams |-> None]
  /\ steady = [s \in Streams |-> {}] /\ returned = [s \in Streams |-> Nothing]
  /\ origin = [s \in Streams |-> None] /\ misread = [s \in Streams |-> FALSE]
  /\ changes = 0 /\ rewinds = 0

-----------------------------------------------------------------------------
\* Other threads

Create(d, x) ==
  /\ changes < MaxChanges /\ x \notin content[d]
  /\ content' = [content EXCEPT ![d] = @ \cup {x}] /\ changes' = changes + 1
  /\ UNCHANGED <<cwd, search, stream, blocks, arg, ghosts, rewinds>>

Delete(d, x) ==
  /\ changes < MaxChanges /\ x \in content[d]
  /\ content' = [content EXCEPT ![d] = @ \ {x}] /\ changes' = changes + 1
  /\ steady' = [s \in Streams |-> IF origin[s] = d THEN steady[s] \ {x} ELSE steady[s]]
  /\ UNCHANGED <<cwd, search, stream, blocks, arg, returned, origin, misread, rewinds>>

chdir(d) ==
  /\ changes < MaxChanges /\ d # cwd
  /\ cwd' = d /\ changes' = changes + 1
  /\ UNCHANGED <<content, search, stream, blocks, arg, ghosts, rewinds>>

others == <<cwd, content, changes>>

-----------------------------------------------------------------------------
\* Windows' searches, as functions of the table

Start(table, h, d, x) == [table EXCEPT ![h] = [dir |-> d, seen |-> {x}]]
Advance(table, h, x) == [table EXCEPT ![h].seen = @ \cup {x}]
FindClose(table, h) == IF h = None THEN table ELSE [table EXCEPT ![h] = NoSearch]

\* GetFullPathNameW
FullPath(s) == IF arg[s] = Relative THEN cwd ELSE arg[s]

-----------------------------------------------------------------------------
\* dirent_first and dirent_next: the new stream structure

\* A mutation: the first entry is not kept.
FirstForgotten(w, h, x) == [w EXCEPT !.handle = h, !.cached = None]

FirstFound(w, h, x) == [w EXCEPT !.handle = h, !.cached = x]

FirstFails(w) == [w EXCEPT !.handle = None, !.cached = None]

TakeCached(w) == [w EXCEPT !.cached = None]

\* A mutation: the handle is not forgotten.
LastDangles(w) == [w EXCEPT !.pc = "end"]

LastEntry(w) == [w EXCEPT !.handle = None, !.pc = "end"]

-----------------------------------------------------------------------------
\* opendir and _wopendir

Goto(s, from, to) == stream[s].pc = from /\ stream' = [stream EXCEPT ![s].pc = to]

\* A null or empty name returns before this.
opendir(s) ==
  /\ Goto(s, "closed", "convert")
  /\ blocks' = [blocks EXCEPT ![s] = {"DIR"}]
  /\ \E d \in Dirs \cup {Relative} : arg' = [arg EXCEPT ![s] = d]
  /\ UNCHANGED <<others, search, ghosts, rewinds>>

\* dirent_mbstowcs_s and the allocation of _WDIR
AllocWDIR(s) ==
  /\ \/ Goto(s, "convert", "size") /\ blocks' = [blocks EXCEPT ![s] = @ \cup {"WDIR"}]
     \/ Goto(s, "convert", "fail") /\ UNCHANGED blocks
  /\ UNCHANGED <<others, search, arg, ghosts, rewinds>>

\* The length of the full name with its terminator, or 0; and room for it
AllocPattern(s) ==
  /\ stream[s].pc = "size"
  /\ \/ /\ \E n \in {0, PathLen[FullPath(s)] + 1} :
             stream' = [stream EXCEPT ![s].pc = "path", ![s].n = n]
        /\ blocks' = [blocks EXCEPT ![s] = @ \cup {"patt"}]
     \/ Goto(s, "size", "wclose") /\ UNCHANGED blocks
  /\ UNCHANGED <<others, search, arg, ghosts, rewinds>>

PathOk(len, n) == len > 0 /\ len < n

\* The working directory may have changed since AllocPattern; GetFullPathNameW returns the
\* size it needs when the buffer is too small.
GetPath(s) ==
  /\ stream[s].pc = "path"
  /\ LET d == FullPath(s)
         len == IF PathLen[d] < stream[s].n THEN PathLen[d] ELSE PathLen[d] + 1
     IN  \/ /\ PathOk(len, stream[s].n)
            /\ stream' = [stream EXCEPT ![s].pc = "first", ![s].patt = d]
            /\ origin' = [origin EXCEPT ![s] = d]
         \/ ~PathOk(len, stream[s].n) /\ Goto(s, "path", "wclose") /\ UNCHANGED origin
  /\ UNCHANGED <<others, search, blocks, arg, steady, returned, misread, rewinds>>

Pattern(s) == stream[s].patt

\* A new search on the pattern, and what the caller may expect of it
Restart(s, table, found, failed) ==
  LET d == Pattern(s) IN
  /\ \/ \E h \in {x \in Handles : table[x].dir = None}, x \in content[d] :
          /\ search' = Start(table, h, d, x)
          /\ stream' = [stream EXCEPT ![s] = FirstFound([@ EXCEPT !.pc = found], h, x)]
          /\ steady' = [steady EXCEPT ![s] = content[origin[s]]]
     \/ /\ search' = table
        /\ stream' = [stream EXCEPT ![s] = FirstFails([@ EXCEPT !.pc = failed])]
        /\ steady' = [steady EXCEPT ![s] = {}]
  /\ returned' = [returned EXCEPT ![s] = Nothing] /\ misread' = [misread EXCEPT ![s] = FALSE]
  /\ UNCHANGED <<others, blocks, arg, origin>>

dirent_first(s) == stream[s].pc = "first" /\ Restart(s, search, "open", "wclose") /\ UNCHANGED rewinds

Frees == {"WDIR", "patt"}

\* The handle, the pattern and the structure
_wclosedir(s) ==
  /\ search' = FindClose(search, stream[s].handle)
  /\ UNCHANGED <<others, rewinds>>

\* The error path of _wopendir
OpenFails(s) ==
  /\ stream[s].pc = "wclose" /\ _wclosedir(s)
  /\ blocks' = [blocks EXCEPT ![s] = @ \ Frees]
  /\ stream' = [stream EXCEPT ![s] = [Closed EXCEPT !.pc = "fail"]]
  /\ UNCHANGED <<arg, ghosts>>

\* The stream is no longer the program's.
Forget(s) ==
  /\ stream' = [stream EXCEPT ![s] = Closed] /\ arg' = [arg EXCEPT ![s] = None]
  /\ steady' = [steady EXCEPT ![s] = {}] /\ returned' = [returned EXCEPT ![s] = Nothing]
  /\ origin' = [origin EXCEPT ![s] = None] /\ misread' = [misread EXCEPT ![s] = FALSE]

\* The error path of opendir
FreeDIR(s) ==
  /\ stream[s].pc = "fail"
  /\ blocks' = [blocks EXCEPT ![s] = @ \ {"DIR"}]
  /\ Forget(s) /\ UNCHANGED <<others, search, rewinds>>

-----------------------------------------------------------------------------
\* readdir, rewinddir, closedir

Returns(s, x) == returned' = [returned EXCEPT ![s][x] = IF @ < 2 THEN @ + 1 ELSE @]

\* dirent_next; a name that cannot be converted is returned as its short name or as "?".
readdir(s) ==
  LET w == stream[s] IN
  /\ w.pc \in {"open", "end"}
  /\ \/ /\ w.cached # None
        /\ stream' = [stream EXCEPT ![s] = TakeCached(w)]
        /\ Returns(s, w.cached)
        /\ UNCHANGED <<search, misread>>
     \/ /\ w.cached = None /\ w.handle # None
        /\ \E x \in content[search[w.handle].dir] \ search[w.handle].seen :
             /\ search' = Advance(search, w.handle, x)
             /\ Returns(s, x)
        /\ UNCHANGED <<stream, misread>>
     \/ /\ w.cached = None /\ w.handle # None
        /\ misread' = [misread EXCEPT ![s] = ~(steady[s] \subseteq search[w.handle].seen)]
        /\ search' = FindClose(search, w.handle)
        /\ stream' = [stream EXCEPT ![s] = LastEntry(w)]
        /\ UNCHANGED returned
     \/ /\ w.cached = None /\ w.handle = None
        /\ stream' = [stream EXCEPT ![s].pc = "end"]
        /\ UNCHANGED <<search, returned, misread>>
  /\ UNCHANGED <<others, blocks, arg, steady, origin, rewinds>>

rewinddir(s) ==
  /\ stream[s].pc \in {"open", "end"} /\ rewinds < MaxRewinds /\ rewinds' = rewinds + 1
  /\ Restart(s, FindClose(search, stream[s].handle), "open", "open")

closedir(s) ==
  /\ stream[s].pc \in {"open", "end"} /\ _wclosedir(s)
  /\ blocks' = [blocks EXCEPT ![s] = (@ \ Frees) \ {"DIR"}]
  /\ Forget(s)

Opening(s) ==
  \/ AllocWDIR(s) \/ AllocPattern(s) \/ GetPath(s)
  \/ dirent_first(s) \/ OpenFails(s) \/ FreeDIR(s)

Next ==
  \/ \E s \in Streams : opendir(s) \/ Opening(s) \/ readdir(s) \/ rewinddir(s) \/ closedir(s)
  \/ \E d \in Dirs : chdir(d) \/ \E x \in Names : Create(d, x) \/ Delete(d, x)

Spec == Init /\ [][Next]_vars

-----------------------------------------------------------------------------
(***************************************************************************)
(* A stream that has a handle has an open search of the directory it was   *)
(* opened on (also after rewinddir, and when the working directory has     *)
(* changed) that is no other stream's, and every open search is some       *)
(* stream's: no handle is lost, and none is closed or read after Windows   *)
(* may have handed it out again.  Every failure of opendir, at any of its  *)
(* steps, and closedir free all that was allocated, and the name, a        *)
(* separator, the star and the terminator fit the pattern's allocation,    *)
(* although the name is looked up twice and may grow in between.           *)
(***************************************************************************)
HandlesOwned ==
  /\ TypeOK
  /\ \A s \in Streams :
       /\ stream[s].handle # None =>
            /\ search[stream[s].handle].dir = origin[s]
            /\ \A t \in Streams : stream[t].handle = stream[s].handle => t = s
       /\ stream[s].pc = "closed" => blocks[s] = {}
       /\ stream[s].pc \in {"open", "end"} => blocks[s] = {"DIR", "WDIR", "patt"}
       /\ stream[s].pc = "first" => PathLen[stream[s].patt] + 3 <= stream[s].n + Slack
  /\ \A h \in Handles : search[h].dir # None => \E s \in Streams : stream[s].handle = h

(***************************************************************************)
(* No entry is returned twice between opening or rewinding and the end,    *)
(* and when readdir returns NULL without a failure of the search, every    *)
(* entry that was there all the time has been returned.                    *)
(***************************************************************************)
EveryEntryOnce ==
  \A s \in Streams :
    /\ \A x \in Names : returned[s][x] < 2
    /\ stream[s].pc = "end" /\ ~misread[s] => \A x \in steady[s] : returned[s][x] = 1

=============================================================================
