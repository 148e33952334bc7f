------------------------------ MODULE OsNodeFs ------------------------------
(***************************************************************************)
(* The files of the operating-system host (kernel/os-node-fs.ts), in two   *)
(* machines that share no state.                                           *)
(*                                                                         *)
(* Paths: the operations by path over a tree of files, directories and     *)
(* links.  A path is checked against the kernel's grants as it is written, *)
(* resolved link by link, and checked again as what it resolves to;        *)
(* operations over several entries check each of them.  The grants and the *)
(* pattern matching are the kernel's; the tree is the operating system's.  *)
(* An operation is one step: what happens to the tree between its check    *)
(* and its call is not modelled.                                           *)
(*                                                                         *)
(* Descriptors: the host keeps the position of every descriptor itself,    *)
(* since each of its calls is made at an explicit offset, and moves it     *)
(* while a transfer runs chunk by chunk.  A read may be put off and run    *)
(* beside the asks that follow it.  The file is the operating system's: a  *)
(* write past its end fills the gap, an appending write goes to its end.   *)
(***************************************************************************)
EXTENDS Integers, Sequences, FiniteSets, SequencesExt

CONSTANTS
  Name,      \* the names an entry can have
  Depth,     \* how deep the tree goes
  MaxLinks,  \* how many links one path may follow
  Grants,    \* mode |-> the paths granted for it
  Given,     \* the paths that are there at first |-> "dir" or "file"
  MaxOps,    \* operations on the tree in all
  Fd, Ask,
  Writes,    \* the asks that write; the others read
  MaxSize,   \* how long the file grows
  MaxMoves,  \* seeks and truncations in all
  Shared     \* whether two transfers may run on one descriptor at once

VARIABLES
  tree,   \* path |-> what is there
  moved,  \* the paths the last operation moved a directory from or to
  temp,   \* the paths the last operation made as temporary files
  ops     \* operations done
treeVars == <<tree, moved, temp, ops>>

VARIABLES
  size,    \* the length of the file
  fds,     \* descriptor |-> its position and whether it appends; -1: not open
  asks,    \* ask |-> where it stands, its descriptor, what is left, what it has touched
  moves    \* seeks and truncations done
fileVars == <<size, fds, asks, moves>>

Path == SeqOf(Name, Depth) \ {<<>>}
NoEntry == [kind |-> "none", to |-> <<>>]
FileEntry == [kind |-> "file", to |-> <<>>]
DirEntry == [kind |-> "dir", to |-> <<>>]
LinkTo(p) == [kind |-> "link", to |-> p]
Entries == {NoEntry, FileEntry, DirEntry} \cup {LinkTo(p) : p \in Path}

TypeOK ==
  /\ tree \in [Path -> Entries] /\ ops \in 0..MaxOps
  /\ size \in 0..MaxSize /\ moves \in 0..MaxMoves
  /\ fds \in [Fd -> [position : -1..MaxSize, append : BOOLEAN]]
  /\ asks \in [Ask -> [at : {"idle", "running", "done", "failed"}, fd : Fd, left : 0..MaxSize,
                       did : Seq(0..MaxSize), start : 0..MaxSize]]

-----------------------------------------------------------------------------
(* The tree *)

TreeInit ==
  /\ tree = [p \in Path |-> IF p \in DOMAIN Given THEN [kind |-> Given[p], to |-> <<>>] ELSE NoEntry]
  /\ moved = {} /\ temp = {} /\ ops = 0

KindAt(p) == IF p = <<>> THEN "dir" ELSE IF p \in Path THEN tree[p].kind ELSE "none"
Exists(p) == KindAt(p) # "none"
Under(dir, p) == Len(p) > Len(dir) /\ SubSeq(p, 1, Len(dir)) = dir
Children(dir) == {p \in Path : Len(p) = Len(dir) + 1 /\ Under(dir, p) /\ Exists(p)}

(* resolveReal: one component after another, links replaced by their      *)
(* targets, the last one only when asked.  What is left over when the      *)
(* steps run out is a loop of links.                                       *)
NextComponent(now, followLast) ==
  LET next == Append(now.at, Head(now.rest))
      follow == KindAt(next) = "link" /\ (followLast \/ Len(now.rest) > 1)
  IN IF now.rest = <<>> THEN now
     ELSE IF follow THEN [at |-> <<>>, rest |-> tree[next].to \o Tail(now.rest)]
     ELSE [at |-> next, rest |-> Tail(now.rest)]

Steps == (MaxLinks + 1) * Depth

Resolved(path, followLast) ==
  LET walk[n \in 0..Steps] ==
        IF n = 0 THEN [at |-> <<>>, rest |-> path] ELSE NextComponent(walk[n - 1], followLast)
  IN walk[Steps]

Real(path, followLast) == Resolved(path, followLast).at

Allowed(p, mode) == p \in Grants[mode]

\* A mutant: only the path as it is written is checked.
LocatedAsWritten(path, mode, followLast) ==
  /\ Allowed(path, mode)
  /\ Resolved(path, followLast).rest = <<>> /\ Real(path, followLast) \in Path

\* The path is granted as written and as resolved.
Located(path, mode, followLast) ==
  /\ Allowed(path, mode)
  /\ Resolved(path, followLast).rest = <<>> /\ Real(path, followLast) \in Path
  /\ Allowed(Real(path, followLast), mode)

Makes(new, temporary) == tree' = new /\ temp' = temporary /\ ops' = ops + 1 /\ ops < MaxOps
Change(new) == Makes(new, {})

\* os/write-file, os/open for writing and os/copy onto a path.
WriteFile(path) ==
  LET real == Real(path, TRUE) IN
  /\ Located(path, "write", TRUE)
  /\ ~Exists(real) => Allowed(path, "create") /\ Allowed(real, "create")
  /\ KindAt(real) # "dir" /\ KindAt(Front(real)) = "dir"
  /\ Change([tree EXCEPT ![real] = FileEntry])
  /\ moved' = {}

Symlink(target, path) ==
  LET real == Real(path, FALSE) IN
  /\ Located(path, "create", FALSE)
  /\ ~Exists(real) /\ KindAt(Front(real)) = "dir"
  /\ Change([tree EXCEPT ![real] = LinkTo(target)])
  /\ moved' = {}

\* os/link: a second name for a file.
Link(target, path) ==
  LET real == Real(path, FALSE) IN
  /\ Located(target, "write", TRUE) /\ KindAt(Real(target, TRUE)) = "file"
  /\ Located(path, "create", FALSE)
  /\ ~Exists(real) /\ KindAt(Front(real)) = "dir"
  /\ Change([tree EXCEPT ![real] = FileEntry])
  /\ moved' = {}

\* os/mktemp: a name nothing has yet; the grants are asked for the base alone.
Mktemp(base, name) ==
  LET made == Append(Real(base, TRUE), name) IN
  /\ Located(base, "create", TRUE)
  /\ made \in Path /\ ~Exists(made) /\ KindAt(Front(made)) = "dir"
  /\ Makes([tree EXCEPT ![made] = FileEntry], {made})
  /\ moved' = {}

\* A mutant: the parents that mkdir makes on the way are not checked.
MayMakeLast(real) == Allowed(real, "create")

\* Every directory a recursive mkdir would make is granted.
MayMake(real) == \A n \in 1..Len(real) :
  LET p == SubSeq(real, 1, n) IN Exists(p) \/ Allowed(p, "create")

Mkdir(path, recursive) ==
  LET real == Real(path, FALSE)
      parents == {SubSeq(real, 1, n) : n \in 1..(Len(real) - 1)}
  IN /\ Located(path, "create", FALSE)
     /\ ~Exists(real)
     /\ IF recursive
        THEN MayMake(real) /\ (\A p \in parents : KindAt(p) \in {"none", "dir"})
        ELSE KindAt(Front(real)) = "dir"
     /\ Change([p \in Path |-> IF p = real \/ (recursive /\ p \in parents /\ ~Exists(p)) THEN DirEntry ELSE tree[p]])
     /\ moved' = {}

\* A mutant: a directory goes with whatever is in it.
RemovableUnchecked(dir) == TRUE

\* requireTreeRemovable: every entry below is granted, before the first one goes.
TreeRemovable(dir) == \A p \in Path : Under(dir, p) /\ Exists(p) => Allowed(p, "remove")

Rmdir(path, recursive) ==
  LET real == Real(path, FALSE) IN
  /\ Located(path, "remove", FALSE)
  /\ KindAt(real) = "dir"
  /\ IF recursive THEN TreeRemovable(real) ELSE Children(real) = {}
  /\ Change([p \in Path |-> IF p = real \/ (recursive /\ Under(real, p)) THEN NoEntry ELSE tree[p]])
  /\ moved' = {}

Unlink(path) ==
  LET real == Real(path, FALSE) IN
  /\ Located(path, "remove", FALSE)
  /\ KindAt(real) \in {"file", "link"}
  /\ Change([tree EXCEPT ![real] = NoEntry])
  /\ moved' = {}

\* What stood below the old path stands below the new one, without checks of its own.
Rename(path, to) ==
  LET old == Real(path, FALSE)
      new == Real(to, FALSE)
      below(p) == old \o SubSeq(p, Len(new) + 1, Len(p))
  IN /\ Located(path, "remove", FALSE) /\ Located(to, "create", FALSE)
     /\ Exists(new) => Allowed(to, "remove") /\ Allowed(new, "remove")
     /\ Exists(old) /\ old # new /\ ~Under(old, new) /\ ~Under(new, old)
     /\ KindAt(Front(new)) = "dir"
     /\ IF KindAt(old) = "dir" THEN KindAt(new) \in {"none", "dir"} /\ Children(new) = {}
                               ELSE KindAt(new) # "dir"
     /\ \A p \in Path : Under(old, p) /\ Exists(p) => Len(p) - Len(old) + Len(new) <= Depth
     /\ Change([p \in Path |->
          IF p = new \/ Under(new, p)
          THEN IF below(p) \in Path THEN tree[below(p)] ELSE NoEntry
          ELSE IF p = old \/ Under(old, p) THEN NoEntry ELSE tree[p]])
     /\ moved' = {p \in Path : Under(old, p) \/ Under(new, p)}

TreeNext ==
  \E p \in Path :
    \/ WriteFile(p) \/ Unlink(p)
    \/ \E r \in BOOLEAN : Mkdir(p, r) \/ Rmdir(p, r)
    \/ \E q \in Path : Symlink(q, p) \/ Link(q, p) \/ Rename(p, q)
    \/ \E n \in Name : Mktemp(p, n)

(* os/glob *)

\* The kernel's matching: "*" stands for one name, "**" for any number of them.
Matches(pattern, path) ==
  LET fits[i \in 1..(Len(pattern) + 1), j \in 1..(Len(path) + 1)] ==
        IF i > Len(pattern) THEN j > Len(path)
        ELSE IF pattern[i] = "**" THEN fits[i + 1, j] \/ (j <= Len(path) /\ fits[i, j + 1])
        ELSE j <= Len(path) /\ pattern[i] \in {"*", path[j]} /\ fits[i + 1, j + 1]
  IN fits[1, 1]

IsWild(part) == part \in {"*", "**"}

\* The part of the pattern before its first wildcard.
Fixed(pattern) ==
  LET wild == {i \in DOMAIN pattern : IsWild(pattern[i])}
  IN SubSeq(pattern, 1, (CHOOSE n \in 0..Len(pattern) :
       (\A i \in wild : n < i) /\ (n = Len(pattern) \/ n + 1 \in wild)))

\* lstat: what is at a path as it is written; links on the way are followed.
At(path) == IF Resolved(path, FALSE).rest = <<>> THEN KindAt(Real(path, FALSE)) ELSE "none"

\* The entries of a directory, under the path it is written with.
Listing(dir) == {Append(dir, Last(c)) : c \in Children(Real(dir, TRUE))}

\* consider: it matches, it is readable as written and as resolved, and it is there.
Considered(path, pattern) ==
  Matches(pattern, path) /\ Located(path, "read", TRUE) /\ At(path) # "none"

\* A mutant: the walk ends one level early.
LevelsShort(pattern) ==
  IF \E i \in DOMAIN pattern : pattern[i] = "**" THEN Depth ELSE Len(pattern) - Len(Fixed(pattern)) - 1

\* How many levels below its fixed part a pattern can reach.
Levels(pattern) ==
  IF \E i \in DOMAIN pattern : pattern[i] = "**" THEN Depth ELSE Len(pattern) - Len(Fixed(pattern))

\* The fixed part is considered, then its entries level by level; links are not entered.
Glob(pattern) ==
  LET top == Fixed(pattern)
      level[n \in 0..Levels(pattern)] ==
        IF n = 0 THEN {top}
        ELSE UNION {Listing(d) : d \in {e \in level[n - 1] : n = 1 \/ At(e) = "dir"}}
  IN IF top # <<>> /\ ~Allowed(top, "read") THEN {}
     ELSE {p \in UNION {level[n] : n \in 0..Levels(pattern)} : p # <<>> /\ Considered(p, pattern)}

Patterns == SeqOf(Name \cup {"*", "**"}, Depth) \ {<<>>}

\* Whatever an operation makes, removes or replaces, by however many links its
\* path was resolved and however many entries it touches, was granted under
\* its real path.  A temporary file is new, and granted by the real path of the
\* directory it is made in; what lies in a directory that is renamed moves with it.
EntriesChangeAsGranted ==
  [][\A p \in Path \ moved' :
       tree'[p] # tree[p] =>
         /\ tree[p] # NoEntry => Allowed(p, "remove")
         /\ tree'[p] # NoEntry =>
              \/ Allowed(p, "create")
              \/ p \in temp' /\ tree[p] = NoEntry /\ Allowed(Front(p), "create")]_treeVars

\* A glob answers every path that matches, is there and may be read, reached
\* below the fixed part of the pattern through real directories, and no other.
GlobFindsAll ==
  \A pattern \in Patterns :
    LET top == Fixed(pattern)
        Walked(p) == \A n \in (Len(top) + 1)..(Len(p) - 1) : At(SubSeq(p, 1, n)) = "dir"
    IN (top = <<>> \/ Allowed(top, "read")) =>
         {p \in Path : Considered(p, pattern) /\ Walked(p)} = Glob(pattern)
-----------------------------------------------------------------------------
(* The descriptors *)

Unasked == [at |-> "idle", fd |-> CHOOSE f \in Fd : TRUE, left |-> 0, did |-> <<>>, start |-> 0]

FileInit ==
  /\ size \in 0..1
  /\ fds = [f \in Fd |-> [position |-> -1, append |-> FALSE]]
  /\ asks = [a \in Ask |-> Unasked]
  /\ moves = 0

Running(f) == {a \in Ask : asks[a].at = "running" /\ asks[a].fd = f}
Free(f) == Shared \/ Running(f) = {}

\* The flags decide whether the file is emptied and whether writes append.
Open(f, truncate, append) ==
  /\ fds[f].position = -1 /\ ~(truncate /\ append)
  /\ \A a \in Ask : asks[a].at # "idle" => asks[a].fd # f
  /\ truncate => \A g \in Fd : Running(g) = {}
  /\ fds' = [fds EXCEPT ![f] = [position |-> 0, append |-> append]]
  /\ size' = IF truncate THEN 0 ELSE size
  /\ UNCHANGED <<asks, moves>>

Start(a, f, count) ==
  /\ asks[a].at = "idle" /\ fds[f].position >= 0 /\ Free(f)
  /\ asks' = [asks EXCEPT ![a] = [at |-> "running", fd |-> f, left |-> count, did |-> <<>>,
                                  start |-> fds[f].position]]
  /\ UNCHANGED <<size, fds, moves>>

\* A mutant: the position moves only when the transfer is over.
AdvancedAtEnd(f, n) == IF \A a \in Running(f) : asks[a].left = 1 THEN [fds EXCEPT ![f].position = @ + n] ELSE fds

\* A mutant: a chunk moves the position when it is asked and when it is done.
AdvancedTwice(f, n) == [fds EXCEPT ![f].position = @ + 2 * n]

Advanced(f, n) == [fds EXCEPT ![f].position = @ + n]

\* One chunk of a read, at the position of the descriptor.
ReadChunk(a) ==
  LET f == asks[a].fd
      at == fds[f].position
  IN /\ a \notin Writes /\ asks[a].at = "running" /\ asks[a].left > 0
     /\ at >= 0 /\ at < size
     /\ asks' = [asks EXCEPT ![a].left = @ - 1, ![a].did = Append(@, at)]
     /\ fds' = Advanced(f, 1)
     /\ UNCHANGED <<size, moves>>

\* One partial write: at the position, or at the end of the file.
WriteChunk(a) ==
  LET f == asks[a].fd
      at == IF fds[f].append THEN size ELSE fds[f].position
  IN /\ a \in Writes /\ asks[a].at = "running" /\ asks[a].left > 0
     /\ fds[f].position >= 0 /\ at < MaxSize
     /\ size' = IF at < size THEN size ELSE at + 1
     /\ asks' = [asks EXCEPT ![a].left = @ - 1, ![a].did = Append(@, at)]
     /\ fds' = IF fds[f].append THEN fds ELSE Advanced(f, 1)
     /\ UNCHANGED moves

\* A read ends when it has its count or meets the end of the file; an append asks the file for its length.
End(a) ==
  LET f == asks[a].fd IN
  /\ asks[a].at = "running" /\ fds[f].position >= 0
  /\ asks[a].left = 0 \/ (a \notin Writes /\ fds[f].position >= size)
  /\ asks' = [asks EXCEPT ![a].at = "done"]
  /\ fds' = IF a \in Writes /\ fds[f].append THEN [fds EXCEPT ![f].position = size] ELSE fds
  /\ UNCHANGED <<size, moves>>

\* The descriptor was closed while the transfer ran.
Fail(a) ==
  /\ asks[a].at = "running" /\ fds[asks[a].fd].position = -1
  /\ asks' = [asks EXCEPT ![a].at = "failed"]
  /\ UNCHANGED <<size, fds, moves>>

\* os/seek from the start, the position or the end.
Seek(f, to) ==
  /\ fds[f].position >= 0 /\ Free(f)
  /\ moves < MaxMoves /\ moves' = moves + 1
  /\ fds' = [fds EXCEPT ![f].position = to]
  /\ UNCHANGED <<size, asks>>

\* os/truncate, by descriptor or path: no position moves.
Truncate(to) ==
  /\ \A f \in Fd : Running(f) = {}
  /\ moves < MaxMoves /\ moves' = moves + 1
  /\ size' = to
  /\ UNCHANGED <<fds, asks>>

Close(f) ==
  /\ fds[f].position >= 0
  /\ fds' = [fds EXCEPT ![f].position = -1]
  /\ UNCHANGED <<size, asks, moves>>

FileNext ==
  \/ \E f \in Fd :
       \/ Close(f) \/ (\E t, p \in BOOLEAN : Open(f, t, p)) \/ (\E n \in 0..MaxSize : Seek(f, n))
       \/ \E a \in Ask, n \in 1..2 : Start(a, f, n)
  \/ \E a \in Ask : ReadChunk(a) \/ WriteChunk(a) \/ End(a) \/ Fail(a)
  \/ \E n \in 0..MaxSize : Truncate(n)

\* A transfer that does not append covers consecutive places of the file, from
\* where its descriptor stood when it began, whatever the transfers of the
\* other descriptors do to the file meanwhile.
TransfersAreConsecutive ==
  \A a \in Ask :
    LET f == asks[a].fd
        did == asks[a].did
    IN fds[f].position >= 0 /\ ~(a \in Writes /\ fds[f].append) =>
         \A i \in DOMAIN did : did[i] = asks[a].start + i - 1
=============================================================================
