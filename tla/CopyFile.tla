------------------------------- MODULE CopyFile ----------------------------
(***************************************************************************)
(* seminar_3/cp.c and seminar_7/cp_mmap.c over a small file system: paths  *)
(* are links to inodes, and an inode is a directory or the bytes of a      *)
(* file.  Both programs have emptied or removed the destination before     *)
(* they know that the copy will succeed; every step may fail.              *)
(***************************************************************************)
EXTENDS Integers, Sequences, SequencesExt, FiniteSets

CONSTANTS
  CpChunk,    \* sizeof buf in copy1
  Name,       \* base names
  Trees,      \* the file systems to begin with: records of link and data
  Orders      \* the command lines: records of tool, flags and paths

\* A path is its directory ("" for the current one) and its base name.
Path == {"", "d"} \X Name

\* What a path may lead to: a directory, which holds no bytes, or a file.  NoInode
\* is a path that leads nowhere.
Directory == <<-1>>
NoInode   == 0

\* In a file system to begin with only "d" in the current directory is a directory, and
\* there is an inode for every path.  cp_mmap takes two paths, cp two or more.
ASSUME CopyFileAssumption ==
  /\ CpChunk \in Nat \ {0} /\ IsFiniteSet(Name)
  /\ \A tree \in Trees :
       /\ tree.data \in Seq(Seq(Nat) \cup {Directory})
       /\ tree.link \in [Path -> 0 .. Len(tree.data)]
       /\ Cardinality(Path) <= Len(tree.data)
       /\ \A p \in Path : tree.link[p] # NoInode /\ tree.data[tree.link[p]] = Directory
                         => p = <<"", "d">>
  /\ \A line \in Orders :
       /\ line.paths \in Seq(Path) /\ Len(line.paths) >= 2
       /\ line.tool \in {"cp", "cp_mmap"} /\ (line.tool = "cp_mmap" => Len(line.paths) = 2)

VARIABLES
  link, data,              \* the file system
  before,                  \* what it was at the start
  order,                   \* the command line
  copyAt, sources,         \* where the program is; the sources not yet begun
  inode_in, inode_out,     \* the files behind the descriptors
  offset, copyBuf,         \* bytes read so far; bytes of the last read still to be written
  rc, status, refused      \* of copy1; of main; destinations the user wants kept

fs      == <<link, data>>
called  == <<before, order>>
copying == <<inode_in, inode_out, offset, copyBuf>>
cpVars  == <<fs, called, copyAt, sources, copying, rc, status, refused>>

Nowhere == [p \in Path |-> NoInode]

CpInit ==
  /\ link = Nowhere /\ data = <<>> /\ before = [link |-> Nowhere, data |-> <<>>]
  /\ order = [tool |-> "none"]
  /\ copyAt = "off" /\ sources = <<>>
  /\ inode_in = NoInode /\ inode_out = NoInode /\ offset = 0 /\ copyBuf = <<>>
  /\ rc = 0 /\ status = 0 /\ refused = {}

\* One of the programs is called in some file system.
CpCalled(tree, line) ==
  /\ copyAt = "off"
  /\ link' = tree.link /\ data' = tree.data /\ before' = tree
  /\ order' = line
  /\ copyAt' = "start"
  /\ UNCHANGED <<sources, copying, rc, status, refused>>

IsDir(p) == link[p] # NoInode /\ data[link[p]] = Directory

\* The last of -i and -f counts.
Flag        == IF order.flags = <<>> THEN "none" ELSE Last(order.flags)
Destination == Last(order.paths)

\* Into a directory a file goes under its base name.
Target(p) == IF IsDir(Destination) THEN <<Destination[2], p[2]>> ELSE Destination

-----------------------------------------------------------------------------
(* cp: main *)

CpStart ==
  /\ copyAt = "start" /\ order.tool = "cp"
  /\ IF Len(order.paths) > 2 /\ ~IsDir(Destination)
     THEN copyAt' = "done" /\ status' = 1 /\ UNCHANGED sources
     ELSE copyAt' = "check" /\ sources' = Front(order.paths) /\ UNCHANGED status
  /\ UNCHANGED <<fs, called, copying, rc, refused>>

\* copy1 returns: main notes a failure and goes on.
Return(result) ==
  /\ status' = IF result = 0 THEN status ELSE 1
  /\ sources' = Tail(sources)
  /\ copyAt' = IF sources' = <<>> THEN "done" ELSE "check"
  /\ UNCHANGED <<called, copying>>

(* cp: copy1 *)

Src == Head(sources)
Dst == Target(Src)

\* Mutant: two names of one file are taken for two files.
CannotCopyByName ==
  \/ link[Src] = NoInode \/ IsDir(Src)
  \/ IsDir(Dst)
  \/ Src = Dst
CannotCopy ==
  \/ link[Src] = NoInode \/ IsDir(Src)
  \/ IsDir(Dst)
  \/ link[Src] = link[Dst]

CpRefuses ==
  /\ copyAt = "check" /\ CannotCopy
  /\ Return(-1)
  /\ UNCHANGED <<fs, rc, refused>>

CpGoes(label, next) ==
  /\ copyAt = label /\ copyAt' = next
  /\ UNCHANGED <<fs, called, sources, copying, rc, status, refused>>

CpChecked ==
  /\ copyAt = "check" /\ ~CannotCopy
  /\ CpGoes("check", IF link[Dst] # NoInode /\ Flag = "i" THEN "ask"
                     ELSE IF link[Dst] # NoInode /\ Flag = "f" THEN "unlink"
                     ELSE "open")

\* ask_overwrite, with a yes and with a no.
CpOverwrite == CpGoes("ask", "open")

CpKeep ==
  /\ copyAt = "ask"
  /\ refused' = refused \cup {Dst}
  /\ Return(0)
  /\ UNCHANGED <<fs, rc>>

\* Whether it succeeds is not looked at.
CpUnlink ==
  /\ copyAt = "unlink"
  /\ link' \in {link, [link EXCEPT ![Dst] = NoInode]}
  /\ copyAt' = "open"
  /\ UNCHANGED <<data, called, sources, copying, rc, status, refused>>

\* One of the two opens fails.  Mutant: nobody is told.
CpOpenFailsSilently ==
  /\ copyAt = "open"
  /\ Return(0)
  /\ UNCHANGED <<fs, rc, refused>>
CpOpenFails ==
  /\ copyAt = "open"
  /\ Return(-1)
  /\ UNCHANGED <<fs, rc, refused>>

\* A new file has an inode that no path leads to; any will do.
Unused == CHOOSE i \in DOMAIN data : \A p \in Path : link[p] # i

\* open with O_CREAT | O_TRUNC.
Truncate(p) ==
  /\ inode_out' = IF link[p] = NoInode THEN Unused ELSE link[p]
  /\ link' = [link EXCEPT ![p] = inode_out']
  /\ data' = [data EXCEPT ![inode_out'] = <<>>]

CpOpen ==
  /\ copyAt = "open"
  /\ inode_in' = link[Src] /\ Truncate(Dst)
  /\ offset' = 0 /\ rc' = 0
  /\ copyAt' = "read"
  /\ UNCHANGED <<called, sources, copyBuf, status, refused>>

CpRead ==
  /\ copyAt = "read"
  /\ \E n \in 1 .. CpChunk :
       /\ offset + n <= Len(data[inode_in])
       /\ copyBuf' = SubSeq(data[inode_in], offset + 1, offset + n)
       /\ offset' = offset + n
  /\ copyAt' = "write"
  /\ UNCHANGED <<fs, called, sources, inode_in, inode_out, rc, status, refused>>

CpEndOfFile ==
  /\ copyAt = "read" /\ offset = Len(data[inode_in])
  /\ CpGoes("read", "close")

CpWrite ==
  /\ copyAt = "write"
  /\ \E m \in 1 .. Len(copyBuf) :
       /\ data' = [data EXCEPT ![inode_out] = @ \o SubSeq(copyBuf, 1, m)]
       /\ copyBuf' = SubSeq(copyBuf, m + 1, Len(copyBuf))
  /\ copyAt' = IF copyBuf' = <<>> THEN "read" ELSE "write"
  /\ UNCHANGED <<link, called, sources, inode_in, inode_out, offset, rc, status, refused>>

\* A read or a write fails: what is written so far stays.
CpFails ==
  /\ copyAt \in {"read", "write"}
  /\ rc' = -1
  /\ copyAt' = "close"
  /\ UNCHANGED <<fs, called, sources, copying, status, refused>>

\* Each close may fail too.
CpClose ==
  /\ copyAt = "close"
  /\ rc' \in {rc, -1}
  /\ Return(rc')
  /\ UNCHANGED <<fs, refused>>

CpStep ==
  \/ CpStart \/ CpRefuses \/ CpChecked \/ CpOverwrite \/ CpKeep \/ CpUnlink
  \/ CpOpenFails \/ CpOpen \/ CpRead \/ CpEndOfFile \/ CpWrite \/ CpFails \/ CpClose

-----------------------------------------------------------------------------
(* cp_mmap: main, for two paths *)

From == order.paths[1]
To   == order.paths[2]

MmapStep(label, next) ==
  /\ copyAt = label /\ order.tool = "cp_mmap"
  /\ copyAt' = next
  /\ UNCHANGED <<called, sources, offset, copyBuf, rc, refused>>

MmapOpenFrom ==
  /\ MmapStep("start", "openTo")
  /\ link[From] # NoInode
  /\ inode_in' = link[From]
  /\ UNCHANGED <<fs, inode_out, status>>

MmapOpenTo ==
  /\ MmapStep("openTo", "resize")
  /\ ~IsDir(To)
  /\ Truncate(To)
  /\ UNCHANGED <<inode_in, status>>

\* The size is that of the source after the destination was emptied.  A directory
\* has a size too, which is not one of bytes.
Size(inode) == Len(data[inode])
MmapResize ==
  /\ MmapStep("resize", "map")
  /\ data' = [data EXCEPT ![inode_out] = [k \in 1 .. Size(inode_in) |-> 0]]
  /\ UNCHANGED <<link, inode_in, inode_out, status>>

\* Nothing can be mapped of an empty file, nor of a directory.
MmapCopy ==
  /\ MmapStep("map", "unmap")
  /\ data[inode_in] \notin {<<>>, Directory}
  /\ data' = [data EXCEPT ![inode_out] = data[inode_in]]
  /\ UNCHANGED <<link, inode_in, inode_out, status>>

MmapDone ==
  /\ MmapStep("unmap", "done")
  /\ UNCHANGED <<fs, inode_in, inode_out, status>>

\* die: in any of the steps, and always where the step cannot be taken.
MmapDies ==
  /\ \E label \in {"start", "openTo", "resize", "map", "unmap"} : MmapStep(label, "done")
  /\ status' = 1
  /\ UNCHANGED <<fs, inode_in, inode_out>>

MmapNext ==
  MmapOpenFrom \/ MmapOpenTo \/ MmapResize \/ MmapCopy \/ MmapDone \/ MmapDies

CpNext ==
  \/ \E tree \in Trees, line \in Orders : CpCalled(tree, line)
  \/ CpStep \/ MmapNext

CpSpec == CpInit /\ [][CpNext]_cpVars

CpIdle == copyAt \in {"off", "done"}

-----------------------------------------------------------------------------
(* Properties *)

Content(l, d, p) == IF l[p] = NoInode THEN "none" ELSE d[l[p]]
Now(p)    == Content(link, data, p)
Before(p) == Content(before.link, before.data, p)

Sources == ToSet(Front(order.paths))
Targets == {Target(s) : s \in Sources}

\* Two names of one file at the start: what is written to one is written to the other,
\* as long as -f has not removed it.
SameFile(p, q) == p = q \/ (before.link[p] # NoInode /\ before.link[p] = before.link[q])

\* A source that is a destination of the same command under another name.
Overwritten(s) == \E t \in Targets : SameFile(t, s)

\* Exit status 0 is the truth: whatever could fail half-way, each file is then as it
\* was, or it is a destination, perhaps under another name, that holds all of a source;
\* and a destination that the user did not want to keep is there and holds what was to
\* go there, unless that source was overwritten too.
CopiedOrSaid ==
  copyAt = "done" /\ status = 0 =>
    /\ \A p \in Path :
         \/ Now(p) = Before(p)
         \/ /\ \E t \in Targets : SameFile(t, p)
            /\ \E s \in Sources : Now(p) = Before(s)
    /\ \A t \in Targets \ refused :
         /\ link[t] # NoInode
         /\ \E s \in Sources : SameFile(Target(s), t) /\ (Now(t) = Now(s) \/ Overwritten(s))

\* cp leaves a single source as it was, also when source and destination are two
\* names of one file, and also when the copy fails.
SourceIsSafe ==
  order.tool = "cp" /\ Len(order.paths) = 2 =>
    Now(order.paths[1]) = Before(order.paths[1])
=============================================================================
