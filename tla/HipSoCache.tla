----------------------------- MODULE HipSoCache -----------------------------
(***************************************************************************)
(* hip-so-cache.sh: a boot compiles a HIP source once and later boots copy *)
(* the shared object from the cache.  It is published by renaming a        *)
(* temporary file of a fixed name.                                         *)
(*                                                                         *)
(* Paths name inodes, since a rename moves the file a writer has open.  A  *)
(* file's content is the set of its parts that are written; cp writes them *)
(* in order, from an empty file.                                           *)
(***************************************************************************)
EXTENDS Integers, FiniteSets

CONSTANTS
    Boots,       \* boots of a container that run the script
    Keys,        \* what the .so is built from: source, flags, arch, image
    KeyOf,       \* the key of each boot
    Parts,       \* parts of the file, 1..Parts
    Inodes,      \* bound: files the cache may hold
    Crashes      \* bound: boots killed

NoFile == "none"

ASSUME SoAssumption ==
    /\ KeyOf \in [Boots -> Keys]
    /\ NoFile \notin Inodes
    /\ Parts \in Nat \ {0} /\ Crashes \in Nat

Whole == 1..Parts

VARIABLES
    so,        \* the inode $dir/$so names, per key
    tmp,       \* the inode $dir/.$so.tmp names, per key
    content,   \* the parts written, per inode
    pc,        \* where each boot is
    file,      \* the inode its cp has open
    next,      \* the part its cp copies next
    out,       \* the parts of $out, in the container
    crashes    \* boots killed so far

boot == <<pc, file, next, out>>
vars == <<so, tmp, content, boot, crashes>>

Paths == [Keys -> Inodes \cup {NoFile}]

TypeOK ==
    /\ so \in Paths /\ tmp \in Paths
    /\ content \in [Inodes -> SUBSET Whole]
    /\ pc \in [Boots -> {"start", "reuse", "build", "copy", "publish", "done", "failed"}]
    /\ file \in [Boots -> Inodes \cup {NoFile}]
    /\ \A b \in Boots : file[b] = NoFile <=> pc[b] \notin {"reuse", "copy"}
    /\ next \in [Boots -> 1..Parts + 1]
    /\ out \in [Boots -> SUBSET Whole]
    /\ crashes \in 0..Crashes

Init ==
    /\ so = [k \in Keys |-> NoFile]
    /\ tmp = [k \in Keys |-> NoFile]
    /\ content = [i \in Inodes |-> {}]
    /\ pc = [b \in Boots |-> "start"]
    /\ file = [b \in Boots |-> NoFile]
    /\ next = [b \in Boots |-> 1]
    /\ out = [b \in Boots |-> {}]
    /\ crashes = 0

-----------------------------------------------------------------------------
Goto(b, l) == pc' = [pc EXCEPT ![b] = l]

\* Inodes no path names and no boot has open.
Free == {i \in Inodes : (\A k \in Keys : so[k] # i /\ tmp[k] # i) /\ \A b \in Boots : file[b] # i}

Open(b, i) ==
    /\ file' = [file EXCEPT ![b] = i]
    /\ next' = [next EXCEPT ![b] = 1]

\* Mutant: the file stays open.
BugClose(b) == UNCHANGED <<file, next>>

Close(b) == file' = [file EXCEPT ![b] = NoFile] /\ UNCHANGED next

\* [ -f "$dir/$so" ]: cp opens the cached object, or hipcc runs.
Begin(b) ==
    /\ pc[b] = "start"
    /\ IF so[KeyOf[b]] # NoFile
         THEN Goto(b, "reuse") /\ Open(b, so[KeyOf[b]])
         ELSE Goto(b, "build") /\ UNCHANGED <<file, next>>
    /\ UNCHANGED <<so, tmp, content, out, crashes>>

\* cp reads a part of the cached object.
Reuse(b) ==
    /\ pc[b] = "reuse" /\ next[b] <= Parts
    /\ out' = [out EXCEPT ![b] = IF next[b] \in content[file[b]] THEN @ \cup {next[b]} ELSE @]
    /\ next' = [next EXCEPT ![b] = @ + 1]
    /\ UNCHANGED <<so, tmp, content, pc, file, crashes>>

EndReuse(b) ==
    /\ pc[b] = "reuse" /\ next[b] > Parts
    /\ Goto(b, "done")
    /\ Close(b)
    /\ UNCHANGED <<so, tmp, content, out, crashes>>

\* Mutant: it copies straight to the published name.
BugOpened(b, i) ==
    /\ so' = [so EXCEPT ![KeyOf[b]] = i]
    /\ tmp' = [tmp EXCEPT ![KeyOf[b]] = i]

\* cp opens .$so.tmp: the file of that name if there is one, or a new one.
Opened(b, i) ==
    /\ tmp' = [tmp EXCEPT ![KeyOf[b]] = i]
    /\ UNCHANGED so

\* Mutant: the file a killed boot has left is not opened again.
BugTmpFiles(b) == IF tmp[KeyOf[b]] = NoFile THEN Free ELSE {}

TmpFiles(b) == IF tmp[KeyOf[b]] = NoFile THEN Free ELSE {tmp[KeyOf[b]]}

\* hipcc has written $out; cp opens the temporary file and truncates it.
Build(b) ==
    /\ pc[b] = "build"
    /\ out' = [out EXCEPT ![b] = Whole]
    /\ Goto(b, "copy")
    /\ \E i \in TmpFiles(b) :
         /\ Opened(b, i)
         /\ content' = [content EXCEPT ![i] = {}]
         /\ Open(b, i)
    /\ UNCHANGED crashes

\* cp writes a part.
Copy(b) ==
    /\ pc[b] = "copy" /\ next[b] <= Parts
    /\ content' = [content EXCEPT ![file[b]] = @ \cup {next[b]}]
    /\ next' = [next EXCEPT ![b] = @ + 1]
    /\ UNCHANGED <<so, tmp, pc, file, out, crashes>>

EndCopy(b) ==
    /\ pc[b] = "copy" /\ next[b] > Parts
    /\ Goto(b, "publish")
    /\ Close(b)
    /\ UNCHANGED <<so, tmp, content, out, crashes>>

\* mv renames the temporary file; without one it fails, and set -e the script.
Publish(b) ==
    /\ pc[b] = "publish"
    /\ IF tmp[KeyOf[b]] # NoFile
         THEN /\ so' = [so EXCEPT ![KeyOf[b]] = tmp[KeyOf[b]]]
              /\ tmp' = [tmp EXCEPT ![KeyOf[b]] = NoFile]
              /\ Goto(b, "done")
         ELSE Goto(b, "failed") /\ UNCHANGED <<so, tmp>>
    /\ UNCHANGED <<content, file, next, out, crashes>>

\* The container is killed, booting or serving, and its file system goes with
\* it; it boots again.
Crash(b) ==
    /\ crashes < Crashes
    /\ crashes' = crashes + 1
    /\ Goto(b, "start")
    /\ Close(b)
    /\ out' = [out EXCEPT ![b] = {}]
    /\ UNCHANGED <<so, tmp, content>>

Script(b) ==
    \/ Begin(b) \/ Reuse(b) \/ EndReuse(b)
    \/ Build(b) \/ Copy(b) \/ EndCopy(b) \/ Publish(b)

Next == \E b \in Boots : Script(b) \/ Crash(b)

Spec == Init /\ [][Next]_vars

\* A booting container runs.
FairSpec == Spec /\ \A b \in Boots : WF_vars(Script(b))

-----------------------------------------------------------------------------
(* Properties.                                                              *)

\* What is published under a key is whole, wherever a boot is killed: a later
\* boot that finds it needs no check.
PublishedWhole == \A k \in Keys : so[k] # NoFile => content[so[k]] = Whole

\* No boot, killed mid-build or mid-copy, leaves a truncated object under a key
\* with nobody to finish it (hip-so-cache.sh's header).
NoneLeftTruncated ==
    \A k \in Keys : so[k] # NoFile /\ content[so[k]] # Whole =>
        \E b \in Boots : pc[b] = "copy" /\ file[b] = so[k]

\* A boot that ends has the whole object in its container, from the cache or
\* from its own build.
BootHasAll == \A b \in Boots : pc[b] = "done" => out[b] = Whole

\* Every boot ends well in spite of the kills.
BootsEnd == <>(\A b \in Boots : pc[b] = "done")
=============================================================================
