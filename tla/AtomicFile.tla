------------------------------ MODULE AtomicFile ------------------------------
(***************************************************************************)
(* How a file is published: report.Write and State.Save.  Both write to a  *)
(* temporary file beside the published one and rename it.                  *)
(*                                                                         *)
(* A disk maps names to files.  A file has a text, so much of it written   *)
(* and so much of that safe from a power failure.  A rename may not be.    *)
(***************************************************************************)
EXTENDS Integers, Sequences

CONSTANTS
    Paths,      \* what is published
    Parts       \* writes it takes

File(text, written, synced) == [text |-> text, written |-> written, synced |-> synced]

NoFile == File({}, 0, 0)

Whole(file) == file.written = Parts

\* Names are triples; the published file belongs to nobody.
Published(path) == <<path, "published", 0>>

\* Mutated form: one temporary name for all.
TempShared(path, p, n) == <<path, "temp", 0>>

\* CreateTemp gives every writer, every time, a name of its own.
Temp(path, p, n) == <<path, p, n>>

\* Mutated form: published as soon as it is closed.
OrderUnsynced(path) == <<"create", "write", "close", "rename">>

\* Closing the file and setting its mode are one step, which may fail.
Order(path) == <<"create", "write", "sync", "close", "rename">>

\* A write of one part leaves the writer where it is until it was the last.
Advanced(step, d, name) ==
    IF step = "write" /\ d[name].written + 1 < Parts THEN 0 ELSE 1

\* What a step that succeeds does to the disk.
Done(step, d, path, name, text) ==
    CASE step = "create" -> [d EXCEPT ![name] = File(text, 0, 0)]
      [] step = "write"  -> [d EXCEPT ![name].written = IF @ < Parts THEN @ + 1 ELSE @]
      [] step = "sync"   -> [d EXCEPT ![name].synced = d[name].written]
      [] step = "rename" -> [d EXCEPT ![Published(path)] = d[name], ![name] = NoFile]
      [] OTHER           -> d

\* Mutated form: removed by the steps that fail, and these forgot.
RemovedNever(d, name) == d

\* The deferred Remove, which finds nothing after a rename.
Removed(d, name) == [d EXCEPT ![name] = NoFile]

\* What a power failure leaves of a file.
Survivor(file) == [file EXCEPT !.written = file.synced]
===============================================================================
