------------------------------ MODULE FileStore ------------------------------
(***************************************************************************)
(* What users expect of the mounted file system: a file is a sequence of   *)
(* bytes, and each of write, read, stat and unlink takes effect at one     *)
(* instant.  Bytes are labels <<w, i>>: byte i of its file as write w gave  *)
(* it.                                                                     *)
(***************************************************************************)
EXTENDS Integers, Sequences

CONSTANTS Paths, NoPath, MaxLength, MaxWrites

VARIABLES
    files,   \* by path: its bytes, or NoFile
    answer   \* what the last request returned

NoFile == <<<<-1, -1>>>>
Zero == <<0, 0>>
Offsets == 0 .. MaxLength - 1

(* The bytes of write w for n bytes from offset on. *)
Data(w, offset, n) == [i \in 1 .. n |-> <<w, offset + i - 1>>]

(* File s with data put at offset. *)
Put(s, offset, data) ==
    LET end == offset + Len(data)
    IN  [i \in 1 .. (IF end > Len(s) THEN end ELSE Len(s)) |->
            CASE i > offset /\ i <= end -> data[i - offset]
              [] i <= offset /\ i > Len(s) -> Zero
              [] OTHER -> s[i]]

Reply(op, p, count, data) == [op |-> op, path |-> p, count |-> count, data |-> data]
NoReply == Reply("none", NoPath, 0, <<>>)

Init ==
    /\ files = [p \in Paths |-> NoFile]
    /\ answer = NoReply

Create(p) ==
    /\ files[p] = NoFile
    /\ files' = [files EXCEPT ![p] = <<>>]
    /\ UNCHANGED answer

(* A write that finds the disks full has taken effect in part: m bytes. *)
Write(p, offset, n, w, m) ==
    /\ files[p] # NoFile
    /\ answer' = Reply("write", p, IF m = n THEN n ELSE -1, <<>>)
    /\ files' = [files EXCEPT ![p] = Put(@, offset, Data(w, offset, m))]

Read(p, offset, n) ==
    /\ files[p] # NoFile
    /\ LET end == IF offset + n < Len(files[p]) THEN offset + n ELSE Len(files[p])
       IN  answer' = Reply("read", p, end - offset, SubSeq(files[p], offset + 1, end))
    /\ UNCHANGED files

Stat(p) ==
    /\ answer' = Reply("stat", p, IF files[p] = NoFile THEN -1 ELSE Len(files[p]), <<>>)
    /\ UNCHANGED files

Remove(p) ==
    /\ files[p] # NoFile
    /\ files' = [files EXCEPT ![p] = NoFile]
    /\ UNCHANGED answer

Next ==
    \E p \in Paths :
       \/ Create(p) \/ Stat(p) \/ Remove(p)
       \/ \E offset \in Offsets, n \in 1 .. MaxLength :
             \/ Read(p, offset, n)
             \/ \E w \in 1 .. MaxWrites, m \in 0 .. n :
                   offset + n <= MaxLength /\ Write(p, offset, n, w, m)

Spec == Init /\ [][Next]_<<files, answer>>
=============================================================================
