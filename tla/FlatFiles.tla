------------------------------ MODULE FlatFiles ------------------------------
(* What the simple file system promises the programs that hold files open:  *)
(* a file is a row of bytes, a handle a file with a position, and neither    *)
(* the blocks of the disk, nor the inodes in memory, nor a shutdown and the  *)
(* next boot are seen.                                                      *)
EXTENDS Integers, Sequences

CONSTANTS File, Handle, Byte,
          Closed,       \* a handle that is not open
          MaxFileSize,  \* where files end
          Lengths,      \* how much programs read and write at once
          Positions     \* where they seek to

VARIABLES content,      \* content[f], a sequence of bytes
          handle,       \* handle[h], Closed or [file, pos]
          got,          \* what the last call read
          torn,         \* files whose contents are lost
          scarce        \* fewer than two blocks of the disk are free

flatVars == <<content, handle, got, torn, scarce>>

FlatInit ==
    /\ content = [f \in File |-> <<>>]
    /\ handle = [h \in Handle |-> Closed]
    /\ got = <<>>
    /\ torn = {}
    /\ scarce \in BOOLEAN

Larger(a, b) == IF a > b THEN a ELSE b
Smaller(a, b) == IF a > b THEN b ELSE a

\* s with n bytes b from position pos on, after zeros up to pos.
Written(s, pos, n, b) ==
    [i \in 1 .. Larger(Len(s), pos + n) |->
        IF pos < i /\ i <= pos + n THEN b
        ELSE IF i <= Len(s) THEN s[i] ELSE 0]

\* n bytes were asked for at pos and k were moved: all of them, or the disk is
\* full, or the file is as long as files get.
Moved(k, n, pos) == k \in 0 .. n /\ (k < n => scarce' \/ pos + k = MaxFileSize)

Intact(h) == handle[h] # Closed /\ handle[h].file \notin torn

FlatOpen(h, f, truncate, append) ==
    /\ handle[h] = Closed
    /\ f \notin torn
    /\ handle' = [handle EXCEPT ![h] =
                    [file |-> f, pos |-> IF append /\ ~ truncate
                                         THEN Len(content[f]) ELSE 0]]
    /\ content' = IF truncate THEN [content EXCEPT ![f] = <<>>] ELSE content
    /\ got' = <<>>
    /\ UNCHANGED torn

FlatWrite(h, n, b) ==
    /\ Intact(h)
    /\ \E k \in 0 .. n :
        /\ Moved(k, n, handle[h].pos)
        /\ handle' = [handle EXCEPT ![h].pos = @ + k]
        /\ content' = [content EXCEPT ![handle[h].file] =
                                      Written(@, handle[h].pos, k, b)]
    /\ got' = <<>>
    /\ UNCHANGED torn

FlatRead(h, n) ==
    /\ Intact(h)
    /\ LET s == content[handle[h].file]
           pos == handle[h].pos
           k == Larger(0, Smaller(n, Len(s) - pos))
       IN  /\ handle' = [handle EXCEPT ![h].pos = @ + k]
           /\ got' = SubSeq(s, pos + 1, pos + k)
    /\ UNCHANGED <<torn, content>>

\* A seek past the end makes the file longer; it fails when the disk is full
\* or the file would be too long.
FlatSeek(h, pos) ==
    /\ Intact(h)
    /\ \/ /\ handle' = [handle EXCEPT ![h].pos = pos]
          /\ content' = [content EXCEPT ![handle[h].file] = Written(@, pos, 0, 0)]
       \/ /\ scarce' \/ pos >= MaxFileSize
          /\ UNCHANGED <<handle, content>>
    /\ got' = <<>>
    /\ UNCHANGED torn

FlatClose(h) ==
    /\ handle[h] # Closed
    /\ handle' = [handle EXCEPT ![h] = Closed]
    /\ got' = <<>>
    /\ UNCHANGED <<torn, content>>

FlatSync(h) ==
    /\ handle[h] # Closed
    /\ got' = <<>>
    /\ UNCHANGED <<handle, torn, content>>

(* A position may lie past the end, when the file was emptied through       *)
(* another handle.  A write there that finds the disk full loses the file;  *)
(* what is done to it later concerns no other file and no other handle.     *)
FlatTear(h) ==
    /\ handle[h] # Closed
    /\ handle[h].pos > Len(content[handle[h].file])
    /\ scarce'
    /\ UNCHANGED handle
    /\ torn' = torn \cup {handle[h].file}
    /\ content' = [content EXCEPT ![handle[h].file] = <<>>]
    /\ got' = <<>>

FlatUseTorn(h) ==
    /\ handle'[h] # Closed
    /\ handle'[h].file \in torn
    /\ handle[h] # Closed => handle[h].file = handle'[h].file
    /\ \A g \in Handle \ {h} : handle'[g] = handle[g]
    /\ UNCHANGED <<torn, content>>

FlatNext ==
    \E h \in Handle :
        \/ \E f \in File, t, a \in BOOLEAN : FlatOpen(h, f, t, a)
        \/ \E n \in Lengths, b \in Byte : FlatWrite(h, n, b)
        \/ \E n \in Lengths : FlatRead(h, n)
        \/ \E pos \in Positions : FlatSeek(h, pos)
        \/ FlatSync(h)
        \/ FlatClose(h)
        \/ FlatTear(h)
        \/ FlatUseTorn(h)

FlatSpec == FlatInit /\ [][FlatNext]_<<content, handle, got, torn>>

=============================================================================
