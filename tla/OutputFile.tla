----------------------------- MODULE OutputFile -----------------------------
(***************************************************************************)
(* Contents of a binary file as a sequence of extents (see PseFormat), and *)
(* the file-system operations the image tool applies to its output file:   *)
(* write at the end, and truncate, which cuts the file or extends it with  *)
(* zero bytes.  Adjacent extents that continue each other are merged, so a *)
(* file has one normal form whatever the chunking of the writes was.       *)
(***************************************************************************)
EXTENDS Integers, Sequences, PseFormat
LOCAL SE == INSTANCE SequencesExt

NoFile    == [exists |-> FALSE, data |-> <<>>]
EmptyFile == [exists |-> TRUE,  data |-> <<>>]

(* Total number of bytes in a sequence of extents.                         *)
Size(d) == SE!FoldLeft(LAMBDA acc, e : acc + e.len, 0, d)

(* Extent e carries on where extent a stops.                               *)
Continues(a, e) ==
  /\ a.src = e.src
  /\ \/ a.src = ZeroSrc
     \/ a.off + a.len = e.off

(* d with the bytes of extent e written after its last byte.               *)
Appended(d, e) ==
  IF e.len = 0 THEN d
  ELSE IF d # <<>> /\ Continues(d[Len(d)], e)
       THEN [d EXCEPT ![Len(d)].len = @ + e.len]
       ELSE Append(d, e)

Normalized(d) == SE!FoldLeft(Appended, <<>>, d)

Concat(d, e) == SE!FoldLeft(Appended, d, e)

(* The first n bytes of d.                                                 *)
RECURSIVE Prefix(_, _)
Prefix(d, n) ==
  IF d = <<>> \/ n = 0 THEN <<>>
  ELSE IF Head(d).len >= n THEN <<[Head(d) EXCEPT !.len = n]>>
  ELSE <<Head(d)>> \o Prefix(Tail(d), n - Head(d).len)

(* d without its first n bytes.                                            *)
RECURSIVE Drop(_, _)
Drop(d, n) ==
  IF d = <<>> \/ n = 0 THEN d
  ELSE IF Head(d).len > n
       THEN <<[Head(d) EXCEPT !.off = IF Head(d).src = ZeroSrc THEN 0 ELSE @ + n,
                               !.len = @ - n]>> \o Tail(d)
  ELSE Drop(Tail(d), n - Head(d).len)

(* Bytes [a, b) of d.                                                      *)
Bytes(d, a, b) == Prefix(Drop(d, a), b - a)

(* file.truncate(n): cut to n bytes, or extend with zero bytes to n.       *)
Truncated(d, n) ==
  IF n <= Size(d) THEN Prefix(d, n) ELSE Appended(d, Zeros(n - Size(d)))

(* The bytes [pos, pos + len) of d are bytes [0, len) of source s.         *)
HoldsAt(d, pos, s, len) ==
  /\ Size(d) >= pos + len
  /\ Normalized(Bytes(d, pos, pos + len)) =
       IF len = 0 THEN <<>> ELSE <<Extent(s, 0, len)>>

(***************************************************************************)
(* open(path, 'wb') returns a BufferedWriter.  A write that fits in the   *)
(* free buffer space is only copied into the buffer; otherwise the buffer *)
(* is flushed, and the data is written through when it is longer than the *)
(* buffer, or else copied into the emptied buffer.  truncate() flushes     *)
(* first.  b is the number of bytes held in the buffer.                    *)
(***************************************************************************)
BUFFER_SIZE == 8192   \* io.DEFAULT_BUFFER_SIZE

BufferedAfter(b, n) ==
  IF b + n <= BUFFER_SIZE THEN b + n
  ELSE IF n <= BUFFER_SIZE THEN n
  ELSE 0

(* The buffer after a sequence of writes, each a sequence of extents.      *)
BufferedAfterWrites(b, ws) ==
  SE!FoldLeft(LAMBDA acc, w : BufferedAfter(acc, Size(w)), b, ws)

=============================================================================
