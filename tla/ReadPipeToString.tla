-------------------------- MODULE ReadPipeToString --------------------------
(***************************************************************************)
(* authpolicy's ReadPipeToString(fd, out) (authpolicy/platform_helper.cc): *)
(* reads fd to its end into out, at most kMaxReadSize bytes, and fails for *)
(* a longer file.  A read() may return fewer bytes than asked for, or fail, *)
(* so the function is modelled by the set of outcomes of all the ways its   *)
(* reads can go: [result, out_len, read_failed], read_failed recording that *)
(* a read() returned -1.                                                   *)
(***************************************************************************)
EXTENDS Naturals

CONSTANTS
  kBufferSize,
  kMaxReadSize

Min2(a, b) == IF a < b THEN a ELSE b

Outcome(result, total_read, failed) ==
  [result |-> result, out_len |-> total_read, read_failed |-> failed]

\* The byte counts a read() of want bytes may return at offset total_read
\* of a file of size bytes (0 at the end of the file).
ReadCounts(size, total_read, want) ==
  IF Min2(want, size - total_read) = 0 THEN {0}
  ELSE 1..Min2(want, size - total_read)

\* The size limit is hit: one more read() of one byte tells a file of
\* exactly kMaxReadSize bytes from a longer one.
ExtraRead(size, total_read) ==
  {Outcome("failed", total_read, TRUE)}
    \cup {Outcome(IF n = 0 THEN "ok" ELSE "failed", total_read, FALSE) :
            n \in ReadCounts(size, total_read, 1)}

\* Variant: the loop runs while total_read <= kMaxReadSize.
RECURSIVE ReadLoopInclusive(_, _)
ReadLoopInclusive(size, total_read) ==
  IF total_read <= kMaxReadSize
    THEN {Outcome("failed", total_read, TRUE)}
           \cup UNION {IF n = 0 THEN {Outcome("ok", total_read, FALSE)}
                       ELSE ReadLoopInclusive(size, total_read + n) :
                         n \in ReadCounts(size, total_read,
                                 Min2(kBufferSize, kMaxReadSize - total_read))}
    ELSE ExtraRead(size, total_read)

\* The while loop from total_read bytes on: a read() of at most
\* min(kBufferSize, kMaxReadSize - total_read) bytes fails, ends the file,
\* or appends what it read and goes round again.
RECURSIVE ReadLoop(_, _)
ReadLoop(size, total_read) ==
  IF total_read < kMaxReadSize
    THEN {Outcome("failed", total_read, TRUE)}
           \cup UNION {IF n = 0 THEN {Outcome("ok", total_read, FALSE)}
                       ELSE ReadLoop(size, total_read + n) :
                         n \in ReadCounts(size, total_read,
                                 Min2(kBufferSize, kMaxReadSize - total_read))}
    ELSE ExtraRead(size, total_read)

\* The outcomes of ReadPipeToString() on a file of size bytes.
ReadOutcomes(size) == ReadLoop(size, 0)
=============================================================================
