------------------------------ MODULE MCRwLoop ------------------------------
(***************************************************************************)
(* Instances of RwLoop for TLC.  File bytes are 10 + position, buffer      *)
(* bytes 20 + index for the first thread and 30 + index for the second, so *)
(* that every byte tells where it came from.                               *)
(***************************************************************************)
EXTENDS RwRefinement

CONSTANTS t1, t2

MCByte     == 0 .. 39
MCInitFile == [i \in 0 .. FileMax - 1 |-> IF i < InitSize THEN 10 + i ELSE 0]
MCInitBuf  == [t \in Threads |-> [i \in BufIndex |-> (IF t = t1 THEN 20 ELSE 30) + i]]

Req(op, variant, large, o, w, n) ==
    [op |-> op, variant |-> variant, large |-> large, off |-> o, ofs |-> w, len |-> n]

BytesKind == [t \in Threads |-> "Bytes"]
MixedKind == [t \in Threads |-> IF t = t1 THEN "Bytes" ELSE "BA"]
BAKind    == [t \in Threads |-> "BA"]

\* Requests at the edges of the argument check: accepted ones that reach the
\* last byte, empty ones, and ones whose ofs + len leaves the OCaml integers.
EdgeCalls ==
  {Req("pread", "all", FALSE, o, w, n) : o \in {-1, 0}, w \in {-1, 0, 1, max_int},
                                         n \in {-1, 0, BufLen, max_int}}
  \cup {Req("read", "all", FALSE, 0, w, n) : w \in {0, 1, max_int}, n \in {0, max_int}}

\* Readers and writers with every variant.
ReaderCalls == {Req(op, v, FALSE, 0, 1, BufLen - 1) : op \in {"pread", "read"}, v \in Variant}
                 \cup {Req("pread", "plain", TRUE, 0, 0, 2)}
WriterCalls == {Req("pwrite", v, FALSE, 1, 0, BufLen) : v \in {"all", "plain"}}
          \cup {Req("write", v, FALSE, 0, 0, BufLen) : v \in Variant \ {"all", "plain"}}

\* A bigarray is used as a whole; ofs and len are not arguments.
BigarrayCalls == {Req(op, v, FALSE, 1, 0, 0) : op \in Op, v \in Variant}
            \cup {Req(op, "all", TRUE, o, 0, 0) : op \in {"pread", "pwrite"}, o \in {-1, 0}}

MixedCalls == [t \in Threads |-> IF t = t1 THEN ReaderCalls \cup WriterCalls \cup EdgeCalls
                                ELSE BigarrayCalls]

\* LargeFile.pread with windows inside and outside of the buffer.
LargeCalls == [t \in Threads |->
  {Req("pread", "all", TRUE, 0, w, n) : w \in {0, BufLen}, n \in {0, BufLen}}]

\* Writes that fill the device or find it full.
ZeroCalls == [t \in Threads |->
  {Req("pwrite", "all", FALSE, o, 0, BufLen) : o \in {1, FileMax}}]

\* Interrupted and retried calls of one thread next to another that may hang.
LiveCalls == [t \in Threads |->
  {Req(op, "all", FALSE, 0, 0, BufLen) : op \in {"pread", "write"}}]
=============================================================================
