--------------------------- MODULE MCGCodeBuffer ---------------------------
(* Small instances of GCodeBuffer for TLC. *)
EXTENDS GCodeBuffer, TLC

CONSTANTS a, b, src1, src2

MCSizeOf == (a :> 2) @@ (b :> 3)

OneLine(raw, line) == [raw |-> raw, lines |-> <<line>>, bare |-> FALSE]

(* "a<nl>", "a" without newline, "b;c<nl>", ";c" and ";c<nl>" *)
FullA     == OneLine(2, a)
CutA      == OneLine(1, a)
FullB     == OneLine(5, b)
BareComment   == [raw |-> 2, lines |-> <<>>, bare |-> TRUE]
ClosedComment == [raw |-> 2, lines |-> <<>>, bare |-> FALSE]
TwoLines      == [raw |-> 5, lines |-> <<b, a>>, bare |-> FALSE]

(* One or two pieces of the split loop, the last of which may end without  *)
(* a newline.                                                              *)
MCGcodes ==
  { <<>>, <<CutA>>, <<FullB>>, <<BareComment>>, <<ClosedComment>>,
    <<TwoLines, CutA>>, <<FullA, BareComment>> }

(* Chunks with and without numbers, totals and sources, that fit together  *)
(* or do not.                                                              *)
Numbered(number, total, source) ==
  [seqNumber |-> number, seqTotal |-> total, source |-> source]

MCMetaDatas ==
  { NULL, NoMetaData, Numbered(0, -1, NULL), Numbered(1, -1, NULL), Numbered(2, -1, NULL),
    Numbered(0, 2, src1), Numbered(1, 2, src1), Numbered(1, 2, src2), Numbered(2, 2, src1) }

NoMeta      == {NULL}
BothSources == {src1, src2}
SomeTotals  == {-1, 1}
=============================================================================
