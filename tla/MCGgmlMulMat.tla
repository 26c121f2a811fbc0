---------------------------- MODULE MCGgmlMulMat ----------------------------
(***************************************************************************)
(* TLC instance of GgmlMulMat: chunks of two by two (three in a vector) and *)
(* three threads.  The shapes are chosen to have more chunks than 4 * 3,   *)
(* which are stolen, fewer, which go by thread, and fewer rows than        *)
(* threads; odd and even ones, with matrices that pairs may and may not    *)
(* straddle; and experts with many rows, one or none.                      *)
(***************************************************************************)
EXTENDS GgmlMulMat

MulMat(rows, ne1, n) ==
    [experts |-> FALSE, converts |-> TRUE, twoRows |-> TRUE,
     rows |-> rows, ne1 |-> ne1, cols |-> <<ne1 * n>>]

Direct(m) == [m EXCEPT !.converts = FALSE]

MulMatId(rows, cols) ==
    [experts |-> TRUE, converts |-> TRUE, twoRows |-> FALSE,
     rows |-> rows, ne1 |-> 1, cols |-> cols]

MCGraphs == {
    <<MulMat(6, 4, 2), MulMat(5, 1, 1)>>,
    <<Direct(MulMat(2, 4, 3)), MulMat(6, 3, 2), MulMat(34, 1, 1)>>,
    <<MulMatId(7, <<7, 0, 1>>), MulMatId(6, <<7, 2, 1>>)>>,
    <<MulMat(7, 7, 1), MulMatId(3, <<0, 8, 0>>), Direct(MulMat(1, 2, 1))>>}
=============================================================================
