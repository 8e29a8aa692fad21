---------------------------- MODULE MCAlgorithms ----------------------------
(***************************************************************************)
(* Inputs around the values where the algorithms could go wrong: message   *)
(* lengths around multiples of K and padding bytes around 128, trees whose *)
(* number of leaves is no power of two, all polynomials up to degree 2     *)
(* over a small field, all small numbers, values around those a byte or    *)
(* two can hold, and cuts before, in and after the lengths of frames.      *)
(***************************************************************************)
EXTENDS Algorithms

MCCodes == [K \in {1, 2, 3, 5, 128, 130, 250, 254} |->
    CASE K < 128 -> 0..12
      [] K = 128 -> {0, 1, 127, 128, 255}
      [] K = 130 -> {0, 127, 128, 129, 130, 258}
      [] K >= 250 -> {0, 127, 128, 129, 190, 191, 192, 193, 194, 195, 196, 197, 249, 250, 253, 254}]
MCLeafCounts == 1..7
MCCandidates == 0..200
MCValues == {0, 255, 256, 65535, 65536}
MCLengths == {0, 1, 5, 256, 260}
MCCuts == {0, 1, 3, 4, 5, 8, 9, 264}
MCRsaDrawn == {<<>>, <<0>>, <<1>>, <<14>>, <<17, 5>>}
=============================================================================
