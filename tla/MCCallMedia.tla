---------------------------- MODULE MCCallMedia ----------------------------
(***************************************************************************)
(* CallMedia for TLC.  The unit of time is an eighth of a millisecond and  *)
(* a frame has two of them, so that a frame has 2, 4 or 6 samples.         *)
(***************************************************************************)
EXTENDS CallMedia

pcmu  == Codec("PCMU", 8000, 0)
pcma  == Codec("PCMA", 8000, 8)
l16   == Codec("L16", 16000, 100)
l24   == Codec("L16", 24000, 101)
other == Codec("opus", 48000, 102)

SomeOffers ==
  {<<>>, <<other>>, <<pcmu>>, <<pcma, pcmu>>, <<other, l16, pcma>>, <<l24>>,
   <<pcmu, l24, [l24 EXCEPT !.pt = 103], l16>>}

Lowest  == -32768
Highest == 32767
TwoSamples == {Lowest, Highest}

SomeChunks ==
  {<<Highest>>, <<-3, -2>>, <<Lowest, Highest, 1>>, <<5, 4, 3, 2>>,
   <<Highest, Lowest, Lowest, -1, 0>>, <<Lowest, Lowest, Lowest, Highest, Highest, Highest, 7>>}

\* What the two laws make of the lowest, the highest and the samples near zero.
Encode711(law, s) ==
  CASE s < -255 -> IF law = "PCMU" THEN 0 ELSE 42
    [] s > 255 -> IF law = "PCMU" THEN 128 ELSE 170
    [] s \in -255 .. -1 -> IF law = "PCMU" THEN 127 ELSE 85
    [] s \in 0 .. 255 -> IF law = "PCMU" THEN 255 ELSE 213

Decode711(law, b) ==
  CASE b = 0 -> -32124 [] b = 128 -> 32124
    [] b = 42 -> -32256 [] b = 170 -> 32256 [] b = 85 -> -8 [] b = 213 -> 8
    [] b \notin {0, 128, 42, 170, 85, 213} -> 0
=============================================================================
