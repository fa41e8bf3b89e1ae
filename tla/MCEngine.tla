----------------------------- MODULE MCEngine -----------------------------
(* Small instances of the audio thread: two tracks of one format, one that *)
(* a seek reopens and one it repositions, and a track of another format.   *)
EXTENDS EngineProperties

CONSTANTS a, b, c, none, any, cd, hires

MCTracks == {a, b, c}
MCFormats == {cd, hires}
MCFormat == [t \in MCTracks |-> IF t = c THEN hires ELSE cd]
MCSeekMode == [t \in MCTracks |-> IF t = a THEN "Reopen"
                                  ELSE IF t = b THEN "InPlace" ELSE "None"]
=============================================================================
