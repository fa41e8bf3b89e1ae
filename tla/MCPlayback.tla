----------------------------- MODULE MCPlayback -----------------------------
(* Small instances of playback: a list of three short tracks.                *)
EXTENDS PlaybackProperties
MCLength == <<3, 1, 2>>
MCSeekMode == <<"ForwardOnly", "Reopen", "InPlace">>
=============================================================================
