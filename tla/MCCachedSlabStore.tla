------------------------- MODULE MCCachedSlabStore -------------------------
(***************************************************************************)
(* Two readers of an image with a plain drop, a seekable drop of three     *)
(* frames and a drop larger than the byte budget; both caches are smaller  *)
(* than the data.                                                          *)
(***************************************************************************)
EXTENDS CachedSlabStore, TLC

CONSTANTS plain, seek, huge

MCKeys == {plain, seek, huge}
MCSize == plain :> 1 @@ seek :> 4 @@ huge :> 5
MCFrameLens == plain :> <<>> @@ seek :> <<1, 1, 2>> @@ huge :> <<>>
MCFiles == {<<plain, seek, plain>>}
============================================================================
