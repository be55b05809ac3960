------------------------------ MODULE MCGifPlayer ------------------------------
(* Names of which one is the beginning of another.                           *)
EXTENDS GifPlayer
MCNames == {<<1>>, <<1, 1>>, <<2>>}
================================================================================
