------------------------------ MODULE MCRSpace ------------------------------
(* Two channels.  kj waits on both and is in the history with x0, so that a    *)
(* produce on channel 2 completes it; kc is a second consume of both; k1 and   *)
(* the installed ki wait on channel 1 for x2 only, so that x1 passes them by.  *)
EXTENDS RSpace

CONSTANTS x0, x1, x2, y1, y2, kj, kc, k1, ki

MCChannel == x0 :> 1 @@ x1 :> 1 @@ x2 :> 1 @@ y1 :> 2 @@ y2 :> 2
MCGroup == kj :> {1, 2} @@ kc :> {1, 2} @@ k1 :> {1} @@ ki :> {1}
MCAccepts == kj :> Datums @@ kc :> {x1, y1, y2} @@ k1 :> {x2} @@ ki :> {x2}
=============================================================================
