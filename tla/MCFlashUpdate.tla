---------------------------- MODULE MCFlashUpdate ----------------------------
(***************************************************************************)
(* FlashUpdate with the values its configurations need.                    *)
(***************************************************************************)
EXTENDS FlashUpdate, TLC

CONSTANTS l1, l2, i1, i2, i3

\* Two images have the same bootloader.
Loaders == i1 :> l1 @@ i2 :> l2 @@ i3 :> l1

ThreePages == l1 :> 3 @@ l2 :> 3

TwoOrThree == l1 :> 2 @@ l2 :> 3

TwoPages == l1 :> 2 @@ l2 :> 2

OnePage == l1 :> 1 @@ l2 :> 1

Apps == i1 :> 1 @@ i2 :> 2 @@ i3 :> 2
=============================================================================
