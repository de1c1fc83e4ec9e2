---------------------------- MODULE MCClipLibrary ----------------------------
EXTENDS ClipLibrary, TLC

CONSTANTS c1, c2, k1, k2, k3

\* k2 pads the clips of k1 differently; k3 changes their quality, takes no
\* thumbnails, and its scout finds one candidate less.
MCFound == k1 :> <<c1, c2>> @@ k2 :> <<c1, c2>> @@ k3 :> <<c2>>
MCExtraction ==
    LET Setting(p, q, t) == [pad |-> p, quality |-> q, thumbnail |-> t]
    IN k1 :> Setting(1, 1, TRUE) @@ k2 :> Setting(2, 1, TRUE) @@ k3 :> Setting(1, 2, FALSE)
MCPresentation == k1 :> 3 @@ k2 :> 3 @@ k3 :> 1
===============================================================================
