------------------------------- MODULE MCRtt -------------------------------
(***************************************************************************)
(* Three levels of two entries: pages 0..3 are protected, 4..7 are not.    *)
(***************************************************************************)
EXTENDS Rtt

\* Both halves down to their first two pages.
MCRttArgs == {[addr |-> 0, level |-> 2], [addr |-> 0, level |-> 3], [addr |-> 4, level |-> 2],
              [addr |-> 4, level |-> 3]}

\* The granules in the order that folds, and one of them at the other page too.
MCDataArgs == {[addr |-> 0, pa |-> 0], [addr |-> 1, pa |-> 1], [addr |-> 0, pa |-> 1]}

MCNsArgs == {[addr |-> 4, level |-> 2, pa |-> 0, attr |-> 0],
             [addr |-> 6, level |-> 2, pa |-> 2, attr |-> 0],
             [addr |-> 5, level |-> 3, pa |-> 1, attr |-> 1]}

MCRipasArgs == {[base |-> 0, top |-> 4, ripas |-> "empty", cd |-> FALSE],
                [base |-> 1, top |-> 2, ripas |-> "ram", cd |-> TRUE]}

MCInitArgs == {[base |-> 0, top |-> 4]}
=============================================================================
