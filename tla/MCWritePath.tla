----------------------------- MODULE MCWritePath -----------------------------
(***************************************************************************)
(* Instances of WritePath for TLC: a watched tree that another program also *)
(* changes, and storage nobody watches under more requests.                 *)
(***************************************************************************)
EXTENDS WritePath, TLC

CONSTANTS short, long, mp3

VARIABLE watching   \* which of the two instances a behaviour is of

\* A note in one batch, one in two, and an attachment, which the index does not hold.
MCChunks == [b \in Bodies |-> IF b = short THEN 1 ELSE IF b = long THEN 2 ELSE 0]

Tree == INSTANCE WritePath WITH Bodies <- Bodies \ {mp3}

Unwatched == INSTANCE WritePath WITH
    Bodies <- Bodies \ {short}, Watched <- FALSE, MaxChanges <- 3, MaxEdits <- 0

MCInit == watching \in BOOLEAN /\ Init

MCNext ==
    /\ UNCHANGED watching
    /\ \/ watching /\ Tree!Next
       \/ ~watching /\ Unwatched!Next

MCSpec == MCInit /\ [][MCNext]_<<watching, vars>>

WriterSymmetry == Permutations(Writers)
=============================================================================
