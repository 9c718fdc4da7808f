-------------------------------- MODULE Bank --------------------------------
(***************************************************************************)
(* What both bank scripts work between: the account's movements, as the    *)
(* bank lists them, and the table bank_transactions they are stored in.    *)
(***************************************************************************)
EXTENDS Lists, SequencesExt

CONSTANT Feed   \* the account's movements in the order they arrive

ASSUME FeedIsAList == Feed \in Seq(ToSet(Feed))

VARIABLES
    posted,     \* how many movements of Feed the bank has
    db          \* bank_transactions

(* The list, newest first, as it was when k movements had arrived.         *)
Listing(k) == Reverse(SubSeq(Feed, 1, k))

=============================================================================
