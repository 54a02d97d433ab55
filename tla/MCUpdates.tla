----------------------------- MODULE MCUpdates -----------------------------
(* Updates on a small instance. *)
EXTENDS Updates

\* Numbers start at 1: three updates of the account, or one of the account and
\* two of the channel.
AccountPts == [account |-> 4, channel |-> 1]
ChannelPts == [account |-> 1, channel |-> 3]
=============================================================================
