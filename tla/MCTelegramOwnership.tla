------------------------- MODULE MCTelegramOwnership -------------------------
(***************************************************************************)
(* Small instances of TelegramOwnership.                                   *)
(***************************************************************************)
EXTENDS TelegramOwnership, Sequences

\* A message of two lines, then a message of another chat.
LongThenForeign == <<2, 0>>

\* The first line creates an intent that waits for approval.
FirstLine == {<<1, 1>>}

BothModes == {"failover", "local-primary"}

\* A failover controller may lose its state file; somebody may set the webhook
\* of a local-primary one.
FailoverLoses  == [m \in BothModes |-> IF m = "failover" THEN 1 ELSE 0]
PrimaryIsTaken == [m \in BothModes |-> IF m = "local-primary" THEN 1 ELSE 0]
=============================================================================
