----------------------------- MODULE MCUpgrade -----------------------------
EXTENDS Upgrade

MCCommands == Kinds
=============================================================================
