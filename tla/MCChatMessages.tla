--------------------------- MODULE MCChatMessages ---------------------------
EXTENDS ChatMessages, TLC
=============================================================================
