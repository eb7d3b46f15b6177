------------------------------ MODULE MCChatPage ------------------------------
EXTENDS ChatPage
==============================================================================
