------------------------------ MODULE MCLaunch ------------------------------
EXTENDS Launch, TLC
==============================================================================
